--------------------------- MODULE Notifications ---------------------------
(***************************************************************************)
(* Notifications of one managed account: an event is put into the queue    *)
(* under an id made of its own (notification.publisher.ts), a slot of the  *)
(* worker stores it in the inbox and then sends it to the account's push   *)
(* subscriptions (notification.processor.ts, notification.service.ts),     *)
(* while the API subscribes endpoints and marks notifications read         *)
(* (apps/api/src/notifications) and may remove the account.                *)
(***************************************************************************)
EXTENDS Naturals, FiniteSets

CONSTANTS
  Events,      \* domain events; producers may publish one again after a retry
  Endpoints,   \* push endpoints of the administrator's browsers
  Slots,       \* concurrent handlers (NOTIFICATION_CONCURRENCY)
  None,        \* a slot without an event
  MaxAttempts, \* attempts of a queue job (3 in the code)
  MaxStalls,   \* BullMQ's maxStalledCount (1 by default)
  MaxLosses,   \* bound: crashes of the worker and locks lost by a live handler
  MaxFaults,   \* bound: database calls that fail on their own
  MaxCycles    \* bound: publications of an event

ASSUME NoneAssumption == None \notin Events
ASSUME BoundAssumption == /\ MaxAttempts \in Nat \ {0} /\ MaxStalls \in Nat /\ MaxLosses \in Nat
                          /\ MaxFaults \in Nat /\ MaxCycles \in Nat \ {0}

VARIABLES
  published, \* how often each event was published
  queue,     \* what BullMQ holds under the event's id
  inbox,     \* Notification rows
  subs,      \* PushSubscription rows of the account
  gone,      \* endpoints their push service has given up (404 or 410)
  pushed,    \* deliveries of every event to every endpoint
  run,       \* the handler running in each slot
  managed,   \* the account exists
  losses, faults

database == <<inbox, subs, managed>>
vars == <<published, queue, database, gone, pushed, run, losses, faults>>

\* lock: the slot still holds the queue job; todo, dying: subscriptions to send to and to delete.
Idle == [pc |-> "idle", e |-> None, lock |-> FALSE, todo |-> {}, dying |-> {}]
NotQueued == [st |-> "none", attempts |-> 0, stalls |-> 0]

TypeOK ==
  /\ published \in [Events -> 0..MaxCycles]
  /\ queue \in [Events -> [st : {"none", "waiting", "active", "completed", "failed"}, attempts : 0..MaxAttempts, stalls : 0..MaxStalls + 1]]
  /\ inbox \in [Events -> {"absent", "unread", "read"}]
  /\ subs \subseteq Endpoints /\ gone \subseteq Endpoints
  /\ pushed \in [Events -> [Endpoints -> Nat]]
  /\ run \in [Slots -> [pc : {"idle", "create", "list", "push"}, e : Events \cup {None}, lock : BOOLEAN,
                        todo : SUBSET Endpoints, dying : SUBSET Endpoints]]
  /\ \A s \in Slots : run[s].pc # "idle" => run[s].e # None
  /\ managed \in BOOLEAN /\ losses \in 0..MaxLosses /\ faults \in 0..MaxFaults

Init ==
  /\ published = [e \in Events |-> 0] /\ queue = [e \in Events |-> NotQueued]
  /\ inbox = [e \in Events |-> "absent"] /\ subs \in SUBSET Endpoints /\ gone = {}
  /\ pushed = [e \in Events |-> [p \in Endpoints |-> 0]]
  /\ run = [s \in Slots |-> Idle] /\ managed = TRUE /\ losses = 0 /\ faults = 0

---------------------------------------------------------------------------
(* The publisher and the queue.                                            *)

\* add does nothing while a job with the id is kept; an error is logged and swallowed.
Publish(e) ==
  /\ published[e] < MaxCycles /\ published' = [published EXCEPT ![e] = @ + 1]
  /\ \/ /\ queue[e].st = "none" /\ queue' = [queue EXCEPT ![e] = [NotQueued EXCEPT !.st = "waiting"]]
     \/ UNCHANGED queue
  /\ UNCHANGED <<database, gone, pushed, run, losses, faults>>

\* removeOnComplete: completed jobs are forgotten after seven days, failed ones never.
Forget(e) ==
  /\ queue[e].st = "completed" /\ queue' = [queue EXCEPT ![e] = NotQueued]
  /\ UNCHANGED <<published, database, gone, pushed, run, losses, faults>>

At(s, pc) == run[s].pc = pc
Become(s, r) == run' = [run EXCEPT ![s] = r]

Take(s, e) ==
  /\ At(s, "idle") /\ queue[e].st = "waiting"
  /\ queue' = [queue EXCEPT ![e].st = "active"]
  /\ Become(s, [Idle EXCEPT !.pc = "create", !.e = e, !.lock = TRUE])
  /\ UNCHANGED <<published, database, gone, pushed, losses, faults>>

\* Mutant: the job is added without the attempts option.
AfterThrowOnce(q) == [q EXCEPT !.attempts = @ + 1, !.st = "failed"]

AfterThrow(q) == [q EXCEPT !.attempts = @ + 1, !.st = IF q.attempts + 1 < MaxAttempts THEN "waiting" ELSE "failed"]

\* The handler ends; without the lock its outcome is not recorded.
Leave(s, q) ==
  /\ Become(s, Idle)
  /\ queue' = IF run[s].lock THEN [queue EXCEPT ![run[s].e] = q] ELSE queue

\* The lock of a handler runs out: its process died, or it is too busy to renew it and goes on.
Lose(s) ==
  /\ run[s].lock /\ losses < MaxLosses /\ losses' = losses + 1
  /\ \/ Become(s, Idle)
     \/ Become(s, [run[s] EXCEPT !.lock = FALSE])
  /\ queue' = [queue EXCEPT ![run[s].e].stalls = @ + 1,
                            ![run[s].e].st = IF queue[run[s].e].stalls < MaxStalls THEN "waiting" ELSE "failed"]
  /\ UNCHANGED <<published, database, gone, pushed, faults>>

---------------------------------------------------------------------------
(* publishNotification: createOnce, the subscriptions, one push for each.  *)

\* Mutant: every delivery counts as the first.
CreatedAlways(e) == TRUE

\* eventId is unique, so only the delivery that inserts the row goes on to push.
Created(e) == inbox[e] = "absent"

Create(s) ==
  /\ At(s, "create") /\ managed
  /\ inbox' = [inbox EXCEPT ![run[s].e] = IF @ = "absent" THEN "unread" ELSE @]
  /\ IF Created(run[s].e)
     THEN /\ Become(s, [run[s] EXCEPT !.pc = "list"]) /\ UNCHANGED queue
     ELSE Leave(s, [queue[run[s].e] EXCEPT !.st = "completed"])
  /\ UNCHANGED <<published, subs, managed, gone, pushed, losses, faults>>

\* The insert fails by itself, or because the account is removed.
CreateFails(s) ==
  /\ At(s, "create")
  /\ \/ ~managed /\ UNCHANGED faults
     \/ faults < MaxFaults /\ faults' = faults + 1
  /\ Leave(s, AfterThrow(queue[run[s].e]))
  /\ UNCHANGED <<published, database, gone, pushed, losses>>

\* A failing read of the subscriptions counts as none.
List(s) ==
  /\ At(s, "list")
  /\ \/ Become(s, [run[s] EXCEPT !.pc = "push", !.todo = subs]) /\ UNCHANGED faults
     \/ /\ faults < MaxFaults /\ faults' = faults + 1
        /\ Become(s, [run[s] EXCEPT !.pc = "push"])
  /\ UNCHANGED <<published, queue, database, gone, pushed, losses>>

\* A push is delivered, its answer is lost, or it fails; nothing is sent twice.
Send(s, p) ==
  /\ At(s, "push") /\ p \in run[s].todo
  /\ \E ok, arrives \in BOOLEAN :
       /\ (ok => arrives) /\ (arrives => p \notin gone)
       /\ pushed' = IF arrives THEN [pushed EXCEPT ![run[s].e][p] = @ + 1] ELSE pushed
       /\ Become(s, [run[s] EXCEPT !.todo = @ \ {p}, !.dying = @ \cup (gone \cap {p})])
  /\ UNCHANGED <<published, queue, database, gone, losses, faults>>

\* deletePushSubscription; an error of one subscription is not noticed (allSettled).
Drop(s, p) ==
  /\ At(s, "push") /\ p \in run[s].dying
  /\ Become(s, [run[s] EXCEPT !.dying = @ \ {p}])
  /\ \/ subs' = subs \ {p} /\ UNCHANGED faults
     \/ faults < MaxFaults /\ faults' = faults + 1 /\ UNCHANGED subs
  /\ UNCHANGED <<published, queue, inbox, managed, gone, pushed, losses>>

Finish(s) ==
  /\ At(s, "push") /\ run[s].todo = {} /\ run[s].dying = {}
  /\ Leave(s, [queue[run[s].e] EXCEPT !.st = "completed"])
  /\ UNCHANGED <<published, database, gone, pushed, losses, faults>>

---------------------------------------------------------------------------
(* The API and the world.                                                  *)

Subscribe(p) ==
  /\ managed /\ p \notin subs /\ subs' = subs \cup {p}
  /\ UNCHANGED <<published, queue, inbox, managed, gone, pushed, run, losses, faults>>

MarkRead(e) ==
  /\ managed /\ inbox[e] = "unread" /\ inbox' = [inbox EXCEPT ![e] = "read"]
  /\ UNCHANGED <<published, queue, subs, managed, gone, pushed, run, losses, faults>>

\* The account is deleted (AccountsService.remove), its rows with it.
Remove ==
  /\ managed /\ managed' = FALSE
  /\ inbox' = [e \in Events |-> "absent"] /\ subs' = {}
  /\ UNCHANGED <<published, queue, gone, pushed, run, losses, faults>>

GiveUp(p) ==
  /\ p \notin gone /\ gone' = gone \cup {p}
  /\ UNCHANGED <<published, queue, database, pushed, run, losses, faults>>

Handle(s) ==
  \/ \E e \in Events : Take(s, e)
  \/ Create(s) \/ CreateFails(s) \/ List(s) \/ Finish(s)
  \/ \E p \in Endpoints : Send(s, p) \/ Drop(s, p)

Next ==
  \/ \E e \in Events : Publish(e) \/ Forget(e) \/ MarkRead(e)
  \/ \E s \in Slots : Handle(s) \/ Lose(s)
  \/ \E p \in Endpoints : Subscribe(p) \/ GiveUp(p)
  \/ Remove

\* The worker's event loop goes on with every handler and takes what waits.
Fairness == \A s \in Slots : WF_vars(Handle(s))
Spec == Init /\ [][Next]_vars /\ Fairness

---------------------------------------------------------------------------
(* Properties.                                                             *)

\* Repeated publications, retries, stalled jobs and two slots at work on one event push it
\* to a browser at most once (createOnce, notification.service.ts:104), and what was pushed
\* is in the inbox while the account exists.
PushOnce ==
  \A e \in Events, p \in Endpoints :
    /\ pushed[e][p] <= 1
    /\ managed /\ pushed[e][p] > 0 => inbox[e] # "absent"

\* An event the queue has accepted gets into the inbox of its account, as long as failures
\* stay below the attempts and stalls of its job.
NotificationAppears == \A e \in Events : queue[e].st = "waiting" ~> (inbox[e] # "absent" \/ ~managed)
=============================================================================
