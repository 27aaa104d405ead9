------------------------- MODULE NotificationsProofs -------------------------
(* Theorems about Notifications for every number of events, endpoints and    *)
(* slots, and every bound.                                                   *)
EXTENDS Notifications, TLAPS

Handlers == [pc : {"idle", "create", "list", "push"}, e : Events \cup {None}, lock : BOOLEAN,
             todo : SUBSET Endpoints, dying : SUBSET Endpoints]
QueueJobs == [st : {"none", "waiting", "active", "completed", "failed"}, attempts : 0..MaxAttempts, stalls : 0..MaxStalls + 1]

\* A slot past the insert that admits it to the pushes of an event.
Pushing(s, e) == run[s].e = e /\ run[s].pc \in {"list", "push"}

\* A lock is held on an active job, and by one slot.
Locked ==
  /\ \A s \in Slots : run[s].lock => run[s].pc # "idle" /\ run[s].e \in Events /\ queue[run[s].e].st = "active"
  /\ \A s, t \in Slots : run[s].lock /\ run[t].lock /\ run[s].e = run[t].e => s = t

\* A job that waits or runs has an attempt and a stall left.
Tries ==
  \A e \in Events : queue[e].st \in {"waiting", "active"} => queue[e].attempts < MaxAttempts /\ queue[e].stalls <= MaxStalls

\* The inbox row of an event is what admits to its pushes, so one slot at most
\* is admitted, and has not sent what it still has to send.
Admitted ==
  /\ \A s, t \in Slots, e \in Events : Pushing(s, e) /\ Pushing(t, e) => s = t
  /\ \A s \in Slots, e \in Events : Pushing(s, e) /\ managed => inbox[e] # "absent"
  /\ \A s \in Slots, e \in Events, p \in Endpoints :
       Pushing(s, e) /\ (run[s].pc = "list" \/ p \in run[s].todo) => pushed[e][p] = 0

IInv == TypeOK /\ Locked /\ Tries /\ Admitted /\ PushOnce

---------------------------------------------------------------------------
LEMMA Initially == Init => IInv
<1> SUFFICES ASSUME Init PROVE IInv
  OBVIOUS
<1>1. \A s \in Slots : run[s].pc = "idle" /\ ~run[s].lock
  BY DEF Init, Idle
<1>2. \A e \in Events : queue[e] = NotQueued
  BY DEF Init
<1>3. \A e \in Events, p \in Endpoints : pushed[e][p] = 0
  BY DEF Init
<1>4. TypeOK
  <2>1. run \in [Slots -> Handlers]
    <3>1. Idle \in Handlers
      BY DEF Idle, Handlers
    <3> QED
      BY <3>1 DEF Init
  <2>2. queue \in [Events -> QueueJobs]
    <3>1. NotQueued \in QueueJobs
      BY BoundAssumption DEF NotQueued, QueueJobs
    <3> QED
      BY <3>1 DEF Init
  <2>3. pushed \in [Events -> [Endpoints -> Nat]] /\ published \in [Events -> 0..MaxCycles]
        /\ inbox \in [Events -> {"absent", "unread", "read"}]
    BY BoundAssumption DEF Init
  <2> QED
    BY <1>1, <2>1, <2>2, <2>3, BoundAssumption DEF Init, TypeOK, Handlers, QueueJobs
<1>5. Locked /\ Tries
  BY <1>1, <1>2 DEF Locked, Tries, NotQueued
<1>6. Admitted /\ PushOnce
  BY <1>1, <1>3 DEF Admitted, Pushing, PushOnce
<1> QED
  BY <1>4, <1>5, <1>6 DEF IInv

---------------------------------------------------------------------------
(* Steps of the queue alone.                                               *)

\* A job may enter the queue, or leave it, where no lock is held on it.
LEMMA QueueKeeps ==
  ASSUME IInv, NEW e \in Events, NEW q \in QueueJobs,
         queue[e].st # "active", q.st # "active",
         q.st = "waiting" => q.attempts < MaxAttempts /\ q.stalls <= MaxStalls,
         queue' = [queue EXCEPT ![e] = q],
         published' \in [Events -> 0..MaxCycles],
         UNCHANGED <<database, gone, pushed, run, losses, faults>>
  PROVE  IInv'
<1> USE DEF database
<1>1. queue' \in [Events -> QueueJobs] /\ queue'[e] = q /\ \A f \in Events \ {e} : queue'[f] = queue[f]
  BY DEF IInv, TypeOK, QueueJobs
<1>2. TypeOK'
  BY <1>1 DEF IInv, TypeOK, QueueJobs
<1>3. Locked'
  BY <1>1 DEF IInv, Locked
<1>4. Tries'
  BY <1>1 DEF IInv, Tries
<1>5. Admitted' /\ PushOnce'
  BY DEF IInv, Admitted, Pushing, PushOnce
<1> QED
  BY <1>2, <1>3, <1>4, <1>5 DEF IInv

LEMMA PublishKeeps ==
  ASSUME IInv, NEW e \in Events, Publish(e)
  PROVE  IInv'
<1>1. published' \in [Events -> 0..MaxCycles]
  BY BoundAssumption DEF Publish, IInv, TypeOK
<1>2. CASE queue' = [queue EXCEPT ![e] = [NotQueued EXCEPT !.st = "waiting"]] /\ queue[e].st = "none"
  <2> DEFINE q == [NotQueued EXCEPT !.st = "waiting"]
  <2>1. q \in QueueJobs /\ q.st = "waiting" /\ q.attempts < MaxAttempts /\ q.stalls <= MaxStalls
    BY BoundAssumption DEF NotQueued, QueueJobs
  <2> HIDE DEF q
  <2> QED
    BY <1>1, <1>2, <2>1, QueueKeeps DEF Publish, q
<1>3. CASE UNCHANGED queue
  BY <1>1, <1>3 DEF Publish, database, IInv, TypeOK, Locked, Tries, Admitted, Pushing, PushOnce
<1> QED
  BY <1>2, <1>3 DEF Publish

LEMMA ForgetKeeps ==
  ASSUME IInv, NEW e \in Events, Forget(e)
  PROVE  IInv'
<1>1. NotQueued \in QueueJobs /\ NotQueued.st = "none"
  BY BoundAssumption DEF NotQueued, QueueJobs
<1>2. published' \in [Events -> 0..MaxCycles]
  BY DEF Forget, IInv, TypeOK
<1> QED
  BY <1>1, <1>2, QueueKeeps DEF Forget

---------------------------------------------------------------------------
(* Steps of a handler.                                                     *)

\* A slot takes an event it does not push yet, gives up its lock or ends, and
\* its queue job follows.
LEMMA SlotKeeps ==
  ASSUME IInv, NEW s \in Slots, NEW h \in Handlers, NEW e \in Events, NEW q \in QueueJobs,
         run' = [run EXCEPT ![s] = h], queue' \in {queue, [queue EXCEPT ![e] = q]},
         h.pc # "idle" => h.e = e,
         h.lock => h.pc # "idle" /\ queue'[e].st = "active" /\ ~\E t \in Slots \ {s} : run[t].lock /\ run[t].e = e,
         queue' # queue => ~\E t \in Slots \ {s} : run[t].lock /\ run[t].e = e,
         q.st \in {"waiting", "active"} => q.attempts < MaxAttempts /\ q.stalls <= MaxStalls,
         h.pc \in {"list", "push"} => run[s].e = e /\ run[s].pc = h.pc /\ h.todo = run[s].todo,
         losses' \in 0..MaxLosses, faults' \in 0..MaxFaults,
         UNCHANGED <<published, database, gone, pushed>>
  PROVE  IInv'
<1> USE DEF database
<1>1. run' \in [Slots -> Handlers] /\ run'[s] = h /\ \A t \in Slots \ {s} : run'[t] = run[t]
  BY DEF IInv, TypeOK, Handlers
<1>2. /\ queue' \in [Events -> QueueJobs]
      /\ \A f \in Events \ {e} : queue'[f] = queue[f]
      /\ queue'[e] \in {queue[e], q}
  <2>1. CASE queue' = queue
    BY <2>1 DEF IInv, TypeOK, QueueJobs
  <2>2. CASE queue' = [queue EXCEPT ![e] = q]
    BY <2>2 DEF IInv, TypeOK, QueueJobs
  <2> QED
    BY <2>1, <2>2
<1>3. TypeOK'
  <2>1. \A t \in Slots : run'[t].pc # "idle" => run'[t].e # None
    BY <1>1, NoneAssumption DEF IInv, TypeOK
  <2> QED
    BY <1>1, <1>2, <2>1 DEF IInv, TypeOK, Handlers, QueueJobs
<1>4. Locked'
  <2>1. \A t \in Slots : run'[t].lock => run'[t].pc # "idle" /\ run'[t].e \in Events /\ queue'[run'[t].e].st = "active"
    <3> SUFFICES ASSUME NEW t \in Slots, run'[t].lock
                 PROVE  run'[t].pc # "idle" /\ run'[t].e \in Events /\ queue'[run'[t].e].st = "active"
      OBVIOUS
    <3>1. CASE t = s
      BY <3>1, <1>1
    <3>2. CASE t # s
      <4>1. run[t].lock /\ run'[t] = run[t]
        BY <3>2, <1>1
      <4>2. run[t].pc # "idle" /\ run[t].e \in Events /\ queue[run[t].e].st = "active"
        BY <4>1 DEF IInv, Locked
      <4>3. queue'[run[t].e] = queue[run[t].e]
        BY <4>1, <4>2, <3>2, <1>2
      <4> QED
        BY <4>1, <4>2, <4>3
    <3> QED
      BY <3>1, <3>2
  <2>2. \A t, u \in Slots : run'[t].lock /\ run'[u].lock /\ run'[t].e = run'[u].e => t = u
    BY <1>1 DEF IInv, Locked
  <2> QED
    BY <2>1, <2>2 DEF Locked
<1>5. Tries'
  BY <1>2 DEF IInv, Tries
<1>6. Admitted'
  BY <1>1 DEF IInv, Admitted, Pushing
<1>7. PushOnce'
  BY DEF IInv, PushOnce
<1> QED
  BY <1>3, <1>4, <1>5, <1>6, <1>7 DEF IInv

LEMMA TakeKeeps ==
  ASSUME IInv, NEW s \in Slots, NEW e \in Events, Take(s, e)
  PROVE  IInv'
<1> DEFINE h == [Idle EXCEPT !.pc = "create", !.e = e, !.lock = TRUE]
           q == [queue[e] EXCEPT !.st = "active"]
<1>1. h \in Handlers /\ h.pc = "create" /\ h.e = e
  BY DEF Idle, Handlers
<1>2. queue[e] \in QueueJobs /\ queue[e].st = "waiting"
  BY DEF Take, IInv, TypeOK, QueueJobs
<1>3. q \in QueueJobs /\ q.st = "active" /\ q.attempts = queue[e].attempts /\ q.stalls = queue[e].stalls
  BY <1>2 DEF QueueJobs
<1>4. queue' = [queue EXCEPT ![e] = q] /\ queue'[e] = q
  BY DEF Take, IInv, TypeOK
<1>5. ~\E t \in Slots : run[t].lock /\ run[t].e = e
  BY <1>2 DEF IInv, Locked
<1>6. q.attempts < MaxAttempts /\ q.stalls <= MaxStalls
  BY <1>2, <1>3 DEF IInv, Tries
<1>7. run' = [run EXCEPT ![s] = h]
  BY DEF Take, Become
<1>8. losses' \in 0..MaxLosses /\ faults' \in 0..MaxFaults /\ UNCHANGED <<published, database, gone, pushed>>
  BY DEF Take, IInv, TypeOK
<1> HIDE DEF h, q
<1> QED
  BY <1>1, <1>3, <1>4, <1>5, <1>6, <1>7, <1>8, SlotKeeps

\* The running event of a slot at work, and who else holds it.
LEMMA AtWork ==
  ASSUME IInv, NEW s \in Slots, run[s].pc # "idle"
  PROVE  /\ run[s].e \in Events /\ run[s] \in Handlers
         /\ run[s].lock => /\ queue[run[s].e].st = "active"
                           /\ queue[run[s].e].attempts < MaxAttempts /\ queue[run[s].e].stalls <= MaxStalls
                           /\ ~\E t \in Slots \ {s} : run[t].lock /\ run[t].e = run[s].e
BY DEF IInv, TypeOK, Locked, Tries, Handlers

LEMMA LeaveKeeps ==
  ASSUME IInv, NEW s \in Slots, run[s].pc # "idle", NEW q \in QueueJobs, Leave(s, q),
         run[s].lock => q.st # "active" /\ (q.st = "waiting" => q.attempts < MaxAttempts /\ q.stalls <= MaxStalls),
         losses' \in 0..MaxLosses, faults' \in 0..MaxFaults,
         UNCHANGED <<published, database, gone, pushed>>
  PROVE  IInv'
<1>1. Idle \in Handlers /\ Idle.pc = "idle" /\ Idle.lock = FALSE
  BY DEF Idle, Handlers
<1>2. run' = [run EXCEPT ![s] = Idle]
  BY DEF Leave, Become
<1>3. run[s].e \in Events
  BY AtWork
<1>4. CASE run[s].lock
  <2>1. queue' = [queue EXCEPT ![run[s].e] = q]
    BY <1>4 DEF Leave
  <2>2. ~\E t \in Slots \ {s} : run[t].lock /\ run[t].e = run[s].e
    BY <1>4, AtWork
  <2> QED
    BY <1>1, <1>2, <1>3, <1>4, <2>1, <2>2, SlotKeeps
<1>5. CASE ~run[s].lock
  <2>1. queue' = queue
    BY <1>5 DEF Leave
  <2>2. queue[run[s].e] \in QueueJobs
    BY <1>3 DEF IInv, TypeOK, QueueJobs
  <2>3. queue[run[s].e].st \in {"waiting", "active"}
           => queue[run[s].e].attempts < MaxAttempts /\ queue[run[s].e].stalls <= MaxStalls
    BY <1>3 DEF IInv, Tries
  <2> QED
    BY <1>1, <1>2, <1>3, <2>1, <2>2, <2>3, SlotKeeps
<1> QED
  BY <1>4, <1>5

\* What becomes of a job whose handler ends.
LEMMA Outcomes ==
  ASSUME IInv, NEW s \in Slots, run[s].pc # "idle"
  PROVE  LET q == queue[run[s].e] IN
         /\ [q EXCEPT !.st = "completed"] \in QueueJobs
         /\ run[s].lock => AfterThrow(q) \in QueueJobs /\ AfterThrow(q).st # "active"
                           /\ (AfterThrow(q).st = "waiting" => AfterThrow(q).attempts < MaxAttempts /\ AfterThrow(q).stalls <= MaxStalls)
<1> DEFINE q == queue[run[s].e]
<1>1. run[s].e \in Events
  BY AtWork
<1>2. q \in QueueJobs
  BY <1>1 DEF IInv, TypeOK, QueueJobs
<1>3. run[s].lock => q.attempts < MaxAttempts /\ q.stalls <= MaxStalls
  BY AtWork
<1> HIDE DEF q
<1>4. [q EXCEPT !.st = "completed"] \in QueueJobs
  BY <1>2 DEF QueueJobs
<1>5. ASSUME run[s].lock
      PROVE  AfterThrow(q) \in QueueJobs /\ AfterThrow(q).st # "active"
             /\ (AfterThrow(q).st = "waiting" => AfterThrow(q).attempts < MaxAttempts /\ AfterThrow(q).stalls <= MaxStalls)
  <2>1. /\ q.attempts \in 0..MaxAttempts /\ q.stalls \in 0..MaxStalls + 1
        /\ q.attempts < MaxAttempts /\ q.stalls <= MaxStalls
    BY <1>2, <1>3, <1>5 DEF QueueJobs
  <2>2. /\ AfterThrow(q).st = IF q.attempts + 1 < MaxAttempts THEN "waiting" ELSE "failed"
        /\ AfterThrow(q).attempts = q.attempts + 1 /\ AfterThrow(q).stalls = q.stalls
    BY <1>2 DEF AfterThrow, QueueJobs
  <2>3. q.attempts + 1 \in 0..MaxAttempts
    BY <2>1, BoundAssumption
  <2>4. AfterThrow(q) \in QueueJobs
    BY <1>2, <2>3 DEF AfterThrow, QueueJobs
  <2> QED
    BY <2>1, <2>2, <2>4, BoundAssumption
<1> QED
  BY <1>4, <1>5 DEF q

LEMMA CreateKeeps ==
  ASSUME IInv, NEW s \in Slots, Create(s)
  PROVE  IInv'
<1> USE DEF At, database
<1> DEFINE e == run[s].e
<1>1. e \in Events /\ run[s] \in Handlers /\ run[s].pc = "create" /\ managed
  BY AtWork DEF Create
<1>2. CASE inbox[e] = "absent"
  <2> DEFINE h == [run[s] EXCEPT !.pc = "list"]
  <2>1. h \in Handlers /\ h.e = e /\ h.lock = run[s].lock /\ h.todo = run[s].todo /\ h.pc = "list"
    BY <1>1 DEF Handlers
  <2>2. run' = [run EXCEPT ![s] = h] /\ UNCHANGED <<queue, published, subs, managed, gone, pushed, losses, faults>>
    BY <1>2 DEF Create, Created, Become
  <2>3. /\ inbox' \in [Events -> {"absent", "unread", "read"}]
        /\ inbox'[e] = "unread" /\ \A f \in Events \ {e} : inbox'[f] = inbox[f]
    BY <1>1, <1>2 DEF Create, IInv, TypeOK
  <2> HIDE DEF h
  <2>4. run' \in [Slots -> Handlers] /\ run'[s] = h /\ \A t \in Slots \ {s} : run'[t] = run[t]
    BY <2>1, <2>2 DEF IInv, TypeOK, Handlers
  <2>5. TypeOK'
    <3>1. \A t \in Slots \ {s} : run'[t].pc # "idle" => run'[t].e # None
      BY <2>4 DEF IInv, TypeOK
    <3>2. run'[s].e # None
      BY <1>1, <2>1, <2>4, NoneAssumption
    <3> QED
      BY <2>2, <2>3, <2>4, <3>1, <3>2 DEF IInv, TypeOK, Handlers
  <2>6. Locked' /\ Tries'
    <3>1. \A t \in Slots : run'[t].lock = run[t].lock /\ run'[t].e = run[t].e /\ (run'[t].pc = "idle" <=> run[t].pc = "idle")
      BY <1>1, <2>1, <2>4
    <3> QED
      BY <2>2, <3>1 DEF IInv, Locked, Tries
  <2>7. \A t \in Slots : ~Pushing(t, e)
    BY <1>1, <1>2 DEF IInv, Admitted
  <2>8. \A p \in Endpoints : pushed[e][p] = 0
    <3> SUFFICES ASSUME NEW p \in Endpoints PROVE pushed[e][p] = 0
      OBVIOUS
    <3>1. pushed[e][p] \in Nat
      BY <1>1 DEF IInv, TypeOK
    <3>2. ~(pushed[e][p] > 0)
      BY <1>1, <1>2 DEF IInv, PushOnce
    <3> QED
      BY <3>1, <3>2
  <2>9. Admitted'
    BY <1>1, <2>1, <2>2, <2>3, <2>4, <2>7, <2>8 DEF IInv, Admitted, Pushing
  <2>10. PushOnce'
    BY <2>2, <2>3 DEF IInv, PushOnce
  <2> QED
    BY <2>5, <2>6, <2>9, <2>10 DEF IInv
<1>3. CASE inbox[e] # "absent"
  <2>1. inbox' = inbox
    BY <1>1, <1>3 DEF Create, IInv, TypeOK
  <2>2. Leave(s, [queue[e] EXCEPT !.st = "completed"])
    BY <1>3 DEF Create, Created
  <2>3. [queue[e] EXCEPT !.st = "completed"] \in QueueJobs
    BY <1>1, Outcomes
  <2>4. [queue[e] EXCEPT !.st = "completed"].st = "completed"
    BY <1>1 DEF IInv, TypeOK
  <2>5. losses' \in 0..MaxLosses /\ faults' \in 0..MaxFaults /\ UNCHANGED <<published, database, gone, pushed>>
    BY <2>1 DEF Create, IInv, TypeOK
  <2> HIDE DEF e
  <2> QED
    BY <1>1, <2>2, <2>3, <2>4, <2>5, LeaveKeeps
<1> QED
  BY <1>2, <1>3

LEMMA CreateFailsKeeps ==
  ASSUME IInv, NEW s \in Slots, CreateFails(s)
  PROVE  IInv'
<1>1. run[s].pc = "create"
  BY DEF CreateFails, At
<1>2. faults' \in 0..MaxFaults /\ losses' \in 0..MaxLosses /\ UNCHANGED <<published, database, gone, pushed>>
  BY BoundAssumption DEF CreateFails, IInv, TypeOK
<1>3. Leave(s, AfterThrow(queue[run[s].e]))
  BY DEF CreateFails
<1>4. CASE run[s].lock
  BY <1>1, <1>2, <1>3, <1>4, Outcomes, LeaveKeeps
<1>5. CASE ~run[s].lock
  <2>1. queue[run[s].e] \in QueueJobs
    BY <1>1, AtWork DEF IInv, TypeOK, QueueJobs
  <2>2. Leave(s, queue[run[s].e])
    BY <1>3, <1>5 DEF Leave
  <2> QED
    BY <1>1, <1>2, <1>5, <2>1, <2>2, LeaveKeeps
<1> QED
  BY <1>4, <1>5

LEMMA FinishKeeps ==
  ASSUME IInv, NEW s \in Slots, Finish(s)
  PROVE  IInv'
<1>1. run[s].pc = "push"
  BY DEF Finish, At
<1>2. run[s].e \in Events
  BY <1>1, AtWork
<1>3. [queue[run[s].e] EXCEPT !.st = "completed"].st = "completed"
  BY <1>2 DEF IInv, TypeOK
<1>4. [queue[run[s].e] EXCEPT !.st = "completed"] \in QueueJobs
  BY <1>1, Outcomes
<1>5. faults' \in 0..MaxFaults /\ losses' \in 0..MaxLosses /\ UNCHANGED <<published, database, gone, pushed>>
  BY DEF Finish, IInv, TypeOK
<1> QED
  BY <1>1, <1>3, <1>4, <1>5, LeaveKeeps DEF Finish

LEMMA LoseKeeps ==
  ASSUME IInv, NEW s \in Slots, Lose(s)
  PROVE  IInv'
<1> DEFINE e == run[s].e
           q == [queue[e] EXCEPT !.stalls = @ + 1, !.st = IF queue[e].stalls < MaxStalls THEN "waiting" ELSE "failed"]
<1>1. /\ run[s].lock /\ e \in Events /\ run[s] \in Handlers /\ run[s].pc # "idle"
      /\ queue[e].attempts < MaxAttempts /\ queue[e].stalls <= MaxStalls
      /\ ~\E t \in Slots \ {s} : run[t].lock /\ run[t].e = e
  <2>1. run[s].lock /\ run[s].pc # "idle"
    BY DEF Lose, IInv, Locked
  <2> QED
    BY <2>1, AtWork
<1>2. queue[e] \in QueueJobs
  BY <1>1 DEF IInv, TypeOK, QueueJobs
<1>3. q \in QueueJobs /\ q.st # "active" /\ (q.st = "waiting" => q.attempts < MaxAttempts /\ q.stalls <= MaxStalls)
  <2>1. /\ q.st = IF queue[e].stalls < MaxStalls THEN "waiting" ELSE "failed"
        /\ q.attempts = queue[e].attempts /\ q.stalls = queue[e].stalls + 1
    BY <1>2 DEF QueueJobs
  <2>2. queue[e].attempts \in 0..MaxAttempts /\ queue[e].stalls \in 0..MaxStalls + 1 /\ queue[e].stalls + 1 \in 0..MaxStalls + 1
    BY <1>1, <1>2, BoundAssumption DEF QueueJobs
  <2>3. q \in QueueJobs
    BY <1>2, <2>2 DEF QueueJobs
  <2> HIDE DEF q
  <2> QED
    BY <1>1, <2>1, <2>2, <2>3, BoundAssumption
<1>4. queue' = [queue EXCEPT ![e] = q]
  BY <1>1 DEF Lose, IInv, TypeOK
<1>5. losses' \in 0..MaxLosses /\ faults' \in 0..MaxFaults /\ UNCHANGED <<published, database, gone, pushed>>
  BY BoundAssumption DEF Lose, IInv, TypeOK
<1>6. PICK h \in {Idle, [run[s] EXCEPT !.lock = FALSE]} : run' = [run EXCEPT ![s] = h]
  BY DEF Lose, Become
<1>7. h \in Handlers /\ ~h.lock /\ (h.pc # "idle" => h.e = e /\ h.pc = run[s].pc /\ h.todo = run[s].todo)
  <2>1. CASE h = Idle
    BY <2>1 DEF Idle, Handlers
  <2>2. CASE h = [run[s] EXCEPT !.lock = FALSE]
    BY <1>1, <2>2 DEF Handlers
  <2> QED
    BY <1>6, <2>1, <2>2
<1> HIDE DEF e, q
<1>8. e = run[s].e
  BY DEF e
<1> QED
  BY <1>1, <1>3, <1>4, <1>5, <1>6, <1>7, <1>8, SlotKeeps

---------------------------------------------------------------------------
(* Steps of the pushes.                                                    *)

\* Only what a slot still had to send is sent, and is taken off its list.
Sends(s, h) ==
  \A e \in Events, p \in Endpoints :
    pushed'[e][p] # pushed[e][p] => /\ e = run[s].e /\ p \notin h.todo
                                    /\ pushed[e][p] = 0 /\ pushed'[e][p] = 1

\* The slot keeps its event and its lock; what it sends has not been sent.
LEMMA PushKeeps ==
  ASSUME IInv, NEW s \in Slots, run[s].pc \in {"list", "push"}, NEW h \in Handlers,
         run' = [run EXCEPT ![s] = h], h.pc = "push", h.e = run[s].e, h.lock = run[s].lock,
         run[s].pc = "push" => h.todo \subseteq run[s].todo,
         pushed' \in [Events -> [Endpoints -> Nat]],
         Sends(s, h),
         subs' \subseteq Endpoints, faults' \in 0..MaxFaults,
         UNCHANGED <<published, queue, inbox, managed, gone, losses>>
  PROVE  IInv'
<1> USE DEF database
<1>1. run' \in [Slots -> Handlers] /\ run'[s] = h /\ \A t \in Slots \ {s} : run'[t] = run[t]
  BY DEF IInv, TypeOK, Handlers
<1>2. \A t \in Slots : /\ run'[t].lock = run[t].lock /\ run'[t].e = run[t].e /\ (run'[t].pc = "idle" <=> run[t].pc = "idle")
                       /\ (run'[t].pc \in {"list", "push"} <=> run[t].pc \in {"list", "push"})
  BY <1>1
<1>3. TypeOK'
  <2>1. \A t \in Slots : run'[t].pc # "idle" => run'[t].e # None
    BY <1>2 DEF IInv, TypeOK
  <2> QED
    BY <1>1, <2>1 DEF IInv, TypeOK, Handlers
<1>4. Locked' /\ Tries'
  BY <1>2 DEF IInv, Locked, Tries
<1>5. \A t \in Slots, e \in Events : Pushing(t, e)' <=> Pushing(t, e)
  BY <1>2 DEF Pushing
<1>6. run[s].e \in Events /\ Pushing(s, run[s].e)
  BY AtWork DEF Pushing
<1>7. Admitted'
  <2>1. \A t \in Slots, e \in Events, p \in Endpoints :
          Pushing(t, e)' /\ (run'[t].pc = "list" \/ p \in run'[t].todo) => pushed'[e][p] = 0
    <3> SUFFICES ASSUME NEW t \in Slots, NEW e \in Events, NEW p \in Endpoints,
                        Pushing(t, e), run'[t].pc = "list" \/ p \in run'[t].todo
                 PROVE  pushed'[e][p] = 0
      BY <1>5
    <3>1. CASE t = s
      <4>1. e = run[s].e /\ p \in h.todo
        BY <3>1, <1>1 DEF Pushing
      <4>2. pushed'[e][p] = pushed[e][p]
        BY <4>1 DEF Sends
      <4>3. run[s].pc = "list" \/ p \in run[s].todo
        BY <4>1
      <4> QED
        BY <3>1, <4>2, <4>3 DEF IInv, Admitted
    <3>2. CASE t # s
      <4>1. e # run[s].e
        BY <3>2, <1>6 DEF IInv, Admitted
      <4>2. pushed'[e][p] = pushed[e][p] /\ run'[t] = run[t]
        BY <3>2, <4>1, <1>1 DEF Sends
      <4> QED
        BY <4>2 DEF IInv, Admitted
    <3> QED
      BY <3>1, <3>2
  <2> QED
    BY <1>5, <2>1 DEF IInv, Admitted
<1>8. PushOnce'
  <2> SUFFICES ASSUME NEW e \in Events, NEW p \in Endpoints
               PROVE  pushed'[e][p] <= 1 /\ (managed /\ pushed'[e][p] > 0 => inbox[e] # "absent")
    BY DEF PushOnce
  <2>1. CASE pushed'[e][p] = pushed[e][p]
    BY <2>1 DEF IInv, PushOnce
  <2>2. CASE pushed'[e][p] # pushed[e][p]
    BY <2>2, <1>6 DEF IInv, Admitted, Sends
  <2> QED
    BY <2>1, <2>2
<1> QED
  BY <1>3, <1>4, <1>7, <1>8 DEF IInv

LEMMA ListKeeps ==
  ASSUME IInv, NEW s \in Slots, List(s)
  PROVE  IInv'
<1>1. run[s] \in Handlers /\ run[s].pc = "list" /\ subs \subseteq Endpoints
  BY AtWork DEF List, At, IInv, TypeOK
<1>2. PICK h \in {[run[s] EXCEPT !.pc = "push", !.todo = subs], [run[s] EXCEPT !.pc = "push"]} : run' = [run EXCEPT ![s] = h]
  BY DEF List, Become
<1>3. h \in Handlers /\ h.pc = "push" /\ h.e = run[s].e /\ h.lock = run[s].lock
  BY <1>1, <1>2 DEF Handlers
<1>4. /\ faults' \in 0..MaxFaults /\ pushed' \in [Events -> [Endpoints -> Nat]] /\ pushed' = pushed /\ subs' = subs
      /\ UNCHANGED <<published, queue, inbox, managed, gone, losses>>
  BY BoundAssumption DEF List, IInv, TypeOK, database
<1>5. Sends(s, h)
  BY <1>4 DEF Sends
<1> QED
  BY <1>1, <1>2, <1>3, <1>4, <1>5, PushKeeps

LEMMA SendKeeps ==
  ASSUME IInv, NEW s \in Slots, NEW p \in Endpoints, Send(s, p)
  PROVE  IInv'
<1> DEFINE e == run[s].e
           h == [run[s] EXCEPT !.todo = @ \ {p}, !.dying = @ \cup (gone \cap {p})]
<1>1. run[s] \in Handlers /\ run[s].pc = "push" /\ e \in Events /\ p \in run[s].todo
  BY AtWork DEF Send, At
<1>2. run' = [run EXCEPT ![s] = h]
  BY DEF Send, Become
<1>3. h \in Handlers /\ h.pc = "push" /\ h.e = e /\ h.lock = run[s].lock /\ h.todo = run[s].todo \ {p}
  BY <1>1 DEF Handlers
<1>4. pushed[e][p] = 0 /\ pushed \in [Events -> [Endpoints -> Nat]]
  BY <1>1 DEF IInv, Admitted, Pushing, TypeOK
<1>5. pushed' \in {pushed, [pushed EXCEPT ![e][p] = @ + 1]}
  BY DEF Send
<1>6. pushed' \in [Events -> [Endpoints -> Nat]]
  BY <1>1, <1>4, <1>5
<1>7. \A f \in Events, u \in Endpoints :
        pushed'[f][u] # pushed[f][u] => f = e /\ u = p /\ pushed[f][u] = 0 /\ pushed'[f][u] = 1
  BY <1>1, <1>4, <1>5
<1>8. /\ subs' \subseteq Endpoints /\ faults' \in 0..MaxFaults /\ UNCHANGED <<published, queue, inbox, managed, gone, losses>>
  BY DEF Send, IInv, TypeOK, database
<1>9. run[s].pc \in {"list", "push"} /\ h.todo \subseteq run[s].todo /\ Sends(s, h)
  BY <1>1, <1>3, <1>7 DEF Sends
<1> HIDE DEF h
<1> QED
  BY <1>2, <1>3, <1>6, <1>8, <1>9, PushKeeps

LEMMA DropKeeps ==
  ASSUME IInv, NEW s \in Slots, NEW p \in Endpoints, Drop(s, p)
  PROVE  IInv'
<1> DEFINE h == [run[s] EXCEPT !.dying = @ \ {p}]
<1>1. run[s] \in Handlers /\ run[s].pc = "push"
  BY AtWork DEF Drop, At
<1>2. run' = [run EXCEPT ![s] = h]
  BY DEF Drop, Become
<1>3. h \in Handlers /\ h.pc = "push" /\ h.e = run[s].e /\ h.lock = run[s].lock /\ h.todo = run[s].todo
  BY <1>1 DEF Handlers
<1>4. /\ subs' \subseteq Endpoints /\ faults' \in 0..MaxFaults /\ pushed' = pushed
      /\ pushed' \in [Events -> [Endpoints -> Nat]] /\ UNCHANGED <<published, queue, inbox, managed, gone, losses>>
  BY BoundAssumption DEF Drop, IInv, TypeOK
<1>5. run[s].pc \in {"list", "push"} /\ h.todo \subseteq run[s].todo /\ Sends(s, h)
  BY <1>1, <1>3, <1>4 DEF Sends
<1> HIDE DEF h
<1> QED
  BY <1>2, <1>3, <1>4, <1>5, PushKeeps

---------------------------------------------------------------------------
(* Steps of the API, and all steps.                                        *)

LEMMA ApiKeeps ==
  ASSUME IInv,
         \/ \E p \in Endpoints : Subscribe(p) \/ GiveUp(p)
         \/ \E e \in Events : MarkRead(e)
         \/ Remove
  PROVE  IInv'
<1> USE DEF database
<1>1. /\ UNCHANGED <<published, queue, pushed, run, losses, faults>>
      /\ subs' \subseteq Endpoints /\ gone' \subseteq Endpoints /\ managed' \in BOOLEAN
      /\ inbox' \in [Events -> {"absent", "unread", "read"}]
      /\ managed' => managed /\ \A e \in Events : inbox[e] # "absent" => inbox'[e] # "absent"
  <2>1. CASE \E p \in Endpoints : Subscribe(p)
    BY <2>1 DEF Subscribe, IInv, TypeOK
  <2>2. CASE \E p \in Endpoints : GiveUp(p)
    BY <2>2 DEF GiveUp, IInv, TypeOK
  <2>3. CASE \E e \in Events : MarkRead(e)
    BY <2>3 DEF MarkRead, IInv, TypeOK
  <2>4. CASE Remove
    BY <2>4 DEF Remove, IInv, TypeOK
  <2> QED
    BY <2>1, <2>2, <2>3, <2>4
<1>2. TypeOK'
  BY <1>1 DEF IInv, TypeOK
<1>3. Locked' /\ Tries'
  BY <1>1 DEF IInv, Locked, Tries
<1>4. Admitted' /\ PushOnce'
  BY <1>1 DEF IInv, Admitted, Pushing, PushOnce
<1> QED
  BY <1>2, <1>3, <1>4 DEF IInv

LEMMA Inductive == IInv /\ [Next]_vars => IInv'
<1> SUFFICES ASSUME IInv, [Next]_vars PROVE IInv'
  OBVIOUS
<1>1. CASE UNCHANGED vars
  BY <1>1 DEF vars, database, IInv, TypeOK, Locked, Tries, Admitted, Pushing, PushOnce
<1>2. CASE \E e \in Events : Publish(e) \/ Forget(e) \/ MarkRead(e)
  BY <1>2, PublishKeeps, ForgetKeeps, ApiKeeps
<1>3. CASE \E s \in Slots : Handle(s) \/ Lose(s)
  BY <1>3, TakeKeeps, CreateKeeps, CreateFailsKeeps, ListKeeps, FinishKeeps, SendKeeps, DropKeeps, LoseKeeps DEF Handle
<1>4. CASE Remove \/ \E p \in Endpoints : Subscribe(p) \/ GiveUp(p)
  BY <1>4, ApiKeeps
<1> QED
  BY <1>1, <1>2, <1>3, <1>4 DEF Next

\* The invariant of the handlers, the queue and the inbox holds always.
THEOREM Invariance == Spec => []IInv
BY Initially, Inductive, PTL DEF Spec

\* Every variable keeps its type: attempts and stalls of a queue job stay within
\* their limits.
THEOREM TypeCorrect == Spec => []TypeOK
<1>1. IInv => TypeOK
  BY DEF IInv
<1> QED
  BY <1>1, Invariance, PTL

\* However often an event is published, retried or run a second time by a
\* stalled job, a browser gets it at most once, and finds it in the inbox
\* (createOnce, notification.service.ts:104).
THEOREM PushedOnce == Spec => []PushOnce
<1>1. IInv => PushOnce
  BY DEF IInv
<1> QED
  BY <1>1, Invariance, PTL
=============================================================================
