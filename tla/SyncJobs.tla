------------------------------ MODULE SyncJobs ------------------------------
(***************************************************************************)
(* The life of the sync jobs of one managed account: the administrator     *)
(* creates and cancels job rows (apps/api/src/jobs), the dispatcher copies *)
(* pending rows into the BullMQ queue (pending-sync.dispatcher.ts), and    *)
(* the worker's slots run them stage by stage from durable checkpoints     *)
(* (sync.service.ts over sync.repository.ts).  A step is one database      *)
(* transaction, one queue command or one connector call together with the  *)
(* transaction that stores its answer; all of them interleave.             *)
(***************************************************************************)
EXTENDS Integers, FiniteSets

CONSTANTS
  Jobs,         \* rows of SyncJob
  Slots,        \* concurrent handlers of the BullMQ worker (SYNC_CONCURRENCY)
  Account,      \* the account; its platformId is the key of the notes stage
  Notes,        \* notes the platform may list
  Comments,     \* top-level comments the platform may list
  NoteOf,       \* the note each comment belongs to
  Cursors,      \* page cursors the connector may return
  Absent,       \* no checkpoint row: pagination starts from a null cursor
  Done,         \* checkpoint row with a null cursor: completed
  Nobody,       \* no job, and no unit of work
  MaxAttempts,  \* attempts of the queue job (6 in the code)
  MaxStalls,    \* BullMQ's maxStalledCount (1 by default)
  MaxCrashes,   \* bound: crashes of the worker process
  MaxFaults     \* bound: database or Redis calls that fail on their own

ASSUME CursorAssumption == Absent # Done /\ {Absent, Done} \cap Cursors = {}
ASSUME NobodyAssumption == Nobody \notin Jobs
ASSUME NoteOfAssumption == NoteOf \in [Comments -> Notes] /\ Notes \cap Comments = {}
ASSUME BoundAssumption  == /\ MaxAttempts \in Nat \ {0} /\ MaxStalls \in Nat
                           /\ MaxCrashes \in Nat /\ MaxFaults \in Nat

Stages == {"authorize", "notes", "metrics", "comments", "replies", "complete"}

Rank(st) == CASE st = "authorize" -> 1 [] st = "notes" -> 2 [] st = "metrics" -> 3
              [] st = "comments" -> 4 [] st = "replies" -> 5 [] st = "complete" -> 6

Following(st) == CASE st = "notes" -> "metrics" [] st = "metrics" -> "comments"
                   [] st = "comments" -> "replies" [] st = "replies" -> "complete"

\* The work of a stage on one entity; (stage, entityKey) keys a checkpoint.
Units == ({"notes"} \X {Account}) \cup ({"metrics", "comments"} \X Notes) \cup ({"replies"} \X Comments)

Marks == Cursors \cup {Absent, Done}

VARIABLES
  status,       \* SyncJob.status, "absent" before the row is created
  stage,        \* SyncJob.currentStage
  verification, \* SyncJob.verificationStatus
  reason,       \* SyncJob.error, abstracted to who wrote it
  ended,        \* SyncJob.completedAt is set
  ckpt,         \* SyncCheckpoint.cursor/completed of every job and unit
  notesDb, commentsDb,  \* rows of Note and top-level Comment of the account
  commentsOn,   \* ConnectorCapability "comments" of the account
  completeness, \* CommentSyncCompleteness.status of every note
  queue,        \* what BullMQ holds under the job's id
  scan,         \* ids the dispatcher has read as pending and not yet added
  run,          \* the handler running in each slot
  announced,    \* comments whose new_comment event was published
  owed,         \* history: comments a notifying run inserted
  found,        \* history: notes and comments each job's pages delivered
  crashes, faults

rowVars  == <<status, stage, verification, reason, ended>>
dataVars == <<notesDb, commentsDb, commentsOn, completeness, found>>
eventVars == <<announced, owed>>
vars == <<rowVars, dataVars, eventVars, ckpt, queue, scan, run, crashes, faults>>

Idle == [pc |-> "idle", job |-> Nobody, at |-> "authorize", todo |-> {}, unit |-> Nobody,
         seen |-> {}, cursor |-> Absent, fresh |-> {}, notify |-> FALSE, auth |-> FALSE]

Labels == {"idle", "start", "enter", "synced", "capable", "open", "page", "mark", "incomplete",
           "failing", "thrown", "return"}

Handlers == [pc : Labels, job : Jobs \cup {Nobody}, at : Stages, todo : SUBSET Units,
             unit : Units \cup {Nobody}, seen : SUBSET Cursors, cursor : Marks,
             fresh : SUBSET Comments, notify : BOOLEAN, auth : BOOLEAN]

QueueStates == [state : {"none", "waiting", "active", "failed"}, attempts : 0..MaxAttempts, stalls : 0..(MaxStalls + 1)]

TypeOK ==
  /\ status \in [Jobs -> {"absent", "pending", "running", "failed", "succeeded"}]
  /\ stage \in [Jobs -> Stages]
  /\ verification \in [Jobs -> {"verified", "unverifiable"}]
  /\ reason \in [Jobs -> {"none", "error", "repeated", "cancelled"}]
  /\ ended \in [Jobs -> BOOLEAN]
  /\ ckpt \in [Jobs -> [Units -> Marks]]
  /\ notesDb \in SUBSET Notes /\ commentsDb \in SUBSET Comments /\ commentsOn \in BOOLEAN
  /\ completeness \in [Notes -> {"absent", "partial", "page_complete", "failed", "authorization_required", "unverifiable"}]
  /\ queue \in [Jobs -> QueueStates]
  /\ scan \in SUBSET Jobs
  /\ run \in [Slots -> Handlers]
  /\ announced \in SUBSET Comments /\ owed \in SUBSET Comments
  /\ found \in [Jobs -> SUBSET (Notes \cup Comments)]
  /\ crashes \in 0..MaxCrashes /\ faults \in 0..MaxFaults

NotQueued == [state |-> "none", attempts |-> 0, stalls |-> 0]

Init ==
  /\ status = [j \in Jobs |-> "absent"]
  /\ stage = [j \in Jobs |-> "authorize"]
  /\ verification = [j \in Jobs |-> "verified"]
  /\ reason = [j \in Jobs |-> "none"]
  /\ ended = [j \in Jobs |-> FALSE]
  /\ ckpt = [j \in Jobs |-> [u \in Units |-> Absent]]
  /\ notesDb = {} /\ commentsDb = {} /\ commentsOn = FALSE
  /\ completeness = [n \in Notes |-> "absent"]
  /\ queue = [j \in Jobs |-> NotQueued]
  /\ scan = {}
  /\ run = [s \in Slots |-> Idle]
  /\ announced = {} /\ owed = {}
  /\ found = [j \in Jobs |-> {}]
  /\ crashes = 0 /\ faults = 0

-----------------------------------------------------------------------------
(* The API: JobsService.create and JobsService.cancel.                      *)

Create(j) ==
  /\ status[j] = "absent"
  /\ status' = [status EXCEPT ![j] = "pending"]
  /\ UNCHANGED <<stage, verification, reason, ended, dataVars, eventVars, ckpt, queue, scan, run, crashes, faults>>

\* A compare-and-set on the row only: neither the queue job nor a running
\* handler is told.
Cancel(j) ==
  /\ status[j] \in {"pending", "running"}
  /\ status' = [status EXCEPT ![j] = "failed"]
  /\ reason' = [reason EXCEPT ![j] = "cancelled"]
  /\ ended' = [ended EXCEPT ![j] = TRUE]
  /\ UNCHANGED <<stage, verification, dataVars, eventVars, ckpt, queue, scan, run, crashes, faults>>

(* The dispatcher: one tick reads the pending rows, then adds each of them. *)

ReadPending ==
  /\ scan = {}
  /\ scan' = {j \in Jobs : status[j] = "pending"}
  /\ scan' # {}
  /\ UNCHANGED <<rowVars, dataVars, eventVars, ckpt, queue, run, crashes, faults>>

\* Mutant of Enqueued: a late add replaces the job the queue holds.
EnqueuedAgain(q) == [q EXCEPT !.state = "waiting"]

\* Queue.add is a no-op while BullMQ holds any job with this id, also a
\* failed one; a completed job has been removed (removeOnComplete).
Enqueued(q) == IF q.state = "none" THEN [NotQueued EXCEPT !.state = "waiting"] ELSE q

AddToQueue(j) ==
  /\ j \in scan
  /\ scan' = scan \ {j}
  /\ queue' = [queue EXCEPT ![j] = Enqueued(queue[j])]
  /\ UNCHANGED <<rowVars, dataVars, eventVars, ckpt, run, crashes, faults>>

AddFails(j) ==
  /\ j \in scan /\ faults < MaxFaults
  /\ scan' = scan \ {j}
  /\ faults' = faults + 1
  /\ UNCHANGED <<rowVars, dataVars, eventVars, ckpt, queue, run, crashes>>

-----------------------------------------------------------------------------
(* The worker.  A slot continues only once the events of the comments it    *)
(* has just inserted are out (fresh is empty).                              *)

At(s, label) == run[s].pc = label /\ run[s].fresh = {}

AtStage(s, label, st) == At(s, label) /\ run[s].at = st

J(s) == run[s].job

\* The handler in slot s goes on as r.
Goto(s, r) == run' = [run EXCEPT ![s] = r]

\* The handler of j outside every loop: its local variables are gone.
Handler(s, label) == [Idle EXCEPT !.pc = label, !.job = run[s].job, !.at = run[s].at]

Pick(s, j) ==
  /\ At(s, "idle")
  /\ queue[j].state = "waiting"
  /\ queue' = [queue EXCEPT ![j].state = "active"]
  /\ Goto(s, [Idle EXCEPT !.pc = "start", !.job = j])
  /\ UNCHANGED <<rowVars, dataVars, eventVars, ckpt, scan, crashes, faults>>

\* Mutant of ResumeStage: every attempt starts over.
ResumeFromScratch(j) == "authorize"

\* The stage a run starts at: the one the row reached.
ResumeStage(j) == stage[j]

\* startJob overwrites whatever the row says and keeps only its stage.
StartJob(s) ==
  /\ At(s, "start")
  /\ status' = [status EXCEPT ![J(s)] = "running"]
  /\ verification' = [verification EXCEPT ![J(s)] = "verified"]
  /\ reason' = [reason EXCEPT ![J(s)] = "none"]
  /\ ended' = [ended EXCEPT ![J(s)] = FALSE]
  /\ Goto(s, [run[s] EXCEPT !.pc = "enter", !.at = ResumeStage(J(s))])
  /\ UNCHANGED <<stage, dataVars, eventVars, ckpt, queue, scan, crashes, faults>>

\* startJob is outside the try block: its failure leaves no trace in the row.
StartFails(s) ==
  /\ At(s, "start") /\ faults < MaxFaults
  /\ faults' = faults + 1
  /\ Goto(s, [run[s] EXCEPT !.pc = "thrown"])
  /\ UNCHANGED <<rowVars, dataVars, eventVars, ckpt, queue, scan, crashes>>

Authorize(s) ==
  /\ AtStage(s, "enter", "authorize")
  /\ commentsOn' \in BOOLEAN
  /\ stage' = [stage EXCEPT ![J(s)] = "notes"]
  /\ Goto(s, [run[s] EXCEPT !.at = "notes"])
  /\ UNCHANGED <<status, verification, reason, ended, notesDb, commentsDb, completeness, found,
                 eventVars, ckpt, queue, scan, crashes, faults>>

\* The entities a stage visits, read once when the stage is entered.
UnitsOf(st) ==
  CASE st = "notes"    -> {<<"notes", Account>>}
    [] st \in {"metrics", "comments"} -> {st} \X notesDb
    [] st = "replies"  -> {"replies"} \X commentsDb

SyncedBefore(j) == \E k \in Jobs \ {j} : status[k] = "succeeded"

Enter(s) ==
  /\ At(s, "enter")
  /\ run[s].at \in {"notes", "metrics", "comments", "replies"}
  /\ Goto(s, [run[s] EXCEPT !.todo = UnitsOf(run[s].at),
                             !.pc = IF run[s].at = "comments" THEN "synced" ELSE "open"])
  /\ UNCHANGED <<rowVars, dataVars, eventVars, ckpt, queue, scan, crashes, faults>>

\* The comments stage then asks whether to notify, and whether comments may be read.
AskSynced(s) ==
  /\ At(s, "synced")
  /\ Goto(s, [run[s] EXCEPT !.notify = SyncedBefore(J(s)), !.pc = "capable"])
  /\ UNCHANGED <<rowVars, dataVars, eventVars, ckpt, queue, scan, crashes, faults>>

AskCapability(s) ==
  /\ At(s, "capable")
  /\ Goto(s, [run[s] EXCEPT !.pc = IF commentsOn THEN "open" ELSE "mark"])
  /\ UNCHANGED <<rowVars, dataVars, eventVars, ckpt, queue, scan, crashes, faults>>

\* Without the comments capability every note is marked, none is read.
MarkUnavailable(s, u) ==
  /\ At(s, "mark") /\ u \in run[s].todo
  /\ completeness' = [completeness EXCEPT ![u[2]] = "authorization_required"]
  /\ Goto(s, [run[s] EXCEPT !.todo = run[s].todo \ {u}])
  /\ UNCHANGED <<rowVars, notesDb, commentsDb, commentsOn, found, eventVars, ckpt, queue, scan, crashes, faults>>

\* Mutants of ResumeMark: the stored cursor is ignored, or completion too.
ResumeWithoutCursor(j, u) == IF ckpt[j][u] = Done THEN Done ELSE Absent
ResumeFromTheTop(j, u) == Absent

\* The cursor a unit of work is resumed from.
ResumeMark(j, u) == ckpt[j][u]

Open(s, u) ==
  /\ At(s, "open") /\ u \in run[s].todo
  /\ LET mark == ResumeMark(J(s), u)
     IN  IF mark = Done
         THEN Goto(s, [run[s] EXCEPT !.todo = run[s].todo \ {u}])
         ELSE Goto(s, [run[s] EXCEPT !.pc = "page", !.unit = u, !.cursor = mark, !.seen = {mark} \ {Absent}])
  /\ UNCHANGED <<rowVars, dataVars, eventVars, ckpt, queue, scan, crashes, faults>>

-----------------------------------------------------------------------------
(* One page: the connector answers with the next cursor (Done for null) and *)
(* items, and one transaction stores both.                                  *)

\* Mutant of AfterPage: a repeated cursor ends the loop like a null one.
AfterPageForgiving(r, next) ==
  IF next \in r.seen \cup {Done}
  THEN [Idle EXCEPT !.pc = "open", !.job = r.job, !.at = r.at, !.notify = r.notify, !.todo = r.todo \ {r.unit}]
  ELSE [r EXCEPT !.cursor = next, !.seen = r.seen \cup {next}]

\* Mutant of AfterPage: the cursors seen are not remembered.
AfterPageForgetful(r, next) ==
  IF next = Done
  THEN [Idle EXCEPT !.pc = "open", !.job = r.job, !.at = r.at, !.notify = r.notify, !.todo = r.todo \ {r.unit}]
  ELSE [r EXCEPT !.cursor = next]

\* The handler after a page of unit u that answered next.
AfterPage(r, next) ==
  IF next \in r.seen
  THEN [Idle EXCEPT !.pc = "return", !.job = r.job, !.at = r.at]
  ELSE IF next = Done
  THEN [Idle EXCEPT !.pc = "open", !.job = r.job, !.at = r.at, !.notify = r.notify, !.todo = r.todo \ {r.unit}]
  ELSE [r EXCEPT !.cursor = next, !.seen = r.seen \cup {next}]

\* The row when the page repeats a cursor (markUnverifiableInTransaction).
SaveVerdict(j, repeated) ==
  IF repeated
  THEN /\ status' = [status EXCEPT ![j] = "failed"]
       /\ verification' = [verification EXCEPT ![j] = "unverifiable"]
       /\ reason' = [reason EXCEPT ![j] = "repeated"]
  ELSE UNCHANGED <<status, verification, reason>>

SavePage(s, next) ==
  /\ At(s, "page") /\ run[s].at \in {"notes", "comments", "replies"}
  /\ ckpt' = [ckpt EXCEPT ![J(s)][run[s].unit] = next]
  /\ SaveVerdict(J(s), next \in run[s].seen)
  /\ UNCHANGED <<stage, ended, commentsOn, announced, queue, scan, crashes, faults>>

SaveNotesPage(s, next, items) ==
  /\ AtStage(s, "page", "notes")
  /\ SavePage(s, next)
  /\ notesDb' = notesDb \cup items
  /\ found' = [found EXCEPT ![J(s)] = @ \cup items]
  /\ Goto(s, AfterPage(run[s], next))
  /\ UNCHANGED <<commentsDb, completeness, owed>>

\* Mutant of PageCompleteness: a note counts as complete once its loop stops.
StoppedIsComplete(repeated, next) == IF repeated \/ next = Done THEN "page_complete" ELSE "partial"

PageCompleteness(repeated, next) ==
  IF repeated THEN "unverifiable" ELSE IF next = Done THEN "page_complete" ELSE "partial"

SaveCommentsPage(s, next, items) ==
  LET created == IF run[s].notify THEN items \ commentsDb ELSE {}
  IN  /\ AtStage(s, "page", "comments")
      /\ SavePage(s, next)
      /\ commentsDb' = commentsDb \cup items
      /\ found' = [found EXCEPT ![J(s)] = @ \cup items]
      /\ completeness' = [completeness EXCEPT ![run[s].unit[2]] = PageCompleteness(next \in run[s].seen, next)]
      /\ Goto(s, [AfterPage(run[s], next) EXCEPT !.fresh = created])
      /\ owed' = owed \cup created
      /\ UNCHANGED notesDb

\* Replies are stored below their comment; no later stage reads them.
SaveRepliesPage(s, next) ==
  /\ AtStage(s, "page", "replies")
  /\ SavePage(s, next)
  /\ Goto(s, AfterPage(run[s], next))
  /\ UNCHANGED <<notesDb, commentsDb, completeness, found, owed>>

\* One note's metrics are a single call and a single transaction.
SaveMetrics(s) ==
  /\ AtStage(s, "page", "metrics")
  /\ ckpt' = [ckpt EXCEPT ![J(s)][run[s].unit] = Done]
  /\ Goto(s, AfterPage(run[s], Done))
  /\ UNCHANGED <<rowVars, dataVars, eventVars, queue, scan, crashes, faults>>

\* A publish that fails is logged and forgotten.
Announce(s, k) ==
  /\ k \in run[s].fresh
  /\ Goto(s, [run[s] EXCEPT !.fresh = run[s].fresh \ {k}])
  /\ \/ announced' = announced \cup {k} /\ UNCHANGED faults
     \/ faults < MaxFaults /\ faults' = faults + 1 /\ UNCHANGED announced
  /\ UNCHANGED <<rowVars, dataVars, owed, ckpt, queue, scan, crashes>>

-----------------------------------------------------------------------------
(* The end of a stage, of a run, and of an attempt.                         *)

Advance(s) ==
  /\ At(s, "open") \/ At(s, "mark")
  /\ run[s].todo = {}
  /\ stage' = [stage EXCEPT ![J(s)] = Following(run[s].at)]
  /\ Goto(s, [Handler(s, "enter") EXCEPT !.at = Following(run[s].at)])
  /\ UNCHANGED <<status, verification, reason, ended, dataVars, eventVars, ckpt, queue, scan, crashes, faults>>

Complete(s) ==
  /\ AtStage(s, "enter", "complete")
  /\ status' = [status EXCEPT ![J(s)] = "succeeded"]
  /\ stage' = [stage EXCEPT ![J(s)] = "complete"]
  /\ ended' = [ended EXCEPT ![J(s)] = TRUE]
  /\ Goto(s, Handler(s, "return"))
  /\ UNCHANGED <<verification, reason, dataVars, eventVars, ckpt, queue, scan, crashes, faults>>

\* The connector call of a stage throws; auth tells a 401 or 403.  Only the
\* comments stage records the failure against the note first.
CallFails(s, auth) ==
  /\ At(s, "page") \/ AtStage(s, "enter", "authorize")
  /\ Goto(s, IF run[s].at = "comments"
             THEN [Handler(s, "incomplete") EXCEPT !.auth = auth, !.unit = run[s].unit]
             ELSE [Handler(s, "failing") EXCEPT !.auth = auth])
  /\ UNCHANGED <<rowVars, dataVars, eventVars, ckpt, queue, scan, crashes, faults>>

\* Any other database call of a run throws; a failed marking replaces the
\* error it was to record.
DatabaseFails(s) ==
  /\ \E label \in {"enter", "synced", "capable", "open", "mark", "incomplete"} : At(s, label)
  /\ faults < MaxFaults
  /\ faults' = faults + 1
  /\ Goto(s, Handler(s, "failing"))
  /\ UNCHANGED <<rowVars, dataVars, eventVars, ckpt, queue, scan, crashes>>

\* Mutant of MarkIncomplete: the error is recorded on the note and swallowed.
MarkAndSwallow(s) ==
  /\ At(s, "incomplete")
  /\ completeness' = [completeness EXCEPT ![run[s].unit[2]] = IF run[s].auth THEN "authorization_required" ELSE "failed"]
  /\ Goto(s, Handler(s, "return"))
  /\ UNCHANGED <<rowVars, notesDb, commentsDb, commentsOn, found, eventVars, ckpt, queue, scan, crashes, faults>>

MarkIncomplete(s) ==
  /\ At(s, "incomplete")
  /\ completeness' = [completeness EXCEPT ![run[s].unit[2]] = IF run[s].auth THEN "authorization_required" ELSE "failed"]
  /\ Goto(s, [Handler(s, "failing") EXCEPT !.auth = run[s].auth])
  /\ UNCHANGED <<rowVars, notesDb, commentsDb, commentsOn, found, eventVars, ckpt, queue, scan, crashes, faults>>

RecordFailure(s) ==
  /\ At(s, "failing")
  /\ status' = [status EXCEPT ![J(s)] = "failed"]
  /\ reason' = [reason EXCEPT ![J(s)] = "error"]
  /\ Goto(s, [run[s] EXCEPT !.pc = "thrown"])
  /\ UNCHANGED <<stage, verification, ended, dataVars, eventVars, ckpt, queue, scan, crashes, faults>>

\* The write in the catch block fails too.
RecordingFails(s) ==
  /\ At(s, "failing") /\ faults < MaxFaults
  /\ faults' = faults + 1
  /\ Goto(s, [run[s] EXCEPT !.pc = "thrown"])
  /\ UNCHANGED <<rowVars, dataVars, eventVars, ckpt, queue, scan, crashes>>

\* A run that returns, also an unverifiable one, completes the queue job.
Return(s) ==
  /\ At(s, "return")
  /\ queue' = [queue EXCEPT ![J(s)] = NotQueued]
  /\ Goto(s, Idle)
  /\ UNCHANGED <<rowVars, dataVars, eventVars, ckpt, scan, crashes, faults>>

\* Mutant of AfterThrow: only UnrecoverableError ends the queue job.
AfterThrowUnlimited(q, auth) ==
  [q EXCEPT !.attempts = q.attempts + 1, !.state = IF auth THEN "failed" ELSE "waiting"]

\* UnrecoverableError (401, 403) and the last attempt end the queue job; any
\* other error is retried after a backoff.
AfterThrow(q, auth) ==
  [q EXCEPT !.attempts = q.attempts + 1,
            !.state = IF auth \/ q.attempts + 1 = MaxAttempts THEN "failed" ELSE "waiting"]

Throw(s) ==
  /\ At(s, "thrown")
  /\ queue' = [queue EXCEPT ![J(s)] = AfterThrow(queue[J(s)], run[s].auth)]
  /\ Goto(s, Idle)
  /\ UNCHANGED <<rowVars, dataVars, eventVars, ckpt, scan, crashes, faults>>

-----------------------------------------------------------------------------
(* The worker process, dispatcher included, dies and is started again; its  *)
(* active queue jobs are found stalled later.                               *)

Crash ==
  /\ crashes < MaxCrashes
  /\ crashes' = crashes + 1
  /\ run' = [s \in Slots |-> Idle]
  /\ scan' = {}
  /\ UNCHANGED <<rowVars, dataVars, eventVars, ckpt, queue, faults>>

Stalled(j) ==
  /\ queue[j].state = "active"
  /\ \A s \in Slots : J(s) # j
  /\ queue' = [queue EXCEPT ![j].stalls = @ + 1,
                            ![j].state = IF queue[j].stalls = MaxStalls THEN "failed" ELSE "waiting"]
  /\ UNCHANGED <<rowVars, dataVars, eventVars, ckpt, scan, run, crashes, faults>>

-----------------------------------------------------------------------------
SavesPage(s) ==
  \E next \in Cursors \cup {Done} :
    \/ \E items \in SUBSET Notes : SaveNotesPage(s, next, items)
    \/ \E items \in SUBSET {k \in Comments : run[s].unit = <<"comments", NoteOf[k]>>} :
         SaveCommentsPage(s, next, items)
    \/ SaveRepliesPage(s, next)

Progress(s) ==
  \/ StartJob(s) \/ Authorize(s) \/ Enter(s) \/ Advance(s) \/ Complete(s)
  \/ AskSynced(s) \/ AskCapability(s)
  \/ \E u \in run[s].todo : MarkUnavailable(s, u) \/ Open(s, u)
  \/ SavesPage(s) \/ SaveMetrics(s)
  \/ \E k \in run[s].fresh : Announce(s, k)
  \/ MarkIncomplete(s) \/ RecordFailure(s) \/ Return(s) \/ Throw(s)

Failure(s) ==
  \/ StartFails(s) \/ DatabaseFails(s) \/ RecordingFails(s)
  \/ \E auth \in BOOLEAN : CallFails(s, auth)

Next ==
  \/ \E j \in Jobs : Create(j) \/ Cancel(j) \/ AddToQueue(j) \/ AddFails(j) \/ Stalled(j)
  \/ ReadPending
  \/ \E s \in Slots : Progress(s) \/ Failure(s) \/ \E j \in Jobs : Pick(s, j)
  \/ Crash

Spec == Init /\ [][Next]_vars

\* The worker's event loop runs every handler on, the dispatcher ticks every
\* second, and BullMQ hands out waiting jobs and looks for stalled ones.
Fairness ==
  /\ WF_vars(ReadPending)
  /\ \A j \in Jobs : WF_vars(AddToQueue(j)) /\ WF_vars(Stalled(j))
  /\ \A s \in Slots : WF_vars(Progress(s)) /\ WF_vars(\E j \in Jobs : Pick(s, j))

FairSpec == Spec /\ Fairness

-----------------------------------------------------------------------------
\* BullMQ hands a job to one handler at a time, and whatever the queue does
\* with the job (retry, stall, a late add by the dispatcher), a handler at
\* work always holds the active entry: no two attempts of one job overlap.
ExclusiveRun ==
  \A s \in Slots : J(s) # Nobody =>
    /\ queue[J(s)].state = "active"
    /\ \A t \in Slots \ {s} : J(t) # J(s)

\* The cursor a handler pages from in memory is the durable one, so a crash
\* or a throw at any point resumes with exactly the page that was not stored
\* (sync.service.ts: paginate is seeded from the checkpoint, never from null).
ResumePoint ==
  \A s \in Slots : run[s].pc = "page" => run[s].cursor = ckpt[J(s)][run[s].unit]

\* A succeeded row (SyncRepository.complete writes it without looking) is
\* verified, ended, at its last stage, and every note and comment its pages
\* delivered has been followed through, over all its attempts.
SucceededIsComplete ==
  \A j \in Jobs : status[j] = "succeeded" =>
    /\ verification[j] = "verified" /\ ended[j] /\ stage[j] = "complete"
    /\ ckpt[j][<<"notes", Account>>] = Done
    /\ \A n \in found[j] \cap Notes : ckpt[j][<<"metrics", n>>] = Done
    /\ \A k \in found[j] \cap Comments : ckpt[j][<<"replies", k>>] = Done

\* page_complete is only ever said of a note some job read to the end of its
\* comments, whatever other jobs of the account did to it in between.
HonestCompleteness ==
  \A n \in Notes : completeness[n] = "page_complete" => \E j \in Jobs : ckpt[j][<<"comments", n>>] = Done

\* Until one of the worker's own calls fails, or BullMQ gives a job up for
\* stalling once too often, the row and the queue agree: a running row has an
\* attempt coming, and a job the queue gave up is failed.  (A failing startJob
\* or fail() leaves no trace in the row, and nobody tells it of the stalls.)
RowAgreesWithQueue ==
  faults = 0 => \A j \in Jobs : queue[j].stalls <= MaxStalls =>
    /\ status[j] = "running" => queue[j].state \in {"waiting", "active"}
    /\ queue[j].state = "failed" => status[j] = "failed"

\* Across attempts, crashes and repeated runs a job never goes back a stage.
StageForward == [][\A j \in Jobs : Rank(stage[j]) <= Rank(stage'[j])]_vars

\* A completed checkpoint is never reopened, so no finished unit is read again.
DoneStaysDone == [][\A j \in Jobs, u \in Units : ckpt[j][u] = Done => ckpt'[j][u] = Done]_vars

\* Every created job ends failed or succeeded for good, with a connector that
\* may repeat cursors and fail at will (repeat detection and the attempt
\* limit) and a process that dies, as long as none of the worker's own calls
\* fails and the job does not stall more often than BullMQ allows.
JobsSettle ==
  \A j \in Jobs : [](status[j] = "pending" =>
    <>[](status[j] \in {"failed", "succeeded"} \/ faults > 0 \/ queue[j].stalls > MaxStalls))

\* The same whatever the stalls.  It fails: after the second crash the queue
\* gives the job up, and its row stays running for ever.
StallsSettle ==
  \A j \in Jobs : [](status[j] = "pending" => <>[](status[j] \in {"failed", "succeeded"} \/ faults > 0))

\* A comment inserted by a run that announces new comments has been announced
\* or is still held by the handler that inserted it.
NewCommentsAnnounced ==
  \A k \in owed : k \in announced \/ \E s \in Slots : k \in run[s].fresh

\* The administrator's cancellation of a job in progress is final.
CancelIsFinal == [][\A j \in Jobs : reason[j] = "cancelled" => status'[j] = "failed"]_vars
=============================================================================
