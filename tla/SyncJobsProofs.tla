--------------------------- MODULE SyncJobsProofs ---------------------------
(* Theorems about SyncJobs for every value of its constants.                *)
EXTENDS SyncJobs, TLAPS

\* A slot is idle exactly when it holds no job; the job it holds is active in
\* the queue and held by no other slot.
Holding ==
  \A s \in Slots :
    /\ run[s].pc = "idle" <=> run[s].job = Nobody
    /\ run[s].pc = "idle" => run[s].fresh = {}
    /\ run[s].job # Nobody =>
         /\ queue[run[s].job].state = "active"
         /\ \A t \in Slots \ {s} : run[t].job # run[s].job

\* A job the queue may still run has attempts and stalls left.
Budget ==
  \A j \in Jobs : queue[j].state \in {"waiting", "active"} =>
    queue[j].attempts < MaxAttempts /\ queue[j].stalls <= MaxStalls

\* A handler at a page is at the checkpoint of a unit that is not completed.
Paging ==
  \A s \in Slots : run[s].pc = "page" =>
    /\ run[s].unit \in Units
    /\ run[s].cursor # Done
    /\ run[s].cursor = ckpt[run[s].job][run[s].unit]

\* The stage a handler works on is the one the row names; only the stages
\* with units of work have loops, and only comments are marked.
Staged ==
  \A s \in Slots :
    /\ run[s].pc \in {"enter", "synced", "capable", "open", "page", "mark"} => run[s].at = stage[run[s].job]
    /\ run[s].pc \in {"synced", "capable", "open", "page", "mark"} => run[s].at \in {"notes", "metrics", "comments", "replies"}

IInv == TypeOK /\ Holding /\ Budget /\ Paging /\ Staged

-----------------------------------------------------------------------------
\* What one handler r demands of the checkpoints c and stages st.
PageOf(r, c) == r.pc = "page" => r.unit \in Units /\ r.cursor # Done /\ r.cursor = c[r.job][r.unit]

StageOf(r, st) ==
  /\ r.pc \in {"enter", "synced", "capable", "open", "page", "mark"} => r.at = st[r.job]
  /\ r.pc \in {"synced", "capable", "open", "page", "mark"} => r.at \in {"notes", "metrics", "comments", "replies"}

\* Only the slot that moves can disturb the invariant: it holds its job alone,
\* so its writes to the checkpoints and the stage of that job touch nobody else.
LEMMA HandlerStep ==
  ASSUME IInv, NEW s \in Slots, NEW r \in Handlers, run[s].pc # "idle", Goto(s, r),
         r.pc # "idle", r.job = run[s].job, queue' = queue,
         ckpt' = ckpt \/ \E f \in [Units -> Marks] : ckpt' = [ckpt EXCEPT ![run[s].job] = f],
         stage' = stage \/ \E st \in Stages : stage' = [stage EXCEPT ![run[s].job] = st],
         PageOf(r, ckpt'), StageOf(r, stage')
  PROVE  Holding' /\ Budget' /\ Paging' /\ Staged' /\ run' \in [Slots -> Handlers]
<1>1. run' = [run EXCEPT ![s] = r] /\ run \in [Slots -> Handlers] /\ run' \in [Slots -> Handlers]
  BY DEF Goto, IInv, TypeOK
<1>2. run'[s] = r /\ \A t \in Slots \ {s} : run'[t] = run[t]
  BY <1>1
<1>3. run[s].job # Nobody /\ \A t \in Slots \ {s} : run[t].job # run[s].job
  BY DEF IInv, Holding
<1>4. run[s].job \in Jobs
  BY <1>1, <1>3 DEF Handlers
<1>5. \A t \in Slots \ {s} : run[t].pc # "idle" => run[t].job \in Jobs
  BY <1>1 DEF IInv, Holding, Handlers
<1>6. \A t \in Slots \ {s} : run[t].pc # "idle" =>
        /\ ckpt'[run[t].job] = ckpt[run[t].job]
        /\ stage'[run[t].job] = stage[run[t].job]
  BY <1>3, <1>4, <1>5 DEF IInv, TypeOK
<1>7. Holding'
  BY <1>2, <1>3 DEF IInv, Holding
<1>8. Budget'
  BY DEF IInv, Budget
<1>9. Paging'
  BY <1>2, <1>6 DEF IInv, Paging, PageOf
<1>10. Staged'
  BY <1>2, <1>6 DEF IInv, Staged, StageOf
<1> QED
  BY <1>1, <1>7, <1>8, <1>9, <1>10

\* The other steps on a handler end it, or touch the queue alone.
LEMMA HandlerEnds ==
  ASSUME IInv, NEW s \in Slots, run[s].pc # "idle", Goto(s, Idle), NEW q \in QueueStates,
         queue' = [queue EXCEPT ![run[s].job] = q],
         q.state \in {"waiting", "active"} => q.attempts < MaxAttempts /\ q.stalls <= MaxStalls,
         UNCHANGED <<ckpt, stage>>
  PROVE  Holding' /\ Budget' /\ Paging' /\ Staged' /\ run' \in [Slots -> Handlers]
<1>1. Idle \in Handlers
  BY DEF Idle, Handlers, Labels, Stages, Marks
<1>2. run \in [Slots -> Handlers] /\ run' = [run EXCEPT ![s] = Idle] /\ run' \in [Slots -> Handlers]
  BY <1>1 DEF IInv, TypeOK, Goto
<1>3. run'[s] = Idle /\ \A t \in Slots \ {s} : run'[t] = run[t]
  BY <1>2
<1>4. Idle.pc = "idle" /\ Idle.job = Nobody /\ Idle.fresh = {}
  BY DEF Idle
<1>5. run[s].job \in Jobs /\ \A t \in Slots \ {s} : run[t].job # run[s].job
  BY <1>2 DEF IInv, Holding, Handlers
<1>6. \A j \in Jobs : queue'[j] = IF j = run[s].job THEN q ELSE queue[j]
  BY <1>5 DEF IInv, TypeOK
<1>7. Holding'
  <2> SUFFICES ASSUME NEW t \in Slots
               PROVE  /\ run'[t].pc = "idle" <=> run'[t].job = Nobody
                      /\ run'[t].pc = "idle" => run'[t].fresh = {}
                      /\ run'[t].job # Nobody =>
                           /\ queue'[run'[t].job].state = "active"
                           /\ \A v \in Slots \ {t} : run'[v].job # run'[t].job
    BY DEF Holding
  <2>1. CASE t = s
    BY <2>1, <1>3, <1>4
  <2>2. CASE t # s
    <3>1. run'[t] = run[t]
      BY <2>2, <1>3
    <3>2. run[t].job # Nobody => run[t].job \in Jobs
      BY <1>2 DEF Handlers
    <3> QED
      BY <2>2, <3>1, <3>2, <1>3, <1>4, <1>5, <1>6 DEF IInv, Holding
  <2> QED
    BY <2>1, <2>2
<1>8. Budget'
  BY <1>6 DEF IInv, Budget
<1>9. Paging' /\ Staged'
  BY <1>3, <1>4 DEF IInv, Paging, Staged
<1> QED
  BY <1>2, <1>7, <1>8, <1>9

LEMMA HandlerFacts ==
  ASSUME IInv, NEW s \in Slots, run[s].pc # "idle"
  PROVE  /\ run[s] \in Handlers /\ run[s].job \in Jobs
         /\ stage[run[s].job] \in Stages /\ ckpt[run[s].job] \in [Units -> Marks]
         /\ queue[run[s].job] \in QueueStates /\ queue[run[s].job].state = "active"
         /\ queue[run[s].job].attempts < MaxAttempts /\ queue[run[s].job].stalls <= MaxStalls
<1>1. run[s] \in Handlers
  BY DEF IInv, TypeOK
<1>2. run[s].job \in Jobs /\ queue[run[s].job].state = "active"
  BY <1>1 DEF IInv, Holding, Handlers
<1> QED
  BY <1>1, <1>2 DEF IInv, TypeOK, Budget

LEMMA HandlerTyped ==
  ASSUME NEW s \in Slots, run[s] \in Handlers, NEW label \in Labels
  PROVE  Handler(s, label) \in Handlers /\ Handler(s, label).job = run[s].job /\ Handler(s, label).at = run[s].at
         /\ Handler(s, label).pc = label
BY DEF Handler, Idle, Handlers, Marks, Labels

LEMMA StartJobStep ==
  ASSUME IInv, NEW s \in Slots, StartJob(s)
  PROVE  IInv'
<1> DEFINE r == [run[s] EXCEPT !.pc = "enter", !.at = ResumeStage(J(s))]
<1>1. run[s].pc # "idle" /\ Goto(s, r)
  BY DEF StartJob, At
<1>2. r \in Handlers /\ r.pc = "enter" /\ r.job = run[s].job /\ r.at = stage[run[s].job]
  BY <1>1, HandlerFacts DEF Handlers, Labels, ResumeStage, J
<1>3. Holding' /\ Budget' /\ Paging' /\ Staged' /\ run' \in [Slots -> Handlers]
  BY <1>1, <1>2, HandlerStep DEF StartJob, PageOf, StageOf
<1>4. TypeOK'
  BY <1>1, <1>3, HandlerFacts DEF IInv, TypeOK, StartJob, dataVars, eventVars, J
<1> QED
  BY <1>3, <1>4 DEF IInv

LEMMA StartFailsStep ==
  ASSUME IInv, NEW s \in Slots, StartFails(s)
  PROVE  IInv'
<1> DEFINE r == [run[s] EXCEPT !.pc = "thrown"]
<1>1. run[s].pc # "idle" /\ Goto(s, r)
  BY DEF StartFails, At
<1>2. r \in Handlers /\ r.pc = "thrown" /\ r.job = run[s].job
  BY <1>1, HandlerFacts DEF Handlers, Labels
<1>3. Holding' /\ Budget' /\ Paging' /\ Staged' /\ run' \in [Slots -> Handlers]
  BY <1>1, <1>2, HandlerStep DEF StartFails, PageOf, StageOf, rowVars
<1>4. TypeOK'
  BY <1>1, <1>3, BoundAssumption DEF IInv, TypeOK, StartFails, rowVars, dataVars, eventVars
<1> QED
  BY <1>3, <1>4 DEF IInv

LEMMA RecordingFailsStep ==
  ASSUME IInv, NEW s \in Slots, RecordingFails(s)
  PROVE  IInv'
<1> DEFINE r == [run[s] EXCEPT !.pc = "thrown"]
<1>1. run[s].pc # "idle" /\ Goto(s, r)
  BY DEF RecordingFails, At
<1>2. r \in Handlers /\ r.pc = "thrown" /\ r.job = run[s].job
  BY <1>1, HandlerFacts DEF Handlers, Labels
<1>3. Holding' /\ Budget' /\ Paging' /\ Staged' /\ run' \in [Slots -> Handlers]
  BY <1>1, <1>2, HandlerStep DEF RecordingFails, PageOf, StageOf, rowVars
<1>4. TypeOK'
  BY <1>1, <1>3, BoundAssumption DEF IInv, TypeOK, RecordingFails, rowVars, dataVars, eventVars
<1> QED
  BY <1>3, <1>4 DEF IInv

LEMMA RecordFailureStep ==
  ASSUME IInv, NEW s \in Slots, RecordFailure(s)
  PROVE  IInv'
<1> DEFINE r == [run[s] EXCEPT !.pc = "thrown"]
<1>1. run[s].pc # "idle" /\ Goto(s, r)
  BY DEF RecordFailure, At
<1>2. r \in Handlers /\ r.pc = "thrown" /\ r.job = run[s].job
  BY <1>1, HandlerFacts DEF Handlers, Labels
<1>3. Holding' /\ Budget' /\ Paging' /\ Staged' /\ run' \in [Slots -> Handlers]
  BY <1>1, <1>2, HandlerStep DEF RecordFailure, PageOf, StageOf
<1>4. TypeOK'
  BY <1>1, <1>3 DEF IInv, TypeOK, RecordFailure, dataVars, eventVars
<1> QED
  BY <1>3, <1>4 DEF IInv

LEMMA AuthorizeStep ==
  ASSUME IInv, NEW s \in Slots, Authorize(s)
  PROVE  IInv'
<1> DEFINE r == [run[s] EXCEPT !.at = "notes"]
<1>1. run[s].pc # "idle" /\ Goto(s, r)
  BY DEF Authorize, AtStage, At
<1>2. r \in Handlers /\ r.pc = "enter" /\ r.job = run[s].job /\ r.at = "notes"
  BY <1>1, HandlerFacts DEF Handlers, Stages, Authorize, AtStage, At
<1>3. Holding' /\ Budget' /\ Paging' /\ Staged' /\ run' \in [Slots -> Handlers]
  <2>1. stage' = [stage EXCEPT ![run[s].job] = "notes"] /\ "notes" \in Stages
    BY DEF Authorize, J, Stages
  <2>2. stage'[run[s].job] = "notes"
    BY <1>1, <2>1, HandlerFacts DEF IInv, TypeOK
  <2>3. queue' = queue /\ ckpt' = ckpt
    BY DEF Authorize
  <2>4. PageOf(r, ckpt') /\ StageOf(r, stage')
    BY <1>2, <2>2 DEF PageOf, StageOf
  <2> QED
    BY <1>1, <1>2, <2>1, <2>3, <2>4, HandlerStep
<1>4. TypeOK'
  BY <1>1, <1>3 DEF IInv, TypeOK, Authorize, eventVars, Stages
<1> QED
  BY <1>3, <1>4 DEF IInv

LEMMA EnterStep ==
  ASSUME IInv, NEW s \in Slots, Enter(s)
  PROVE  IInv'
<1> DEFINE units == UnitsOf(run[s].at)
           label == IF run[s].at = "comments" THEN "synced" ELSE "open"
           r == [run[s] EXCEPT !.todo = units, !.pc = label]
<1>1. run[s].pc # "idle" /\ Goto(s, r)
  BY DEF Enter, At
<1>2. r \in Handlers /\ r.pc \in {"synced", "open"} /\ r.job = run[s].job /\ r.at = run[s].at
  <2>1. units \in SUBSET Units
    BY DEF IInv, TypeOK, Enter, UnitsOf, Units
  <2>2. label \in {"synced", "open"}
    OBVIOUS
  <2>3. run[s] \in Handlers
    BY <1>1, HandlerFacts
  <2> HIDE DEF units, label
  <2> QED
    BY <2>1, <2>2, <2>3 DEF Handlers, Labels
<1>3. Holding' /\ Budget' /\ Paging' /\ Staged' /\ run' \in [Slots -> Handlers]
  <2>1. r.at = stage[run[s].job] /\ r.at \in {"notes", "metrics", "comments", "replies"}
    BY <1>2 DEF Enter, At, IInv, Staged
  <2> HIDE DEF r
  <2> QED
    BY <1>1, <1>2, <2>1, HandlerStep DEF Enter, PageOf, StageOf, rowVars
<1>4. TypeOK'
  BY <1>1, <1>3 DEF IInv, TypeOK, Enter, rowVars, dataVars, eventVars
<1> QED
  BY <1>3, <1>4 DEF IInv

LEMMA AsksStep ==
  ASSUME IInv, NEW s \in Slots, AskSynced(s) \/ AskCapability(s)
  PROVE  IInv'
<1> DEFINE notify == IF AskSynced(s) THEN SyncedBefore(J(s)) ELSE run[s].notify
           label == IF AskSynced(s) THEN "capable" ELSE IF commentsOn THEN "open" ELSE "mark"
           r == [run[s] EXCEPT !.notify = notify, !.pc = label]
<1>1. run[s].pc \in {"synced", "capable"} /\ run[s] \in Handlers
  BY HandlerFacts DEF AskSynced, AskCapability, At
<1>2. Goto(s, r)
  <2>1. CASE AskSynced(s)
    BY <2>1 DEF AskSynced
  <2>2. CASE ~AskSynced(s)
    BY <1>1, <2>2 DEF AskCapability, Handlers, Goto
  <2> QED
    BY <2>1, <2>2
<1>3. notify \in BOOLEAN /\ label \in {"capable", "open", "mark"}
  BY <1>1 DEF SyncedBefore, Handlers
<1> HIDE DEF notify, label
<1>4. r \in Handlers /\ r.pc = label /\ r.job = run[s].job /\ r.at = run[s].at
  BY <1>1, <1>3 DEF Handlers, Labels
<1>5. r.at = stage[run[s].job] /\ r.at \in {"notes", "metrics", "comments", "replies"}
  BY <1>1, <1>4 DEF IInv, Staged
<1> HIDE DEF r
<1>6. UNCHANGED <<rowVars, dataVars, eventVars, ckpt, queue, scan, crashes, faults>>
  BY DEF AskSynced, AskCapability
<1>7. Holding' /\ Budget' /\ Paging' /\ Staged' /\ run' \in [Slots -> Handlers]
  BY <1>1, <1>2, <1>3, <1>4, <1>5, <1>6, HandlerStep DEF PageOf, StageOf, rowVars
<1>8. TypeOK'
  BY <1>6, <1>7 DEF IInv, TypeOK, rowVars, dataVars, eventVars
<1> QED
  BY <1>7, <1>8 DEF IInv

LEMMA MarkUnavailableStep ==
  ASSUME IInv, NEW s \in Slots, NEW u \in run[s].todo, MarkUnavailable(s, u)
  PROVE  IInv'
<1> DEFINE r == [run[s] EXCEPT !.todo = run[s].todo \ {u}]
<1>1. run[s].pc # "idle" /\ Goto(s, r)
  BY DEF MarkUnavailable, At
<1>2. r \in Handlers /\ r.pc = "mark" /\ run[s].pc = "mark" /\ r.job = run[s].job /\ r.at = run[s].at
  BY <1>1, HandlerFacts DEF Handlers, MarkUnavailable, At
<1>3. Holding' /\ Budget' /\ Paging' /\ Staged' /\ run' \in [Slots -> Handlers]
  BY <1>1, <1>2, HandlerStep DEF MarkUnavailable, PageOf, StageOf, rowVars, IInv, Staged
<1>4. TypeOK'
  BY <1>1, <1>3 DEF IInv, TypeOK, MarkUnavailable, rowVars, eventVars
<1> QED
  BY <1>3, <1>4 DEF IInv

LEMMA OpenStep ==
  ASSUME IInv, NEW s \in Slots, NEW u \in run[s].todo, Open(s, u)
  PROVE  IInv'
<1> DEFINE mark == ckpt[run[s].job][u]
           skip == [run[s] EXCEPT !.todo = run[s].todo \ {u}]
           seen == {mark} \ {Absent}
           read == [run[s] EXCEPT !.pc = "page", !.unit = u, !.cursor = mark, !.seen = seen]
<1>1. run[s].pc = "open" /\ u \in Units /\ mark \in Marks
  BY HandlerFacts DEF Open, At, Handlers
<1>2. UNCHANGED <<ckpt, stage, queue>>
  BY DEF Open, rowVars
<1>3. run[s].at = stage[run[s].job] /\ run[s].at \in {"notes", "metrics", "comments", "replies"}
  BY <1>1 DEF IInv, Staged
<1>4. Holding' /\ Budget' /\ Paging' /\ Staged' /\ run' \in [Slots -> Handlers]
  <2>1. CASE mark = Done
    <3>1. Goto(s, skip)
      BY <2>1 DEF Open, ResumeMark, J
    <3>2. skip \in Handlers /\ skip.pc = "open" /\ skip.job = run[s].job /\ skip.at = run[s].at
      BY <1>1, HandlerFacts DEF Handlers
    <3> QED
      BY <1>1, <1>2, <1>3, <3>1, <3>2, HandlerStep DEF PageOf, StageOf
  <2>2. CASE mark # Done
    <3>1. Goto(s, read)
      BY <2>2 DEF Open, ResumeMark, J
    <3>2. seen \in SUBSET Cursors
      BY <1>1, <2>2 DEF Marks
    <3>3. /\ read \in Handlers /\ read.pc = "page" /\ read.job = run[s].job /\ read.at = run[s].at
          /\ read.unit = u /\ read.cursor = mark
      <4> HIDE DEF seen, mark
      <4> QED
        BY <1>1, <3>2, HandlerFacts DEF Handlers, Labels
    <3>4. PageOf(read, ckpt') /\ StageOf(read, stage')
      BY <1>1, <1>2, <1>3, <2>2, <3>3 DEF PageOf, StageOf
    <3> HIDE DEF read
    <3> QED
      BY <1>1, <1>2, <3>1, <3>3, <3>4, HandlerStep
  <2> QED
    BY <2>1, <2>2
<1>5. TypeOK'
  BY <1>4 DEF IInv, TypeOK, Open, rowVars, dataVars, eventVars
<1> QED
  BY <1>4, <1>5 DEF IInv

\* What becomes of a handler that has stored a page with the given answer.
Turned(s, r, next) ==
  /\ r \in Handlers /\ r.job = run[s].job /\ r.at = run[s].at
  /\ r.pc \in {"return", "open", "page"}
  /\ r.pc = "page" => next # Done /\ r.unit = run[s].unit /\ r.cursor = next

LEMMA AfterPageTurns ==
  ASSUME NEW s \in Slots, run[s] \in Handlers, run[s].pc = "page", NEW next \in Cursors \cup {Done},
         NEW events \in SUBSET Comments
  PROVE  /\ Turned(s, AfterPage(run[s], next), next)
         /\ Turned(s, [AfterPage(run[s], next) EXCEPT !.fresh = events], next)
<1> DEFINE r == AfterPage(run[s], next)
<1>1. Idle \in Handlers
  BY DEF Idle, Handlers, Labels, Stages, Marks
<1>2. Turned(s, r, next)
  <2>1. CASE next \in run[s].seen
    <3>1. r = [Idle EXCEPT !.pc = "return", !.job = run[s].job, !.at = run[s].at]
      BY <2>1 DEF AfterPage
    <3> QED
      BY <1>1, <3>1 DEF Turned, Handlers, Labels
  <2>2. CASE next \notin run[s].seen /\ next = Done
    <3> DEFINE rest == run[s].todo \ {run[s].unit}
               notify == run[s].notify
    <3>1. r = [Idle EXCEPT !.pc = "open", !.job = run[s].job, !.at = run[s].at,
                           !.notify = notify, !.todo = rest]
      BY <2>2 DEF AfterPage
    <3>2. rest \in SUBSET Units /\ notify \in BOOLEAN /\ run[s].job \in Jobs \cup {Nobody} /\ run[s].at \in Stages
      BY DEF Handlers
    <3> HIDE DEF rest, notify
    <3> QED
      BY <1>1, <3>1, <3>2 DEF Turned, Handlers, Labels
  <2>3. CASE next \notin run[s].seen /\ next # Done
    <3> DEFINE more == run[s].seen \cup {next}
    <3>1. next \in Cursors /\ next \in Marks
      BY <2>3 DEF Marks
    <3>2. r = [run[s] EXCEPT !.cursor = next, !.seen = more]
      BY <2>3 DEF AfterPage
    <3>3. more \in SUBSET Cursors
      BY <3>1 DEF Handlers
    <3> HIDE DEF more
    <3> QED
      BY <2>3, <3>1, <3>2, <3>3 DEF Turned, Handlers
  <2> QED
    BY <2>1, <2>2, <2>3
<1> HIDE DEF r
<1>3. Turned(s, [r EXCEPT !.fresh = events], next)
  BY <1>2 DEF Turned, Handlers
<1> QED
  BY <1>2, <1>3 DEF r

LEMMA PageStep ==
  ASSUME IInv, NEW s \in Slots, run[s].pc = "page", NEW next \in Cursors \cup {Done}, NEW r,
         Goto(s, r), Turned(s, r, next),
         ckpt' = [ckpt EXCEPT ![run[s].job][run[s].unit] = next], UNCHANGED <<stage, queue>>
  PROVE  /\ Holding' /\ Budget' /\ Paging' /\ Staged'
         /\ run' \in [Slots -> Handlers] /\ ckpt' \in [Jobs -> [Units -> Marks]]
<1> DEFINE f == [ckpt[run[s].job] EXCEPT ![run[s].unit] = next]
<1>1. run[s].unit \in Units
  BY DEF IInv, Paging
<1>2. f \in [Units -> Marks] /\ f[run[s].unit] = next
  BY <1>1, HandlerFacts DEF Marks
<1>3. ckpt' = [ckpt EXCEPT ![run[s].job] = f]
  BY DEF IInv, TypeOK
<1>4. ckpt' \in [Jobs -> [Units -> Marks]] /\ ckpt'[run[s].job] = f
  <2>1. run[s].job \in Jobs /\ ckpt \in [Jobs -> [Units -> Marks]]
    BY HandlerFacts DEF IInv, TypeOK
  <2> HIDE DEF f
  <2> QED
    BY <1>2, <1>3, <2>1
<1>5. run[s].at = stage[run[s].job] /\ run[s].at \in {"notes", "metrics", "comments", "replies"}
  BY DEF IInv, Staged
<1>6. PageOf(r, ckpt')
  BY <1>1, <1>2, <1>4 DEF PageOf, Turned
<1>7. StageOf(r, stage')
  BY <1>5 DEF StageOf, Turned
<1>8. \E g \in [Units -> Marks] : ckpt' = [ckpt EXCEPT ![run[s].job] = g]
  BY <1>2, <1>3
<1> HIDE DEF f
<1> QED
  BY <1>4, <1>6, <1>7, <1>8, HandlerStep DEF Turned

LEMMA SaveNotesPageStep ==
  ASSUME IInv, NEW s \in Slots, NEW next \in Cursors \cup {Done}, NEW items \in SUBSET Notes, SaveNotesPage(s, next, items)
  PROVE  IInv'
<1> DEFINE r == AfterPage(run[s], next)
<1>1. run[s].pc = "page" /\ run[s] \in Handlers /\ Goto(s, r)
  BY HandlerFacts DEF SaveNotesPage, AtStage, At
<1>2. Turned(s, r, next)
  BY <1>1, AfterPageTurns
<1>3. /\ Holding' /\ Budget' /\ Paging' /\ Staged'
      /\ run' \in [Slots -> Handlers] /\ ckpt' \in [Jobs -> [Units -> Marks]]
  <2> HIDE DEF r
  <2> QED
    BY <1>1, <1>2, PageStep DEF SaveNotesPage, SavePage, J, rowVars
<1>4. TypeOK'
  BY <1>3 DEF IInv, TypeOK, SaveNotesPage, SavePage, SaveVerdict
<1> QED
  BY <1>3, <1>4 DEF IInv

LEMMA SaveCommentsPageStep ==
  ASSUME IInv, NEW s \in Slots, NEW next \in Cursors \cup {Done}, NEW items \in SUBSET Comments, SaveCommentsPage(s, next, items)
  PROVE  IInv'
<1> DEFINE r == [AfterPage(run[s], next) EXCEPT !.fresh = IF run[s].notify THEN items \ commentsDb ELSE {}]
<1>1. run[s].pc = "page" /\ run[s] \in Handlers /\ Goto(s, r)
  BY HandlerFacts DEF SaveCommentsPage, AtStage, At
<1>2. Turned(s, r, next)
  <2>1. (IF run[s].notify THEN items \ commentsDb ELSE {}) \in SUBSET Comments
    OBVIOUS
  <2> QED
    BY <1>1, <2>1, AfterPageTurns
<1>3. /\ Holding' /\ Budget' /\ Paging' /\ Staged'
      /\ run' \in [Slots -> Handlers] /\ ckpt' \in [Jobs -> [Units -> Marks]]
  <2> HIDE DEF r
  <2> QED
    BY <1>1, <1>2, PageStep DEF SaveCommentsPage, SavePage, J, rowVars
<1>4. TypeOK'
  <2>1. PageCompleteness(next \in run[s].seen, next) \in {"partial", "page_complete", "unverifiable"}
    BY DEF PageCompleteness
  <2> QED
    BY <1>3, <2>1 DEF IInv, TypeOK, SaveCommentsPage, SavePage, SaveVerdict
<1> QED
  BY <1>3, <1>4 DEF IInv

LEMMA SaveRepliesPageStep ==
  ASSUME IInv, NEW s \in Slots, NEW next \in Cursors \cup {Done}, SaveRepliesPage(s, next)
  PROVE  IInv'
<1> DEFINE r == AfterPage(run[s], next)
<1>1. run[s].pc = "page" /\ run[s] \in Handlers /\ Goto(s, r)
  BY HandlerFacts DEF SaveRepliesPage, AtStage, At
<1>2. Turned(s, r, next)
  BY <1>1, AfterPageTurns
<1>3. /\ Holding' /\ Budget' /\ Paging' /\ Staged'
      /\ run' \in [Slots -> Handlers] /\ ckpt' \in [Jobs -> [Units -> Marks]]
  <2> HIDE DEF r
  <2> QED
    BY <1>1, <1>2, PageStep DEF SaveRepliesPage, SavePage, J, rowVars
<1>4. TypeOK'
  BY <1>3 DEF IInv, TypeOK, SaveRepliesPage, SavePage, SaveVerdict
<1> QED
  BY <1>3, <1>4 DEF IInv

LEMMA SaveMetricsStep ==
  ASSUME IInv, NEW s \in Slots, SaveMetrics(s)
  PROVE  IInv'
<1> DEFINE r == AfterPage(run[s], Done)
<1>1. run[s].pc = "page" /\ run[s] \in Handlers /\ Goto(s, r)
  BY HandlerFacts DEF SaveMetrics, AtStage, At
<1>2. Turned(s, r, Done)
  BY <1>1, AfterPageTurns
<1>3. /\ Holding' /\ Budget' /\ Paging' /\ Staged'
      /\ run' \in [Slots -> Handlers] /\ ckpt' \in [Jobs -> [Units -> Marks]]
  <2> HIDE DEF r
  <2> QED
    BY <1>1, <1>2, PageStep DEF SaveMetrics, SavePage, J, rowVars
<1>4. TypeOK'
  BY <1>3 DEF IInv, TypeOK, SaveMetrics, rowVars, dataVars, eventVars
<1> QED
  BY <1>3, <1>4 DEF IInv

LEMMA AnnounceStep ==
  ASSUME IInv, NEW s \in Slots, NEW k \in run[s].fresh, Announce(s, k)
  PROVE  IInv'
<1> DEFINE r == [run[s] EXCEPT !.fresh = run[s].fresh \ {k}]
<1>1. run[s].pc # "idle" /\ Goto(s, r)
  BY DEF Announce, IInv, Holding
<1>2. r \in Handlers /\ r.pc = run[s].pc /\ r.job = run[s].job /\ r.at = run[s].at /\ r.unit = run[s].unit /\ r.cursor = run[s].cursor /\ k \in Comments
  BY <1>1, HandlerFacts DEF Handlers
<1>3. Holding' /\ Budget' /\ Paging' /\ Staged' /\ run' \in [Slots -> Handlers]
  <2>1. PageOf(r, ckpt') /\ StageOf(r, stage')
    BY <1>2 DEF Announce, PageOf, StageOf, IInv, Paging, Staged, rowVars
  <2> HIDE DEF r
  <2> QED
    BY <1>1, <1>2, <2>1, HandlerStep DEF Announce, rowVars
<1>4. TypeOK'
  BY <1>2, <1>3, BoundAssumption DEF IInv, TypeOK, Announce, rowVars, dataVars
<1> QED
  BY <1>3, <1>4 DEF IInv

LEMMA AdvanceStep ==
  ASSUME IInv, NEW s \in Slots, Advance(s)
  PROVE  IInv'
<1> DEFINE r == [Handler(s, "enter") EXCEPT !.at = Following(run[s].at)]
<1>1. run[s].pc # "idle" /\ Goto(s, r)
  BY DEF Advance, At
<1>2. r \in Handlers /\ r.pc = "enter" /\ r.job = run[s].job /\ r.at = Following(run[s].at) /\ Following(run[s].at) \in Stages
  <2>1. run[s].at \in {"notes", "metrics", "comments", "replies"}
    BY DEF Advance, At, IInv, Staged
  <2>2. Following(run[s].at) \in Stages
    BY <2>1 DEF Following, Stages
  <2>3. "enter" \in Labels
    BY DEF Labels
  <2> QED
    BY <1>1, <2>2, <2>3, HandlerFacts, HandlerTyped DEF Handlers
<1>3. Holding' /\ Budget' /\ Paging' /\ Staged' /\ run' \in [Slots -> Handlers]
  <2>1. stage' = [stage EXCEPT ![run[s].job] = Following(run[s].at)]
    BY DEF Advance, J
  <2>2. stage'[run[s].job] = Following(run[s].at)
    BY <1>1, <2>1, HandlerFacts DEF IInv, TypeOK
  <2>3. PageOf(r, ckpt') /\ StageOf(r, stage')
    BY <1>2, <2>2 DEF PageOf, StageOf
  <2> HIDE DEF r
  <2> QED
    BY <1>1, <1>2, <2>1, <2>3, HandlerStep DEF Advance
<1>4. TypeOK'
  BY <1>2, <1>3 DEF IInv, TypeOK, Advance, dataVars, eventVars
<1> QED
  BY <1>3, <1>4 DEF IInv

LEMMA CompleteStep ==
  ASSUME IInv, NEW s \in Slots, Complete(s)
  PROVE  IInv'
<1> DEFINE r == Handler(s, "return")
<1>1. run[s].pc # "idle" /\ Goto(s, r)
  BY DEF Complete, AtStage, At
<1>2. r \in Handlers /\ r.pc = "return" /\ r.job = run[s].job
  BY <1>1, HandlerFacts, HandlerTyped DEF Labels
<1>3. Holding' /\ Budget' /\ Paging' /\ Staged' /\ run' \in [Slots -> Handlers]
  <2>1. stage' = [stage EXCEPT ![run[s].job] = "complete"] /\ "complete" \in Stages
    BY DEF Complete, J, Stages
  <2>2. PageOf(r, ckpt') /\ StageOf(r, stage')
    BY <1>2 DEF PageOf, StageOf
  <2> HIDE DEF r
  <2> QED
    BY <1>1, <1>2, <2>1, <2>2, HandlerStep DEF Complete
<1>4. TypeOK'
  BY <1>3 DEF IInv, TypeOK, Complete, dataVars, eventVars, Stages
<1> QED
  BY <1>3, <1>4 DEF IInv

LEMMA CallFailsStep ==
  ASSUME IInv, NEW s \in Slots, NEW auth \in BOOLEAN, CallFails(s, auth)
  PROVE  IInv'
<1> DEFINE marking == [Handler(s, "incomplete") EXCEPT !.auth = auth, !.unit = run[s].unit]
           failing == [Handler(s, "failing") EXCEPT !.auth = auth]
<1>1. run[s].pc # "idle" /\ run[s] \in Handlers
  BY HandlerFacts DEF CallFails, AtStage, At
<1>2. \A label \in {"incomplete", "failing"} :
        Handler(s, label) \in Handlers /\ Handler(s, label).job = run[s].job /\ Handler(s, label).pc = label
  BY <1>1, HandlerTyped DEF Labels
<1>3. marking \in Handlers /\ marking.job = run[s].job /\ marking.pc = "incomplete"
  <2>1. run[s].unit \in Units \cup {Nobody}
    BY <1>1 DEF Handlers
  <2> QED
    BY <1>2, <2>1 DEF Handlers
<1>4. failing \in Handlers /\ failing.job = run[s].job /\ failing.pc = "failing"
  BY <1>2 DEF Handlers
<1>5. Holding' /\ Budget' /\ Paging' /\ Staged' /\ run' \in [Slots -> Handlers]
  <2>1. Goto(s, marking) \/ Goto(s, failing)
    BY DEF CallFails
  <2> HIDE DEF marking, failing
  <2> QED
    BY <1>1, <1>3, <1>4, <2>1, HandlerStep DEF CallFails, PageOf, StageOf, rowVars
<1>6. TypeOK'
  BY <1>5 DEF IInv, TypeOK, CallFails, rowVars, dataVars, eventVars
<1> QED
  BY <1>5, <1>6 DEF IInv

LEMMA DatabaseFailsStep ==
  ASSUME IInv, NEW s \in Slots, DatabaseFails(s)
  PROVE  IInv'
<1> DEFINE r == Handler(s, "failing")
<1>1. run[s].pc # "idle" /\ Goto(s, r)
  BY DEF DatabaseFails, At
<1>2. r \in Handlers /\ r.pc = "failing" /\ r.job = run[s].job
  BY <1>1, HandlerFacts, HandlerTyped DEF Labels
<1>3. Holding' /\ Budget' /\ Paging' /\ Staged' /\ run' \in [Slots -> Handlers]
  <2> HIDE DEF r
  <2> QED
    BY <1>1, <1>2, HandlerStep DEF DatabaseFails, PageOf, StageOf, rowVars
<1>4. TypeOK'
  BY <1>3, BoundAssumption DEF IInv, TypeOK, DatabaseFails, rowVars, dataVars, eventVars
<1> QED
  BY <1>3, <1>4 DEF IInv

LEMMA MarkIncompleteStep ==
  ASSUME IInv, NEW s \in Slots, MarkIncomplete(s)
  PROVE  IInv'
<1> DEFINE r == [Handler(s, "failing") EXCEPT !.auth = run[s].auth]
<1>1. run[s].pc # "idle" /\ Goto(s, r)
  BY DEF MarkIncomplete, At
<1>2. r \in Handlers /\ r.pc = "failing" /\ r.job = run[s].job
  <2> DEFINE auth == run[s].auth
  <2>1. Handler(s, "failing") \in Handlers /\ auth \in BOOLEAN
    BY <1>1, HandlerFacts, HandlerTyped DEF Labels, Handlers
  <2> HIDE DEF auth
  <2>2. [Handler(s, "failing") EXCEPT !.auth = auth] \in Handlers
    BY <2>1 DEF Handlers
  <2>3. /\ [Handler(s, "failing") EXCEPT !.auth = auth].pc = "failing"
        /\ [Handler(s, "failing") EXCEPT !.auth = auth].job = run[s].job
    BY <1>1, <2>1, HandlerFacts, HandlerTyped DEF Handlers, Labels
  <2> QED
    BY <2>2, <2>3 DEF auth
<1>3. Holding' /\ Budget' /\ Paging' /\ Staged' /\ run' \in [Slots -> Handlers]
  <2> HIDE DEF r
  <2> QED
    BY <1>1, <1>2, HandlerStep DEF MarkIncomplete, PageOf, StageOf, rowVars
<1>4. TypeOK'
  BY <1>3 DEF IInv, TypeOK, MarkIncomplete, rowVars, eventVars
<1> QED
  BY <1>3, <1>4 DEF IInv

LEMMA ReturnStep ==
  ASSUME IInv, NEW s \in Slots, Return(s)
  PROVE  IInv'
<1>1. run[s].pc # "idle"
  BY DEF Return, At
<1>2. NotQueued \in QueueStates /\ NotQueued.state = "none"
  BY BoundAssumption DEF NotQueued, QueueStates
<1>3. Holding' /\ Budget' /\ Paging' /\ Staged' /\ run' \in [Slots -> Handlers]
  BY <1>1, <1>2, HandlerEnds DEF Return, J, rowVars
<1>4. TypeOK'
  BY <1>2, <1>3 DEF IInv, TypeOK, Return, rowVars, dataVars, eventVars
<1> QED
  BY <1>3, <1>4 DEF IInv

LEMMA ThrowStep ==
  ASSUME IInv, NEW s \in Slots, Throw(s)
  PROVE  IInv'
<1> DEFINE old == queue[run[s].job]
           q == AfterThrow(old, run[s].auth)
<1>1. run[s].pc # "idle"
  BY DEF Throw, At
<1>2. old \in QueueStates /\ old.attempts < MaxAttempts /\ old.stalls <= MaxStalls
  BY <1>1, HandlerFacts
<1>3. old.attempts \in Nat /\ old.attempts + 1 \in 0..MaxAttempts
  BY <1>2, BoundAssumption DEF QueueStates
<1>4. q \in QueueStates /\ (q.state \in {"waiting", "active"} => q.attempts < MaxAttempts /\ q.stalls <= MaxStalls)
  <2> HIDE DEF old
  <2>1. q.attempts = old.attempts + 1 /\ q.stalls = old.stalls /\ q.state \in {"failed", "waiting"}
    BY <1>2 DEF AfterThrow, QueueStates
  <2>2. q.state = "waiting" => old.attempts + 1 # MaxAttempts
    BY <1>2 DEF AfterThrow, QueueStates
  <2>3. q \in QueueStates
    BY <1>2, <1>3 DEF AfterThrow, QueueStates
  <2> QED
    BY <1>2, <1>3, <2>1, <2>2, <2>3, BoundAssumption
<1>5. queue' = [queue EXCEPT ![run[s].job] = q]
  BY DEF Throw, J
<1> HIDE DEF q
<1>6. Holding' /\ Budget' /\ Paging' /\ Staged' /\ run' \in [Slots -> Handlers]
  BY <1>1, <1>4, <1>5, HandlerEnds DEF Throw, rowVars
<1>7. queue' \in [Jobs -> QueueStates]
  BY <1>4, <1>5 DEF IInv, TypeOK
<1>8. TypeOK'
  BY <1>6, <1>7 DEF IInv, TypeOK, Throw, rowVars, dataVars, eventVars
<1> QED
  BY <1>6, <1>8 DEF IInv

LEMMA PickStep ==
  ASSUME IInv, NEW s \in Slots, NEW j \in Jobs, Pick(s, j)
  PROVE  IInv'
<1> DEFINE r == [Idle EXCEPT !.pc = "start", !.job = j]
<1>1. r \in Handlers /\ r.pc = "start" /\ r.job = j /\ j # Nobody
  <2>1. Idle \in Handlers
    BY DEF Idle, Handlers, Labels, Stages, Marks
  <2> QED
    BY <2>1, NobodyAssumption DEF Handlers, Labels
<1>2. run \in [Slots -> Handlers] /\ run' = [run EXCEPT ![s] = r]
  BY DEF IInv, TypeOK, Pick, Goto
<1>3. run'[s] = r /\ \A t \in Slots \ {s} : run'[t] = run[t]
  BY <1>1, <1>2
<1>4. queue \in [Jobs -> QueueStates] /\ queue' = [queue EXCEPT ![j].state = "active"]
  BY DEF IInv, TypeOK, Pick
<1>5. /\ queue' \in [Jobs -> QueueStates]
      /\ queue'[j].state = "active" /\ queue'[j].attempts = queue[j].attempts /\ queue'[j].stalls = queue[j].stalls
      /\ \A i \in Jobs \ {j} : queue'[i] = queue[i]
  BY <1>4 DEF QueueStates
<1>6. \A t \in Slots : run[t].job # j
  <2>1. queue[j].state = "waiting"
    BY DEF Pick
  <2> QED
    BY <1>1, <2>1 DEF IInv, Holding
<1>7. \A t \in Slots : run[t].job # Nobody => run[t].job \in Jobs
  BY <1>2 DEF Handlers
<1> HIDE DEF r
<1>8. Holding'
  BY <1>1, <1>3, <1>5, <1>6, <1>7 DEF IInv, Holding
<1>9. Budget'
  BY <1>5 DEF IInv, Budget, Pick
<1>10. Paging' /\ Staged'
  BY <1>1, <1>3 DEF IInv, Paging, Staged, Pick, rowVars
<1>11. TypeOK'
  BY <1>1, <1>2, <1>5 DEF IInv, TypeOK, Pick, rowVars, dataVars, eventVars
<1> QED
  BY <1>8, <1>9, <1>10, <1>11 DEF IInv

LEMMA CrashStep ==
  ASSUME IInv, Crash
  PROVE  IInv'
<1>1. Idle \in Handlers /\ Idle.pc = "idle" /\ Idle.job = Nobody /\ Idle.fresh = {}
  BY DEF Idle, Handlers, Labels, Stages, Marks
<1>2. \A s \in Slots : run'[s] = Idle
  BY DEF Crash
<1>3. Holding' /\ Paging' /\ Staged'
  BY <1>1, <1>2 DEF Holding, Paging, Staged
<1>4. Budget'
  BY DEF IInv, Budget, Crash
<1>5. TypeOK'
  BY <1>1, BoundAssumption DEF IInv, TypeOK, Crash, rowVars, dataVars, eventVars
<1> QED
  BY <1>3, <1>4, <1>5 DEF IInv

\* The dispatcher and the stall checker touch entries no handler holds.
LEMMA QueueStep ==
  ASSUME IInv, NEW j \in Jobs, NEW q \in QueueStates, queue' = [queue EXCEPT ![j] = q],
         queue[j].state # "active" \/ (\A s \in Slots : run[s].job # j) \/ q = queue[j],
         q.state \in {"waiting", "active"} => q.attempts < MaxAttempts /\ q.stalls <= MaxStalls,
         UNCHANGED <<run, ckpt, stage>>
  PROVE  Holding' /\ Budget' /\ Paging' /\ Staged' /\ queue' \in [Jobs -> QueueStates]
<1>1. queue' \in [Jobs -> QueueStates] /\ \A i \in Jobs : queue'[i] = IF i = j THEN q ELSE queue[i]
  BY DEF IInv, TypeOK
<1>2. \A s \in Slots : run[s].job # Nobody => run[s].job \in Jobs
  BY DEF IInv, TypeOK, Handlers
<1>3. \A s \in Slots : run[s].job # Nobody => queue'[run[s].job].state = "active"
  BY <1>1, <1>2 DEF IInv, Holding
<1>4. Holding'
  BY <1>3 DEF IInv, Holding
<1>5. Budget'
  BY <1>1 DEF IInv, Budget
<1>6. Paging' /\ Staged'
  BY DEF IInv, Paging, Staged
<1> QED
  BY <1>1, <1>4, <1>5, <1>6

LEMMA AddToQueueStep ==
  ASSUME IInv, NEW j \in Jobs, AddToQueue(j)
  PROVE  IInv'
<1> DEFINE q == Enqueued(queue[j])
<1>1. queue[j] \in QueueStates
  BY DEF IInv, TypeOK
<1>2. CASE queue[j].state = "none"
  <2>1. q \in QueueStates /\ q.attempts < MaxAttempts /\ q.stalls <= MaxStalls
    BY <1>2, BoundAssumption DEF Enqueued, NotQueued, QueueStates
  <2>2. queue' = [queue EXCEPT ![j] = q] /\ UNCHANGED <<run, ckpt, stage>> /\ queue[j].state # "active"
    BY <1>2 DEF AddToQueue, rowVars
  <2>3. Holding' /\ Budget' /\ Paging' /\ Staged' /\ queue' \in [Jobs -> QueueStates]
    <3> HIDE DEF q
    <3> QED
      BY <2>1, <2>2, QueueStep
  <2> QED
    BY <2>3 DEF IInv, TypeOK, AddToQueue, rowVars, dataVars, eventVars
<1>3. CASE queue[j].state # "none"
  <2>1. q = queue[j] /\ queue' = queue
    BY <1>3 DEF Enqueued, AddToQueue, IInv, TypeOK
  <2> QED
    BY <2>1 DEF IInv, TypeOK, Holding, Budget, Paging, Staged, AddToQueue, rowVars, dataVars, eventVars
<1> QED
  BY <1>2, <1>3

LEMMA StalledStep ==
  ASSUME IInv, NEW j \in Jobs, Stalled(j)
  PROVE  IInv'
<1> DEFINE old == queue[j]
           more == queue[j].stalls + 1
           next == IF queue[j].stalls = MaxStalls THEN "failed" ELSE "waiting"
           q == [old EXCEPT !.stalls = more, !.state = next]
<1>1. /\ queue[j] \in QueueStates /\ queue \in [Jobs -> QueueStates]
      /\ queue[j].attempts < MaxAttempts /\ queue[j].stalls <= MaxStalls
  BY DEF IInv, TypeOK, Budget, Stalled
<1>2. queue' = [queue EXCEPT ![j] = q]
  BY <1>1 DEF Stalled
<1>3. q \in QueueStates /\ (q.state \in {"waiting", "active"} => q.attempts < MaxAttempts /\ q.stalls <= MaxStalls)
  <2>1. queue[j].stalls \in Nat
    BY <1>1 DEF QueueStates
  <2>2. more \in 0..(MaxStalls + 1) /\ (next = "waiting" => more <= MaxStalls) /\ next \in {"failed", "waiting"}
    BY <1>1, <2>1, BoundAssumption
  <2> HIDE DEF old, more, next
  <2>3. old \in QueueStates /\ old.attempts < MaxAttempts
    BY <1>1 DEF old
  <2>4. q \in QueueStates /\ q.state = next /\ q.stalls = more /\ q.attempts = old.attempts
    BY <2>2, <2>3 DEF QueueStates
  <2> QED
    BY <2>2, <2>3, <2>4
<1> HIDE DEF q
<1>4. Holding' /\ Budget' /\ Paging' /\ Staged' /\ queue' \in [Jobs -> QueueStates]
  BY <1>2, <1>3, QueueStep DEF Stalled, J, rowVars
<1> QED
  BY <1>4 DEF IInv, TypeOK, Stalled, rowVars, dataVars, eventVars

LEMMA OtherSteps ==
  ASSUME IInv, ReadPending \/ \E j \in Jobs : Create(j) \/ Cancel(j) \/ AddFails(j)
  PROVE  IInv'
<1>1. UNCHANGED <<run, ckpt, stage, queue>>
  BY DEF ReadPending, Create, Cancel, AddFails, rowVars
<1>2. Holding' /\ Budget' /\ Paging' /\ Staged'
  BY <1>1 DEF IInv, Holding, Budget, Paging, Staged
<1>3. TypeOK'
  <2>1. CASE ReadPending
    BY <2>1 DEF IInv, TypeOK, ReadPending, rowVars, dataVars, eventVars
  <2>2. ASSUME NEW j \in Jobs, Create(j)
        PROVE  TypeOK'
    BY <2>2 DEF IInv, TypeOK, Create, dataVars, eventVars
  <2>3. ASSUME NEW j \in Jobs, Cancel(j)
        PROVE  TypeOK'
    BY <2>3 DEF IInv, TypeOK, Cancel, dataVars, eventVars
  <2>4. ASSUME NEW j \in Jobs, AddFails(j)
        PROVE  TypeOK'
    BY <2>4, BoundAssumption DEF IInv, TypeOK, AddFails, rowVars, dataVars, eventVars
  <2> QED
    BY <2>1, <2>2, <2>3, <2>4
<1> QED
  BY <1>2, <1>3 DEF IInv

-----------------------------------------------------------------------------
\* Initially nothing is queued and every slot is idle.
LEMMA Initially == Init => IInv
<1> SUFFICES ASSUME Init
             PROVE  IInv
  OBVIOUS
<1>1. Idle \in Handlers /\ Idle.pc = "idle" /\ Idle.job = Nobody /\ Idle.fresh = {}
  BY DEF Idle, Handlers, Labels, Stages, Marks
<1>2. NotQueued \in QueueStates /\ NotQueued.state = "none"
  BY BoundAssumption DEF NotQueued, QueueStates
<1>3. TypeOK
  <2>1. ckpt \in [Jobs -> [Units -> Marks]]
    BY DEF Init, Marks
  <2>2. run \in [Slots -> Handlers] /\ queue \in [Jobs -> QueueStates]
    BY <1>1, <1>2 DEF Init
  <2>3. crashes \in 0..MaxCrashes /\ faults \in 0..MaxFaults
    BY BoundAssumption DEF Init
  <2>4. stage \in [Jobs -> Stages]
    BY DEF Init, Stages
  <2>5. found \in [Jobs -> SUBSET (Notes \cup Comments)]
    BY DEF Init
  <2> QED
    BY <2>1, <2>2, <2>3, <2>4, <2>5 DEF Init, TypeOK
<1>4. Holding /\ Budget /\ Paging /\ Staged
  BY <1>1, <1>2 DEF Init, Holding, Budget, Paging, Staged
<1> QED
  BY <1>3, <1>4 DEF IInv

\* A page of comments delivers comments only.
LEMMA SavesPageStep ==
  ASSUME IInv, NEW s \in Slots, SavesPage(s)
  PROVE  IInv'
<1>1. PICK next \in Cursors \cup {Done} :
        \/ \E items \in SUBSET Notes : SaveNotesPage(s, next, items)
        \/ \E items \in SUBSET {k \in Comments : run[s].unit = <<"comments", NoteOf[k]>>} :
             SaveCommentsPage(s, next, items)
        \/ SaveRepliesPage(s, next)
  BY DEF SavesPage
<1>2. CASE \E items \in SUBSET Notes : SaveNotesPage(s, next, items)
  BY <1>2, SaveNotesPageStep
<1>3. CASE \E items \in SUBSET {k \in Comments : run[s].unit = <<"comments", NoteOf[k]>>} :
             SaveCommentsPage(s, next, items)
  <2>1. PICK items \in SUBSET {k \in Comments : run[s].unit = <<"comments", NoteOf[k]>>} :
          SaveCommentsPage(s, next, items)
    BY <1>3
  <2>2. items \in SUBSET Comments
    OBVIOUS
  <2> QED
    BY <2>1, <2>2, SaveCommentsPageStep
<1>4. CASE SaveRepliesPage(s, next)
  BY <1>4, SaveRepliesPageStep
<1> QED
  BY <1>1, <1>2, <1>3, <1>4

LEMMA ProgressStep ==
  ASSUME IInv, NEW s \in Slots, Progress(s)
  PROVE  IInv'
<1>1. CASE StartJob(s) \/ Authorize(s) \/ Enter(s) \/ AskSynced(s) \/ AskCapability(s) \/ Advance(s) \/ Complete(s)
  BY <1>1, StartJobStep, AuthorizeStep, EnterStep, AsksStep, AdvanceStep, CompleteStep
<1>2. CASE \E u \in run[s].todo : MarkUnavailable(s, u) \/ Open(s, u)
  BY <1>2, MarkUnavailableStep, OpenStep
<1>3. CASE SavesPage(s) \/ SaveMetrics(s)
  BY <1>3, SavesPageStep, SaveMetricsStep
<1>4. CASE \E k \in run[s].fresh : Announce(s, k)
  BY <1>4, AnnounceStep
<1>5. CASE MarkIncomplete(s) \/ RecordFailure(s) \/ Return(s) \/ Throw(s)
  BY <1>5, MarkIncompleteStep, RecordFailureStep, ReturnStep, ThrowStep
<1> QED
  BY <1>1, <1>2, <1>3, <1>4, <1>5 DEF Progress

LEMMA FailureStep ==
  ASSUME IInv, NEW s \in Slots, Failure(s)
  PROVE  IInv'
BY StartFailsStep, DatabaseFailsStep, RecordingFailsStep, CallFailsStep DEF Failure

\* The invariant is inductive.
LEMMA Inductive == IInv /\ [Next]_vars => IInv'
<1> SUFFICES ASSUME IInv, [Next]_vars
             PROVE  IInv'
  OBVIOUS
<1>1. ASSUME NEW j \in Jobs, Create(j) \/ Cancel(j) \/ AddToQueue(j) \/ AddFails(j) \/ Stalled(j)
      PROVE  IInv'
  BY <1>1, OtherSteps, AddToQueueStep, StalledStep
<1>2. CASE ReadPending
  BY <1>2, OtherSteps
<1>3. ASSUME NEW s \in Slots, Progress(s) \/ Failure(s) \/ \E j \in Jobs : Pick(s, j)
      PROVE  IInv'
  BY <1>3, ProgressStep, FailureStep, PickStep
<1>4. CASE Crash
  BY <1>4, CrashStep
<1>5. CASE UNCHANGED vars
  BY <1>5 DEF vars, rowVars, dataVars, eventVars, IInv, TypeOK, Holding, Budget, Paging, Staged
<1> QED
  BY <1>1, <1>2, <1>3, <1>4, <1>5 DEF Next

\* Every reachable state satisfies the inductive invariant.
THEOREM Invariance == Spec => []IInv
  BY Initially, Inductive, PTL DEF Spec

\* Every variable keeps its type; in particular no retry and no stall takes a
\* queue job past its limits.
THEOREM TypeCorrect == Spec => []TypeOK
<1>1. IInv => TypeOK
  BY DEF IInv
<1> QED
  BY <1>1, Invariance, PTL

\* No two attempts of one job ever overlap (ExclusiveRun): retries, stalls and
\* late adds by the dispatcher never hand out an entry that is being worked on.
THEOREM OneRunPerJob == Spec => []ExclusiveRun
<1>1. IInv => ExclusiveRun
  BY DEF IInv, Holding, ExclusiveRun, J
<1> QED
  BY <1>1, Invariance, PTL

\* A handler always pages from the durable cursor (ResumePoint).
THEOREM ResumesAtCheckpoint == Spec => []ResumePoint
<1>1. IInv => ResumePoint
  BY DEF IInv, Paging, ResumePoint, J
<1> QED
  BY <1>1, Invariance, PTL

-----------------------------------------------------------------------------
\* The only writes to checkpoints are those of a page in hand.
LEMMA CheckpointWrites ==
  ASSUME IInv, Next
  PROVE  \/ UNCHANGED ckpt
         \/ \E s \in Slots, m \in Marks : /\ run[s].pc = "page"
                                        /\ ckpt' = [ckpt EXCEPT ![run[s].job][run[s].unit] = m]
<1>1. ASSUME NEW s \in Slots, SavesPage(s) \/ SaveMetrics(s)
      PROVE  \E m \in Marks : run[s].pc = "page" /\ ckpt' = [ckpt EXCEPT ![run[s].job][run[s].unit] = m]
  BY <1>1 DEF SavesPage, SaveNotesPage, SaveCommentsPage, SaveRepliesPage, SavePage, SaveMetrics, AtStage, At, J, Marks
<1>2. ASSUME NEW s \in Slots, Progress(s), ~SavesPage(s), ~SaveMetrics(s)
      PROVE  UNCHANGED ckpt
  BY <1>2 DEF Progress, StartJob, Authorize, Enter, AskSynced, AskCapability, Advance, Complete, MarkUnavailable,
              Open, Announce,
              MarkIncomplete, RecordFailure, Return, Throw
<1>3. ASSUME NEW s \in Slots, Failure(s) \/ \E j \in Jobs : Pick(s, j)
      PROVE  UNCHANGED ckpt
  BY <1>3 DEF Failure, StartFails, DatabaseFails, RecordingFails, CallFails, Pick
<1>4. ASSUME NEW j \in Jobs, Create(j) \/ Cancel(j) \/ AddToQueue(j) \/ AddFails(j) \/ Stalled(j)
      PROVE  UNCHANGED ckpt
  BY <1>4 DEF Create, Cancel, AddToQueue, AddFails, Stalled
<1>5. CASE ReadPending \/ Crash
  BY <1>5 DEF ReadPending, Crash
<1> QED
  BY <1>1, <1>2, <1>3, <1>4, <1>5 DEF Next

\* A handler pages only through units whose durable checkpoint is not completed.
LEMMA DoneKept ==
  ASSUME IInv, [Next]_vars, NEW j \in Jobs, NEW u \in Units, ckpt[j][u] = Done
  PROVE  ckpt'[j][u] = Done
<1>1. CASE UNCHANGED ckpt
  BY <1>1
<1>2. CASE \E s \in Slots, m \in Marks : /\ run[s].pc = "page"
                                        /\ ckpt' = [ckpt EXCEPT ![run[s].job][run[s].unit] = m]
  <2>1. PICK s \in Slots, m \in Marks : /\ run[s].pc = "page"
                                        /\ ckpt' = [ckpt EXCEPT ![run[s].job][run[s].unit] = m]
    BY <1>2
  <2>2. run[s].job # j \/ run[s].unit # u
    BY <2>1 DEF IInv, Paging
  <2> QED
    BY <2>1, <2>2 DEF IInv, TypeOK
<1> QED
  BY <1>1, <1>2, CheckpointWrites DEF vars

\* A completed checkpoint is never reopened (DoneStaysDone), over all attempts
\* and in every order of two jobs' pages.
THEOREM CheckpointsStayDone == Spec => DoneStaysDone
<1> DEFINE Kept == \A j \in Jobs, u \in Units : ckpt[j][u] = Done => ckpt'[j][u] = Done
<1>1. IInv /\ [Next]_vars => Kept
  BY DoneKept
<1>2. Kept => [Kept]_vars
  OBVIOUS
<1> QED
  BY <1>1, Invariance, PTL DEF Spec, DoneStaysDone

\* Ranks grow from each stage to the next, and from any stage to the last.
LEMMA Ranks ==
  /\ \A st \in Stages : Rank(st) \in 1..6
  /\ Rank("authorize") = 1 /\ Rank("notes") = 2 /\ Rank("complete") = 6
  /\ \A st \in {"notes", "metrics", "comments", "replies"} : Rank(st) <= Rank(Following(st))
BY DEF Rank, Following, Stages

\* The row moves on from the stage its handler works on.
LEMMA StageWrites ==
  ASSUME IInv, Next
  PROVE  \/ UNCHANGED stage
         \/ \E j \in Jobs, st \in Stages : Rank(stage[j]) <= Rank(st) /\ stage' = [stage EXCEPT ![j] = st]
<1>1. ASSUME NEW s \in Slots, Authorize(s)
      PROVE  \E j \in Jobs, st \in Stages : Rank(stage[j]) <= Rank(st) /\ stage' = [stage EXCEPT ![j] = st]
  <2>1. run[s].job \in Jobs /\ stage[run[s].job] = "authorize" /\ stage' = [stage EXCEPT ![run[s].job] = "notes"]
    BY <1>1, HandlerFacts DEF Authorize, AtStage, At, J, IInv, Staged
  <2>2. Rank("authorize") <= Rank("notes") /\ "notes" \in Stages
    BY Ranks DEF Stages
  <2> QED
    BY <2>1, <2>2
<1>2. ASSUME NEW s \in Slots, Advance(s)
      PROVE  \E j \in Jobs, st \in Stages : Rank(stage[j]) <= Rank(st) /\ stage' = [stage EXCEPT ![j] = st]
  <2>1. /\ run[s].job \in Jobs /\ stage[run[s].job] = run[s].at
        /\ run[s].at \in {"notes", "metrics", "comments", "replies"}
        /\ stage' = [stage EXCEPT ![run[s].job] = Following(run[s].at)]
    BY <1>2, HandlerFacts DEF Advance, At, J, IInv, Staged
  <2>2. Following(run[s].at) \in Stages
    BY <2>1 DEF Following, Stages
  <2> QED
    BY <2>1, <2>2, Ranks
<1>3. ASSUME NEW s \in Slots, Complete(s)
      PROVE  \E j \in Jobs, st \in Stages : Rank(stage[j]) <= Rank(st) /\ stage' = [stage EXCEPT ![j] = st]
  <2>1. run[s].job \in Jobs /\ stage[run[s].job] \in Stages /\ stage' = [stage EXCEPT ![run[s].job] = "complete"]
    BY <1>3, HandlerFacts DEF Complete, AtStage, At, J
  <2> DEFINE was == stage[run[s].job]
  <2>2. was \in Stages
    BY <2>1
  <2>3. Rank(was) \in 1..6 /\ Rank("complete") = 6 /\ "complete" \in Stages
    BY <2>2, Ranks DEF Stages
  <2>4. Rank(was) <= Rank("complete")
    BY <2>3
  <2> QED
    BY <2>1, <2>3, <2>4
<1>4. ASSUME NEW s \in Slots, Progress(s), ~Authorize(s), ~Advance(s), ~Complete(s)
      PROVE  UNCHANGED stage
  BY <1>4 DEF Progress, StartJob, Enter, AskSynced, AskCapability, MarkUnavailable, Open, SavesPage, SaveNotesPage,
              SaveCommentsPage,
              SaveRepliesPage, SavePage, SaveMetrics, Announce, MarkIncomplete, RecordFailure, Return, Throw, rowVars
<1>5. ASSUME NEW s \in Slots, Failure(s) \/ \E j \in Jobs : Pick(s, j)
      PROVE  UNCHANGED stage
  BY <1>5 DEF Failure, StartFails, DatabaseFails, RecordingFails, CallFails, Pick, rowVars
<1>6. ASSUME NEW j \in Jobs, Create(j) \/ Cancel(j) \/ AddToQueue(j) \/ AddFails(j) \/ Stalled(j)
      PROVE  UNCHANGED stage
  BY <1>6 DEF Create, Cancel, AddToQueue, AddFails, Stalled, rowVars
<1>7. CASE ReadPending \/ Crash
  BY <1>7 DEF ReadPending, Crash, rowVars
<1> QED
  BY <1>1, <1>2, <1>3, <1>4, <1>5, <1>6, <1>7 DEF Next

\* Across attempts, crashes and repeated runs no job goes back a stage
\* (StageForward): startJob re-enters at the stage the row reached.
THEOREM StagesOnlyAdvance == Spec => StageForward
<1> DEFINE Ahead == \A j \in Jobs : Rank(stage[j]) <= Rank(stage'[j])
<1>1. IInv /\ [Next]_vars => Ahead
  <2> SUFFICES ASSUME IInv, [Next]_vars, NEW j \in Jobs
               PROVE  Rank(stage[j]) <= Rank(stage'[j])
    OBVIOUS
  <2>1. stage \in [Jobs -> Stages] /\ Rank(stage[j]) \in 1..6
    BY Ranks DEF IInv, TypeOK
  <2>2. CASE UNCHANGED stage
    BY <2>1, <2>2
  <2>3. CASE \E i \in Jobs, st \in Stages : Rank(stage[i]) <= Rank(st) /\ stage' = [stage EXCEPT ![i] = st]
    BY <2>1, <2>3
  <2> QED
    BY <2>2, <2>3, StageWrites DEF vars, rowVars
<1>2. Ahead => [Ahead]_vars
  OBVIOUS
<1> QED
  BY <1>1, Invariance, PTL DEF Spec, StageForward

---------------------------------------------------------------------------
(* What a succeeded job, a complete note and a running row are worth, for   *)
(* every value of the constants: SucceededIsComplete, HonestCompleteness    *)
(* and RowAgreesWithQueue of SyncJobs.                                      *)

\* The loop of a stage misses nothing: what the job has found and is not yet
\* read is still to do.  r is a handler, c the checkpoints, f what was found.
LoopOf(r, c, f) == r.pc \in {"open", "page"} =>
  /\ r.at = "notes" => <<"notes", Account>> \in r.todo \/ c[r.job][<<"notes", Account>>] = Done
  /\ r.at = "metrics" => \A n \in f[r.job] \cap Notes : <<"metrics", n>> \in r.todo \/ c[r.job][<<"metrics", n>>] = Done
  /\ r.at = "replies" => \A k \in f[r.job] \cap Comments : <<"replies", k>> \in r.todo \/ c[r.job][<<"replies", k>>] = Done

\* The comments loop is over notes, and a page is one of the loop's units.
PlaceOf(r) ==
  /\ r.pc \in {"synced", "capable", "open", "page", "mark"} /\ r.at = "comments" => r.todo \subseteq {"comments"} \X Notes
  /\ r.pc = "page" => r.unit \in r.todo
  /\ r.pc \in {"synced", "capable", "mark"} => r.at = "comments"

\* A handler at work has seen no repeated cursor.
VerifiedOf(r, v) == r.pc \in {"enter", "synced", "capable", "open", "page", "mark"} => v[r.job] = "verified"

HandlersOK == \A s \in Slots :
  LoopOf(run[s], ckpt, found) /\ PlaceOf(run[s]) /\ VerifiedOf(run[s], verification)

\* What the stages behind a job have finished.
Followed(j) ==
  /\ stage[j] \in {"metrics", "comments", "replies", "complete"} => ckpt[j][<<"notes", Account>>] = Done
  /\ stage[j] \in {"comments", "replies", "complete"} => \A n \in found[j] \cap Notes : ckpt[j][<<"metrics", n>>] = Done
  /\ stage[j] = "complete" => \A k \in found[j] \cap Comments : ckpt[j][<<"replies", k>>] = Done

\* Later stages find in the tables all that the job's pages delivered.
Kept(j) == found[j] \cap Notes \subseteq notesDb /\ found[j] \cap Comments \subseteq commentsDb

RowOK(j) == status[j] = "succeeded" => verification[j] = "verified" /\ ended[j] /\ stage[j] = "complete"

JobsOK == \A j \in Jobs : Followed(j) /\ Kept(j) /\ RowOK(j)

CInv == HandlersOK /\ JobsOK

\* DoneStaysDone of one step.
Keeps == \A j \in Jobs, u \in Units : ckpt[j][u] = Done => ckpt'[j][u] = Done

-----------------------------------------------------------------------------
\* A slot that goes on as r, on a job whose data it alone may have changed.
LEMMA LoopStep ==
  ASSUME IInv, CInv, NEW s \in Slots, NEW r \in Handlers, run[s].pc # "idle", Goto(s, r),
         \A j \in Jobs \ {run[s].job} : ckpt'[j] = ckpt[j] /\ found'[j] = found[j] /\ verification'[j] = verification[j],
         LoopOf(r, ckpt', found'), PlaceOf(r), VerifiedOf(r, verification')
  PROVE  HandlersOK'
<1>1. run'[s] = r /\ \A t \in Slots \ {s} : run'[t] = run[t]
  BY DEF Goto, IInv, TypeOK
<1>2. \A t \in Slots \ {s} : run[t].pc # "idle" => run[t].job \in Jobs \ {run[s].job}
  BY HandlerFacts DEF IInv, Holding
<1>3. ASSUME NEW t \in Slots
      PROVE  LoopOf(run'[t], ckpt', found') /\ PlaceOf(run'[t]) /\ VerifiedOf(run'[t], verification')
  <2>1. CASE t = s
    BY <1>1, <2>1
  <2>2. CASE t # s /\ run[t].pc # "idle"
    BY <1>1, <1>2, <2>2 DEF CInv, HandlersOK, LoopOf, PlaceOf, VerifiedOf
  <2>3. CASE t # s /\ run[t].pc = "idle"
    BY <1>1, <2>3 DEF LoopOf, PlaceOf, VerifiedOf
  <2> QED
    BY <2>1, <2>2, <2>3
<1> QED
  BY <1>3 DEF HandlersOK

\* A slot that leaves the loops, or takes a job.
LEMMA LeaveStep ==
  ASSUME IInv, CInv, NEW s \in Slots, NEW r, Goto(s, r), r.pc \notin {"enter", "synced", "capable", "open", "page", "mark"},
         UNCHANGED <<ckpt, found, verification>>
  PROVE  HandlersOK'
<1>1. run'[s] = r /\ \A t \in Slots \ {s} : run'[t] = run[t]
  BY DEF Goto, IInv, TypeOK
<1> QED
  BY <1>1 DEF CInv, HandlersOK, LoopOf, PlaceOf, VerifiedOf

\* A job whose stage stands still and whose row does not become succeeded.
LEMMA JobKept ==
  ASSUME NEW j \in Jobs, Followed(j), Kept(j), RowOK(j), IInv, Keeps,
         stage'[j] = stage[j], found'[j] = found[j], notesDb \subseteq notesDb', commentsDb \subseteq commentsDb',
         status'[j] = "succeeded" =>
           status[j] = "succeeded" /\ verification'[j] = verification[j] /\ ended'[j] = ended[j]
  PROVE  Followed(j)' /\ Kept(j)' /\ RowOK(j)'
<1>1. found[j] \subseteq Notes \cup Comments
  BY DEF IInv, TypeOK
<1>2. /\ <<"notes", Account>> \in Units
      /\ \A n \in Notes : <<"metrics", n>> \in Units
      /\ \A k \in Comments : <<"replies", k>> \in Units
  BY DEF Units
<1>3. Followed(j)'
  BY <1>2 DEF Followed, Keeps
<1>4. Kept(j)' /\ RowOK(j)'
  BY DEF Kept, RowOK
<1> QED
  BY <1>3, <1>4

LEMMA JobsKept ==
  ASSUME IInv, CInv, UNCHANGED <<status, verification, ended, stage, ckpt, found, notesDb, commentsDb>>
  PROVE  JobsOK'
BY DEF CInv, JobsOK, Followed, Kept, RowOK

-----------------------------------------------------------------------------
(* The steps of a run. *)

LEMMA StartJobCompletes ==
  ASSUME IInv, CInv, Keeps, NEW s \in Slots, StartJob(s)
  PROVE  CInv'
<1> DEFINE r == [run[s] EXCEPT !.pc = "enter", !.at = ResumeStage(J(s))]
<1>1. run[s].pc # "idle" /\ Goto(s, r) /\ run[s].job \in Jobs
  BY HandlerFacts DEF StartJob, At
<1>2. r \in Handlers /\ r.pc = "enter" /\ r.job = run[s].job
  BY <1>1, HandlerFacts DEF Handlers, Labels, ResumeStage, J
<1>3. /\ verification'[run[s].job] = "verified" /\ status'[run[s].job] = "running"
      /\ \A j \in Jobs \ {run[s].job} :
           verification'[j] = verification[j] /\ status'[j] = status[j] /\ ended'[j] = ended[j]
  BY <1>1 DEF StartJob, J, IInv, TypeOK
<1>4. UNCHANGED <<stage, ckpt, found, notesDb, commentsDb>>
  BY DEF StartJob, dataVars
<1>5. HandlersOK'
  <2>1. LoopOf(r, ckpt', found') /\ PlaceOf(r) /\ VerifiedOf(r, verification')
    BY <1>2, <1>3 DEF LoopOf, PlaceOf, VerifiedOf
  <2> HIDE DEF r
  <2> QED
    BY <1>1, <1>2, <1>3, <1>4, <2>1, LoopStep
<1>6. ASSUME NEW j \in Jobs
      PROVE  Followed(j)' /\ Kept(j)' /\ RowOK(j)'
  BY <1>3, <1>4, JobKept DEF CInv, JobsOK
<1> QED
  BY <1>5, <1>6 DEF CInv, JobsOK

LEMMA AuthorizeCompletes ==
  ASSUME IInv, CInv, Keeps, NEW s \in Slots, Authorize(s)
  PROVE  CInv'
<1> DEFINE r == [run[s] EXCEPT !.at = "notes"]
<1>1. run[s].pc = "enter" /\ run[s].at = "authorize" /\ Goto(s, r) /\ run[s].job \in Jobs
  BY HandlerFacts DEF Authorize, AtStage, At
<1>2. r \in Handlers /\ r.pc = "enter" /\ r.job = run[s].job
  BY <1>1, HandlerFacts DEF Handlers, Stages
<1>3. /\ stage[run[s].job] = "authorize" /\ stage'[run[s].job] = "notes"
      /\ \A j \in Jobs \ {run[s].job} : stage'[j] = stage[j]
  BY <1>1 DEF Authorize, J, IInv, TypeOK, Staged
<1>4. UNCHANGED <<status, verification, ended, ckpt, found, notesDb, commentsDb>>
  BY DEF Authorize
<1>5. HandlersOK'
  <2>1. LoopOf(r, ckpt', found') /\ PlaceOf(r) /\ VerifiedOf(r, verification')
    BY <1>1, <1>2, <1>4 DEF CInv, HandlersOK, LoopOf, PlaceOf, VerifiedOf
  <2> HIDE DEF r
  <2> QED
    BY <1>1, <1>2, <1>4, <2>1, LoopStep
<1>6. ASSUME NEW j \in Jobs
      PROVE  Followed(j)' /\ Kept(j)' /\ RowOK(j)'
  <2>1. CASE j = run[s].job
    BY <1>3, <1>4, <2>1 DEF CInv, JobsOK, Followed, Kept, RowOK
  <2>2. CASE j # run[s].job
    BY <1>3, <1>4, <2>2, JobKept DEF CInv, JobsOK
  <2> QED
    BY <2>1, <2>2
<1> QED
  BY <1>5, <1>6 DEF CInv, JobsOK

\* A stage starts with all the rows there are, the job's own among them.
LEMMA EnterCompletes ==
  ASSUME IInv, CInv, NEW s \in Slots, Enter(s)
  PROVE  CInv'
<1> DEFINE units == UnitsOf(run[s].at)
           label == IF run[s].at = "comments" THEN "synced" ELSE "open"
           r == [run[s] EXCEPT !.todo = units, !.pc = label]
<1>1. run[s].pc = "enter" /\ run[s].at \in {"notes", "metrics", "comments", "replies"} /\ Goto(s, r) /\ run[s].job \in Jobs
  BY HandlerFacts DEF Enter, At
<1>2. UNCHANGED <<status, verification, ended, stage, ckpt, found, notesDb, commentsDb>>
  BY DEF Enter, rowVars, dataVars
<1>3. label \in {"open", "synced"} /\ (label = "synced" => run[s].at = "comments")
  OBVIOUS
<1>4. units \in SUBSET Units
  BY <1>1 DEF IInv, TypeOK, UnitsOf, Units
<1>5. /\ run[s].at = "notes" => <<"notes", Account>> \in units
      /\ run[s].at = "metrics" => \A n \in found[run[s].job] \cap Notes : <<"metrics", n>> \in units
      /\ run[s].at = "comments" => units \subseteq {"comments"} \X Notes
      /\ run[s].at = "replies" => \A k \in found[run[s].job] \cap Comments : <<"replies", k>> \in units
  BY <1>1 DEF UnitsOf, CInv, JobsOK, Kept, IInv, TypeOK
<1> HIDE DEF units, label
<1>6. /\ r \in Handlers /\ r.pc = label /\ r.job = run[s].job /\ r.at = run[s].at /\ r.todo = units
  <2>1. run[s] \in Handlers
    BY <1>1, HandlerFacts
  <2>2. label \in Labels
    BY <1>3 DEF Labels
  <2> QED
    BY <1>4, <2>1, <2>2 DEF Handlers
<1>7. LoopOf(r, ckpt', found') /\ PlaceOf(r) /\ VerifiedOf(r, verification')
  BY <1>1, <1>2, <1>3, <1>5, <1>6 DEF CInv, HandlersOK, LoopOf, PlaceOf, VerifiedOf
<1> HIDE DEF r
<1>8. HandlersOK'
  BY <1>1, <1>2, <1>6, <1>7, LoopStep
<1> QED
  BY <1>2, <1>8, JobsKept DEF CInv

LEMMA AsksCompletes ==
  ASSUME IInv, CInv, NEW s \in Slots, AskSynced(s) \/ AskCapability(s)
  PROVE  CInv'
<1> DEFINE notify == IF AskSynced(s) THEN SyncedBefore(J(s)) ELSE run[s].notify
           label == IF AskSynced(s) THEN "capable" ELSE IF commentsOn THEN "open" ELSE "mark"
           r == [run[s] EXCEPT !.notify = notify, !.pc = label]
<1>1. run[s].pc \in {"synced", "capable"} /\ run[s] \in Handlers /\ run[s].job \in Jobs
  BY HandlerFacts DEF AskSynced, AskCapability, At
<1>2. Goto(s, r)
  <2>1. CASE AskSynced(s)
    BY <2>1 DEF AskSynced
  <2>2. CASE ~AskSynced(s)
    BY <1>1, <2>2 DEF AskCapability, Handlers, Goto
  <2> QED
    BY <2>1, <2>2
<1>3. notify \in BOOLEAN /\ label \in {"capable", "open", "mark"}
  BY <1>1 DEF SyncedBefore, Handlers
<1> HIDE DEF notify, label
<1>4. r \in Handlers /\ r.pc = label /\ r.job = run[s].job /\ r.at = run[s].at /\ r.todo = run[s].todo
  BY <1>1, <1>3 DEF Handlers, Labels
<1> HIDE DEF r
<1>5. UNCHANGED <<status, verification, ended, stage, ckpt, found, notesDb, commentsDb>>
  BY DEF AskSynced, AskCapability, rowVars, dataVars
<1>6. LoopOf(r, ckpt', found') /\ PlaceOf(r) /\ VerifiedOf(r, verification')
  BY <1>1, <1>3, <1>4, <1>5 DEF CInv, HandlersOK, LoopOf, PlaceOf, VerifiedOf
<1>7. HandlersOK'
  BY <1>1, <1>2, <1>4, <1>5, <1>6, LoopStep
<1> QED
  BY <1>5, <1>7, JobsKept DEF CInv

LEMMA MarkUnavailableCompletes ==
  ASSUME IInv, CInv, NEW s \in Slots, NEW u \in run[s].todo, MarkUnavailable(s, u)
  PROVE  CInv'
<1> DEFINE rest == run[s].todo \ {u}
           r == [run[s] EXCEPT !.todo = rest]
<1>1. run[s].pc = "mark" /\ Goto(s, r) /\ run[s].job \in Jobs
  BY HandlerFacts DEF MarkUnavailable, At
<1>2. UNCHANGED <<status, verification, ended, stage, ckpt, found, notesDb, commentsDb>>
  BY DEF MarkUnavailable, rowVars
<1>3. rest \in SUBSET Units /\ rest \subseteq run[s].todo
  BY <1>1, HandlerFacts DEF Handlers
<1> HIDE DEF rest
<1>4. r \in Handlers /\ r.pc = "mark" /\ r.job = run[s].job /\ r.at = run[s].at /\ r.todo = rest
  BY <1>1, <1>3, HandlerFacts DEF Handlers
<1>5. LoopOf(r, ckpt', found') /\ PlaceOf(r) /\ VerifiedOf(r, verification')
  BY <1>1, <1>2, <1>3, <1>4 DEF CInv, HandlersOK, LoopOf, PlaceOf, VerifiedOf
<1> HIDE DEF r
<1>6. HandlersOK'
  BY <1>1, <1>2, <1>4, <1>5, LoopStep
<1> QED
  BY <1>2, <1>6, JobsKept DEF CInv

\* Only a unit that is done leaves the loop unread.
LEMMA OpenCompletes ==
  ASSUME IInv, CInv, NEW s \in Slots, NEW u \in run[s].todo, Open(s, u)
  PROVE  CInv'
<1> DEFINE mark == ckpt[run[s].job][u]
           rest == run[s].todo \ {u}
           skip == [run[s] EXCEPT !.todo = rest]
           seen == {mark} \ {Absent}
           read == [run[s] EXCEPT !.pc = "page", !.unit = u, !.cursor = mark, !.seen = seen]
<1>1. run[s].pc = "open" /\ run[s] \in Handlers /\ run[s].job \in Jobs /\ u \in Units /\ mark \in Marks
  BY HandlerFacts DEF Open, At, Handlers
<1>2. UNCHANGED <<status, verification, ended, stage, ckpt, found, notesDb, commentsDb>>
  BY DEF Open, rowVars, dataVars
<1>3. HandlersOK'
  <2>1. CASE mark = Done
    <3>1. Goto(s, skip)
      BY <2>1 DEF Open, ResumeMark, J
    <3>2. skip \in Handlers /\ skip.pc = "open" /\ skip.job = run[s].job /\ skip.at = run[s].at /\ skip.todo = rest
      BY <1>1 DEF Handlers
    <3>3. LoopOf(skip, ckpt', found') /\ PlaceOf(skip) /\ VerifiedOf(skip, verification')
      BY <1>1, <1>2, <2>1, <3>2 DEF CInv, HandlersOK, LoopOf, PlaceOf, VerifiedOf
    <3> HIDE DEF skip
    <3> QED
      BY <1>1, <1>2, <3>1, <3>2, <3>3, LoopStep
  <2>2. CASE mark # Done
    <3>1. Goto(s, read)
      BY <2>2 DEF Open, ResumeMark, J
    <3>2. seen \in SUBSET Cursors
      BY <1>1, <2>2 DEF Marks
    <3>3. /\ read \in Handlers /\ read.pc = "page" /\ read.job = run[s].job /\ read.at = run[s].at
          /\ read.unit = u /\ read.todo = run[s].todo
      <4> HIDE DEF seen, mark
      <4> QED
        BY <1>1, <3>2 DEF Handlers, Labels
    <3>4. LoopOf(read, ckpt', found') /\ PlaceOf(read) /\ VerifiedOf(read, verification')
      BY <1>1, <1>2, <3>3 DEF CInv, HandlersOK, LoopOf, PlaceOf, VerifiedOf
    <3> HIDE DEF read
    <3> QED
      BY <1>1, <1>2, <3>1, <3>3, <3>4, LoopStep
  <2> QED
    BY <2>1, <2>2
<1> QED
  BY <1>2, <1>3, JobsKept DEF CInv
-----------------------------------------------------------------------------
(* A page. *)

\* The handler after a page: it keeps its loop, drops the unit it finished,
\* or has noticed a repeated cursor.
Looped(s, r, next) ==
  /\ r \in Handlers /\ r.job = run[s].job /\ r.at = run[s].at
  /\ r.pc \in {"return", "open", "page"}
  /\ r.pc = "return" <=> next \in run[s].seen
  /\ r.pc = "open" => next = Done /\ r.todo = run[s].todo \ {run[s].unit}
  /\ r.pc = "page" => r.todo = run[s].todo /\ r.unit = run[s].unit

LEMMA AfterPageLoops ==
  ASSUME NEW s \in Slots, run[s] \in Handlers, run[s].pc = "page", NEW next \in Cursors \cup {Done},
         NEW events \in SUBSET Comments
  PROVE  /\ Looped(s, AfterPage(run[s], next), next)
         /\ Looped(s, [AfterPage(run[s], next) EXCEPT !.fresh = events], next)
<1> DEFINE r == AfterPage(run[s], next)
<1>1. Idle \in Handlers
  BY DEF Idle, Handlers, Labels, Stages, Marks
<1>2. r \in Handlers
  BY AfterPageTurns DEF Turned
<1>3. Looped(s, r, next)
  <2>1. CASE next \in run[s].seen
    <3>1. r = [Idle EXCEPT !.pc = "return", !.job = run[s].job, !.at = run[s].at]
      BY <2>1 DEF AfterPage
    <3>2. r.pc = "return" /\ r.job = run[s].job /\ r.at = run[s].at
      BY <1>1, <3>1 DEF Handlers
    <3> QED
      BY <1>2, <2>1, <3>2 DEF Looped
  <2>2. CASE next \notin run[s].seen /\ next = Done
    <3> DEFINE rest == run[s].todo \ {run[s].unit}
               notify == run[s].notify
    <3>1. r = [Idle EXCEPT !.pc = "open", !.job = run[s].job, !.at = run[s].at,
                           !.notify = notify, !.todo = rest]
      BY <2>2 DEF AfterPage
    <3>2. r.pc = "open" /\ r.job = run[s].job /\ r.at = run[s].at /\ r.todo = rest
      <4> HIDE DEF rest, notify
      <4> QED
        BY <1>1, <3>1 DEF Handlers
    <3> QED
      BY <1>2, <2>2, <3>2 DEF Looped
  <2>3. CASE next \notin run[s].seen /\ next # Done
    <3> DEFINE more == run[s].seen \cup {next}
    <3>1. r = [run[s] EXCEPT !.cursor = next, !.seen = more]
      BY <2>3 DEF AfterPage
    <3>2. r.pc = "page" /\ r.job = run[s].job /\ r.at = run[s].at /\ r.todo = run[s].todo /\ r.unit = run[s].unit
      <4> HIDE DEF more
      <4> QED
        BY <3>1 DEF Handlers
    <3> QED
      BY <1>2, <2>3, <3>2 DEF Looped
  <2> QED
    BY <2>1, <2>2, <2>3
<1> HIDE DEF r
<1>4. Looped(s, [r EXCEPT !.fresh = events], next)
  BY <1>3 DEF Looped, Handlers
<1> QED
  BY <1>3, <1>4 DEF r

\* Pages of the stages that loop over found entities find no more of them.
LEMMA PageLoops ==
  ASSUME IInv, CInv, Keeps, NEW s \in Slots, run[s].pc = "page", NEW next \in Cursors \cup {Done}, NEW r,
         Goto(s, r), Looped(s, r, next), ckpt' = [ckpt EXCEPT ![run[s].job][run[s].unit] = next],
         \A j \in Jobs \ {run[s].job} : found'[j] = found[j] /\ verification'[j] = verification[j],
         next \notin run[s].seen => verification' = verification,
         run[s].at = "metrics" => found'[run[s].job] \cap Notes = found[run[s].job] \cap Notes,
         run[s].at = "replies" => found'[run[s].job] \cap Comments = found[run[s].job] \cap Comments
  PROVE  HandlersOK'
<1>1. run[s] \in Handlers /\ run[s].job \in Jobs /\ run[s].unit \in Units
  BY HandlerFacts DEF IInv, Paging
<1>2. ckpt \in [Jobs -> [Units -> Marks]]
  BY DEF IInv, TypeOK
<1>3. ckpt'[run[s].job][run[s].unit] = next /\ \A j \in Jobs \ {run[s].job} : ckpt'[j] = ckpt[j]
  BY <1>1, <1>2
<1>4. \A u \in Units : ckpt[run[s].job][u] = Done => ckpt'[run[s].job][u] = Done
  BY <1>1 DEF Keeps
<1>5. \A u \in Units : r.pc \in {"open", "page"} /\ (u \in run[s].todo \/ ckpt[run[s].job][u] = Done) =>
                      u \in r.todo \/ ckpt'[run[s].job][u] = Done
  BY <1>3, <1>4 DEF Looped
<1>6. /\ <<"notes", Account>> \in Units
      /\ \A n \in Notes : <<"metrics", n>> \in Units
      /\ \A k \in Comments : <<"replies", k>> \in Units
  BY DEF Units
<1>7. LoopOf(r, ckpt', found')
  BY <1>5, <1>6 DEF CInv, HandlersOK, LoopOf, Looped
<1>8. PlaceOf(r)
  BY DEF CInv, HandlersOK, PlaceOf, Looped
<1>9. VerifiedOf(r, verification')
  BY DEF CInv, HandlersOK, VerifiedOf, Looped
<1>10. r \in Handlers
  BY DEF Looped
<1> QED
  BY <1>1, <1>3, <1>7, <1>8, <1>9, <1>10, LoopStep

\* What a page does to the rows: a repeated cursor fails the job, which was
\* not succeeded before.
LEMMA PageRows ==
  ASSUME IInv, CInv, Keeps, NEW s \in Slots, run[s].pc = "page", NEW next, SaveVerdict(run[s].job, next \in run[s].seen),
         UNCHANGED <<stage, ended>>, notesDb \subseteq notesDb', commentsDb \subseteq commentsDb',
         \A j \in Jobs \ {run[s].job} : found'[j] = found[j],
         \A j \in Jobs : j = run[s].job => Followed(j)' /\ Kept(j)'
  PROVE  /\ JobsOK'
         /\ \A j \in Jobs \ {run[s].job} : verification'[j] = verification[j]
         /\ next \notin run[s].seen => verification' = verification
<1>1. run[s].job \in Jobs /\ status[run[s].job] # "succeeded"
  BY HandlerFacts DEF CInv, JobsOK, RowOK, IInv, Staged
<1>2. /\ status'[run[s].job] # "succeeded"
      /\ \A j \in Jobs \ {run[s].job} : status'[j] = status[j] /\ verification'[j] = verification[j]
      /\ next \notin run[s].seen => verification' = verification
  BY <1>1 DEF SaveVerdict, IInv, TypeOK
<1>3. ASSUME NEW j \in Jobs \ {run[s].job}
      PROVE  Followed(j)' /\ Kept(j)' /\ RowOK(j)'
  BY <1>2, JobKept DEF CInv, JobsOK
<1>4. ASSUME NEW j \in Jobs, j = run[s].job
      PROVE  Followed(j)' /\ Kept(j)' /\ RowOK(j)'
  BY <1>2, <1>4 DEF RowOK
<1> QED
  BY <1>2, <1>3, <1>4 DEF JobsOK
LEMMA SaveNotesPageCompletes ==
  ASSUME IInv, CInv, Keeps, NEW s \in Slots, NEW next \in Cursors \cup {Done}, NEW items \in SUBSET Notes,
         SaveNotesPage(s, next, items)
  PROVE  CInv'
<1> DEFINE r == AfterPage(run[s], next)
<1>1. /\ run[s].pc = "page" /\ run[s].at = "notes" /\ run[s] \in Handlers /\ run[s].job \in Jobs
      /\ stage[run[s].job] = "notes" /\ Goto(s, r)
  BY HandlerFacts DEF SaveNotesPage, AtStage, At, IInv, Staged
<1>2. Looped(s, r, next)
  BY <1>1, AfterPageLoops
<1> HIDE DEF r
<1>3. found'[run[s].job] = found[run[s].job] \cup items /\ \A j \in Jobs \ {run[s].job} : found'[j] = found[j]
  BY <1>1 DEF SaveNotesPage, J, IInv, TypeOK
<1>4. /\ UNCHANGED <<stage, ended, commentsDb>> /\ notesDb' = notesDb \cup items
      /\ SaveVerdict(run[s].job, next \in run[s].seen)
      /\ ckpt' = [ckpt EXCEPT ![run[s].job][run[s].unit] = next]
  BY DEF SaveNotesPage, SavePage, J
<1>5. ASSUME NEW j \in Jobs, j = run[s].job
      PROVE  Followed(j)' /\ Kept(j)'
  BY <1>1, <1>3, <1>4, <1>5, NoteOfAssumption DEF CInv, JobsOK, Followed, Kept
<1>6. /\ JobsOK' /\ (next \notin run[s].seen => verification' = verification)
      /\ \A j \in Jobs \ {run[s].job} : verification'[j] = verification[j]
  BY <1>1, <1>3, <1>4, <1>5, PageRows
<1>7. HandlersOK'
  BY <1>1, <1>2, <1>3, <1>4, <1>6, PageLoops
<1> QED
  BY <1>6, <1>7 DEF CInv

LEMMA SaveCommentsPageCompletes ==
  ASSUME IInv, CInv, Keeps, NEW s \in Slots, NEW next \in Cursors \cup {Done}, NEW items \in SUBSET Comments,
         SaveCommentsPage(s, next, items)
  PROVE  CInv'
<1> DEFINE created == IF run[s].notify THEN items \ commentsDb ELSE {}
           r == [AfterPage(run[s], next) EXCEPT !.fresh = created]
<1>1. /\ run[s].pc = "page" /\ run[s].at = "comments" /\ run[s] \in Handlers /\ run[s].job \in Jobs
      /\ stage[run[s].job] = "comments" /\ Goto(s, r)
  BY HandlerFacts DEF SaveCommentsPage, AtStage, At, IInv, Staged
<1>2. Looped(s, r, next)
  <2>1. created \in SUBSET Comments
    OBVIOUS
  <2> QED
    BY <1>1, <2>1, AfterPageLoops
<1> HIDE DEF r
<1>3. found'[run[s].job] = found[run[s].job] \cup items /\ \A j \in Jobs \ {run[s].job} : found'[j] = found[j]
  BY <1>1 DEF SaveCommentsPage, J, IInv, TypeOK
<1>4. /\ UNCHANGED <<stage, ended, notesDb>> /\ commentsDb' = commentsDb \cup items
      /\ SaveVerdict(run[s].job, next \in run[s].seen)
      /\ ckpt' = [ckpt EXCEPT ![run[s].job][run[s].unit] = next]
  BY DEF SaveCommentsPage, SavePage, J
<1>5. found'[run[s].job] \cap Notes = found[run[s].job] \cap Notes
  BY <1>3, NoteOfAssumption
<1>6. ASSUME NEW j \in Jobs, j = run[s].job
      PROVE  Followed(j)' /\ Kept(j)'
  <2>1. <<"notes", Account>> \in Units /\ \A n \in Notes : <<"metrics", n>> \in Units
    BY DEF Units
  <2>2. Followed(j)'
    BY <1>1, <1>4, <1>5, <1>6, <2>1 DEF CInv, JobsOK, Followed, Keeps
  <2>3. Kept(j)'
    BY <1>3, <1>4, <1>5, <1>6 DEF CInv, JobsOK, Kept
  <2> QED
    BY <2>2, <2>3
<1>7. /\ JobsOK' /\ (next \notin run[s].seen => verification' = verification)
      /\ \A j \in Jobs \ {run[s].job} : verification'[j] = verification[j]
  BY <1>1, <1>3, <1>4, <1>6, PageRows
<1>8. HandlersOK'
  BY <1>1, <1>2, <1>3, <1>4, <1>7, PageLoops
<1> QED
  BY <1>7, <1>8 DEF CInv

LEMMA SaveRepliesPageCompletes ==
  ASSUME IInv, CInv, Keeps, NEW s \in Slots, NEW next \in Cursors \cup {Done}, SaveRepliesPage(s, next)
  PROVE  CInv'
<1> DEFINE r == AfterPage(run[s], next)
<1>1. run[s].pc = "page" /\ run[s].at = "replies" /\ run[s] \in Handlers /\ run[s].job \in Jobs /\ Goto(s, r)
  BY HandlerFacts DEF SaveRepliesPage, AtStage, At
<1>2. Looped(s, r, next)
  BY <1>1, AfterPageLoops
<1> HIDE DEF r
<1>3. /\ UNCHANGED <<stage, ended, found, notesDb, commentsDb>>
      /\ SaveVerdict(run[s].job, next \in run[s].seen)
      /\ ckpt' = [ckpt EXCEPT ![run[s].job][run[s].unit] = next]
  BY DEF SaveRepliesPage, SavePage, J
<1>4. ASSUME NEW j \in Jobs, j = run[s].job
      PROVE  Followed(j)' /\ Kept(j)'
  <2>1. /\ <<"notes", Account>> \in Units
        /\ \A n \in Notes : <<"metrics", n>> \in Units
        /\ \A k \in Comments : <<"replies", k>> \in Units
    BY DEF Units
  <2> QED
    BY <1>3, <2>1 DEF CInv, JobsOK, Followed, Kept, Keeps
<1>5. /\ JobsOK' /\ (next \notin run[s].seen => verification' = verification)
      /\ \A j \in Jobs \ {run[s].job} : verification'[j] = verification[j]
  BY <1>1, <1>3, <1>4, PageRows
<1>6. HandlersOK'
  BY <1>1, <1>2, <1>3, <1>5, PageLoops
<1> QED
  BY <1>5, <1>6 DEF CInv

LEMMA SaveMetricsCompletes ==
  ASSUME IInv, CInv, Keeps, NEW s \in Slots, SaveMetrics(s)
  PROVE  CInv'
<1> DEFINE r == AfterPage(run[s], Done)
<1>1. run[s].pc = "page" /\ run[s].at = "metrics" /\ run[s] \in Handlers /\ run[s].job \in Jobs /\ Goto(s, r)
  BY HandlerFacts DEF SaveMetrics, AtStage, At
<1>2. Looped(s, r, Done)
  BY <1>1, AfterPageLoops
<1> HIDE DEF r
<1>3. /\ UNCHANGED <<status, verification, ended, stage, found, notesDb, commentsDb>>
      /\ ckpt' = [ckpt EXCEPT ![run[s].job][run[s].unit] = Done]
  BY DEF SaveMetrics, J, rowVars, dataVars
<1>4. JobsOK'
  BY <1>3, JobKept DEF CInv, JobsOK
<1>5. HandlersOK'
  BY <1>1, <1>2, <1>3, PageLoops
<1> QED
  BY <1>4, <1>5 DEF CInv

LEMMA SavesPageCompletes ==
  ASSUME IInv, CInv, Keeps, NEW s \in Slots, SavesPage(s)
  PROVE  CInv'
<1>1. PICK next \in Cursors \cup {Done} :
        \/ \E items \in SUBSET Notes : SaveNotesPage(s, next, items)
        \/ \E items \in SUBSET {k \in Comments : run[s].unit = <<"comments", NoteOf[k]>>} :
             SaveCommentsPage(s, next, items)
        \/ SaveRepliesPage(s, next)
  BY DEF SavesPage
<1>2. CASE \E items \in SUBSET Notes : SaveNotesPage(s, next, items)
  BY <1>2, SaveNotesPageCompletes
<1>3. CASE \E items \in SUBSET {k \in Comments : run[s].unit = <<"comments", NoteOf[k]>>} :
             SaveCommentsPage(s, next, items)
  <2>1. PICK items \in SUBSET {k \in Comments : run[s].unit = <<"comments", NoteOf[k]>>} :
          SaveCommentsPage(s, next, items)
    BY <1>3
  <2>2. items \in SUBSET Comments
    OBVIOUS
  <2> QED
    BY <2>1, <2>2, SaveCommentsPageCompletes
<1>4. CASE SaveRepliesPage(s, next)
  BY <1>4, SaveRepliesPageCompletes
<1> QED
  BY <1>1, <1>2, <1>3, <1>4

LEMMA AnnounceCompletes ==
  ASSUME IInv, CInv, NEW s \in Slots, NEW k \in run[s].fresh, Announce(s, k)
  PROVE  CInv'
<1> DEFINE r == [run[s] EXCEPT !.fresh = run[s].fresh \ {k}]
<1>1. run[s].pc # "idle" /\ run[s].job \in Jobs /\ Goto(s, r)
  BY HandlerFacts DEF Announce, IInv, Holding
<1>2. /\ r \in Handlers /\ r.pc = run[s].pc /\ r.job = run[s].job /\ r.at = run[s].at
      /\ r.unit = run[s].unit /\ r.todo = run[s].todo
  BY <1>1, HandlerFacts DEF Handlers
<1>3. UNCHANGED <<status, verification, ended, stage, ckpt, found, notesDb, commentsDb>>
  BY DEF Announce, rowVars, dataVars
<1>4. LoopOf(r, ckpt', found') /\ PlaceOf(r) /\ VerifiedOf(r, verification')
  BY <1>2, <1>3 DEF CInv, HandlersOK, LoopOf, PlaceOf, VerifiedOf
<1> HIDE DEF r
<1>5. HandlersOK'
  BY <1>1, <1>2, <1>3, <1>4, LoopStep
<1> QED
  BY <1>3, <1>5, JobsKept DEF CInv
-----------------------------------------------------------------------------
(* The end of a stage and of a run; the queue. *)

\* A stage ends when its loop has nothing left: all it was to read is read.
LEMMA AdvanceCompletes ==
  ASSUME IInv, CInv, Keeps, NEW s \in Slots, Advance(s)
  PROVE  CInv'
<1> DEFINE r == [Handler(s, "enter") EXCEPT !.at = Following(run[s].at)]
<1>1. /\ run[s].pc \in {"open", "mark"} /\ run[s].todo = {} /\ Goto(s, r) /\ run[s].job \in Jobs
      /\ run[s].at = stage[run[s].job] /\ run[s].at \in {"notes", "metrics", "comments", "replies"}
  BY HandlerFacts DEF Advance, At, IInv, Staged
<1>2. /\ Following("notes") = "metrics" /\ Following("metrics") = "comments"
      /\ Following("comments") = "replies" /\ Following("replies") = "complete"
  BY DEF Following
<1>3. r \in Handlers /\ r.pc = "enter" /\ r.job = run[s].job
  <2>1. run[s] \in Handlers /\ "enter" \in Labels /\ Following(run[s].at) \in Stages
    BY <1>1, <1>2, HandlerFacts DEF Labels, Stages
  <2> QED
    BY <2>1, HandlerTyped DEF Handlers
<1> HIDE DEF r
<1>4. /\ UNCHANGED <<status, verification, ended, ckpt, found, notesDb, commentsDb>>
      /\ stage'[run[s].job] = Following(run[s].at) /\ \A j \in Jobs \ {run[s].job} : stage'[j] = stage[j]
  BY <1>1 DEF Advance, J, dataVars, IInv, TypeOK
<1>5. LoopOf(r, ckpt', found') /\ PlaceOf(r) /\ VerifiedOf(r, verification')
  BY <1>1, <1>3, <1>4 DEF CInv, HandlersOK, LoopOf, PlaceOf, VerifiedOf
<1>6. HandlersOK'
  BY <1>1, <1>3, <1>4, <1>5, LoopStep
<1>7. ASSUME NEW j \in Jobs
      PROVE  Followed(j)' /\ Kept(j)' /\ RowOK(j)'
  <2>1. CASE j # run[s].job
    BY <1>4, <2>1, JobKept DEF CInv, JobsOK
  <2>2. CASE j = run[s].job
    <3>1. Followed(j) /\ Kept(j) /\ RowOK(j) /\ stage[j] = run[s].at /\ stage'[j] = Following(run[s].at)
      BY <1>1, <1>4, <2>2 DEF CInv, JobsOK
    <3>2. /\ run[s].at = "notes" => ckpt[j][<<"notes", Account>>] = Done
          /\ run[s].at = "metrics" => \A n \in found[j] \cap Notes : ckpt[j][<<"metrics", n>>] = Done
          /\ run[s].at = "replies" => \A k \in found[j] \cap Comments : ckpt[j][<<"replies", k>>] = Done
      BY <1>1, <2>2 DEF CInv, HandlersOK, LoopOf, PlaceOf
    <3>3. Followed(j)'
      BY <1>1, <1>2, <1>4, <3>1, <3>2 DEF Followed
    <3>4. Kept(j)' /\ RowOK(j)'
      BY <1>1, <1>4, <3>1 DEF Kept, RowOK
    <3> QED
      BY <3>3, <3>4
  <2> QED
    BY <2>1, <2>2
<1> QED
  BY <1>6, <1>7 DEF CInv, JobsOK

\* The row that becomes succeeded is verified and has its stages behind it.
LEMMA CompleteCompletes ==
  ASSUME IInv, CInv, Keeps, NEW s \in Slots, Complete(s)
  PROVE  CInv'
<1>1. /\ run[s].pc = "enter" /\ run[s].at = "complete" /\ run[s].job \in Jobs /\ stage[run[s].job] = "complete"
      /\ verification[run[s].job] = "verified" /\ Goto(s, Handler(s, "return"))
  BY HandlerFacts DEF Complete, AtStage, At, J, IInv, Staged, CInv, HandlersOK, VerifiedOf
<1>2. Handler(s, "return").pc = "return"
  BY <1>1, HandlerFacts, HandlerTyped DEF Labels
<1>3. /\ UNCHANGED <<verification, ckpt, found, notesDb, commentsDb>>
      /\ ended'[run[s].job] = TRUE /\ stage' = stage
      /\ \A j \in Jobs \ {run[s].job} : status'[j] = status[j] /\ ended'[j] = ended[j]
  BY <1>1 DEF Complete, J, dataVars, IInv, TypeOK
<1>4. HandlersOK'
  BY <1>1, <1>2, <1>3, LeaveStep
<1>5. ASSUME NEW j \in Jobs
      PROVE  Followed(j)' /\ Kept(j)' /\ RowOK(j)'
  <2>1. CASE j # run[s].job
    BY <1>3, <2>1, JobKept DEF CInv, JobsOK
  <2>2. CASE j = run[s].job
    BY <1>1, <1>3, <2>2 DEF CInv, JobsOK, Followed, Kept, RowOK
  <2> QED
    BY <2>1, <2>2
<1> QED
  BY <1>4, <1>5 DEF CInv, JobsOK

LEMMA RecordFailureCompletes ==
  ASSUME IInv, CInv, Keeps, NEW s \in Slots, RecordFailure(s)
  PROVE  CInv'
<1> DEFINE r == [run[s] EXCEPT !.pc = "thrown"]
<1>1. Goto(s, r) /\ r.pc = "thrown" /\ run[s].job \in Jobs
  BY HandlerFacts DEF RecordFailure, At, Handlers
<1>2. /\ UNCHANGED <<verification, ended, stage, ckpt, found, notesDb, commentsDb>>
      /\ status'[run[s].job] = "failed" /\ \A j \in Jobs \ {run[s].job} : status'[j] = status[j]
  BY <1>1 DEF RecordFailure, J, dataVars, IInv, TypeOK
<1>3. HandlersOK'
  <2> HIDE DEF r
  <2> QED
    BY <1>1, <1>2, LeaveStep
<1>4. ASSUME NEW j \in Jobs
      PROVE  Followed(j)' /\ Kept(j)' /\ RowOK(j)'
  BY <1>2, JobKept DEF CInv, JobsOK
<1> QED
  BY <1>3, <1>4 DEF CInv, JobsOK

\* A handler that throws, ends or starts is in no loop.
LEMMA LeavingCompletes ==
  ASSUME IInv, CInv, NEW s \in Slots,
         \/ StartFails(s) \/ DatabaseFails(s) \/ RecordingFails(s) \/ MarkIncomplete(s) \/ Return(s) \/ Throw(s)
         \/ (\E auth \in BOOLEAN : CallFails(s, auth)) \/ (\E j \in Jobs : Pick(s, j))
  PROVE  CInv'
<1>1. UNCHANGED <<status, verification, ended, stage, ckpt, found, notesDb, commentsDb>>
  BY DEF StartFails, DatabaseFails, RecordingFails, MarkIncomplete, Return, Throw, CallFails, Pick, rowVars, dataVars
<1>2. run[s] \in Handlers
  BY DEF IInv, TypeOK
<1>3. Idle \in Handlers /\ Idle.pc = "idle"
  BY DEF Idle, Handlers, Labels, Stages, Marks
<1>4. Handler(s, "failing") \in Handlers /\ Handler(s, "incomplete") \in Handlers
      /\ Handler(s, "failing").pc = "failing" /\ Handler(s, "incomplete").pc = "incomplete"
  BY <1>2, HandlerTyped DEF Labels
<1>5. \E r : Goto(s, r) /\ r.pc \notin {"enter", "synced", "capable", "open", "page", "mark"}
  <2>1. CASE StartFails(s) \/ RecordingFails(s)
    <3>1. Goto(s, [run[s] EXCEPT !.pc = "thrown"]) /\ [run[s] EXCEPT !.pc = "thrown"].pc = "thrown"
      BY <1>2, <2>1 DEF StartFails, RecordingFails, Handlers
    <3> QED
      BY <3>1
  <2>2. CASE DatabaseFails(s)
    BY <1>4, <2>2 DEF DatabaseFails
  <2>3. CASE MarkIncomplete(s)
    <3>1. Goto(s, [Handler(s, "failing") EXCEPT !.auth = run[s].auth])
      BY <2>3 DEF MarkIncomplete
    <3>2. [Handler(s, "failing") EXCEPT !.auth = run[s].auth].pc = "failing"
      BY <1>4 DEF Handlers
    <3> QED
      BY <3>1, <3>2
  <2>4. CASE Return(s) \/ Throw(s)
    BY <1>3, <2>4 DEF Return, Throw
  <2>5. ASSUME NEW auth \in BOOLEAN, CallFails(s, auth)
        PROVE  \E r : Goto(s, r) /\ r.pc \notin {"enter", "synced", "capable", "open", "page", "mark"}
    <3>1. \/ Goto(s, [Handler(s, "incomplete") EXCEPT !.auth = auth, !.unit = run[s].unit])
          \/ Goto(s, [Handler(s, "failing") EXCEPT !.auth = auth])
      BY <2>5 DEF CallFails
    <3>2. /\ [Handler(s, "incomplete") EXCEPT !.auth = auth, !.unit = run[s].unit].pc = "incomplete"
          /\ [Handler(s, "failing") EXCEPT !.auth = auth].pc = "failing"
      BY <1>4 DEF Handlers
    <3> QED
      BY <3>1, <3>2
  <2>6. ASSUME NEW j \in Jobs, Pick(s, j)
        PROVE  \E r : Goto(s, r) /\ r.pc \notin {"enter", "synced", "capable", "open", "page", "mark"}
    <3>1. Goto(s, [Idle EXCEPT !.pc = "start", !.job = j]) /\ [Idle EXCEPT !.pc = "start", !.job = j].pc = "start"
      BY <1>3, <2>6 DEF Pick, Handlers
    <3> QED
      BY <3>1
  <2> QED
    BY <2>1, <2>2, <2>3, <2>4, <2>5, <2>6
<1>6. HandlersOK'
  BY <1>1, <1>5, LeaveStep
<1> QED
  BY <1>1, <1>6, JobsKept DEF CInv

\* What happens outside the slots.
LEMMA OutsideCompletes ==
  ASSUME IInv, CInv, Keeps,
         \/ \E j \in Jobs : Create(j) \/ Cancel(j) \/ AddToQueue(j) \/ AddFails(j) \/ Stalled(j)
         \/ ReadPending \/ Crash \/ UNCHANGED vars
  PROVE  CInv'
<1>1. UNCHANGED <<verification, stage, ckpt, found, notesDb, commentsDb>>
  BY DEF Create, Cancel, AddToQueue, AddFails, Stalled, ReadPending, Crash, vars, rowVars, dataVars
<1>2. \/ UNCHANGED <<status, ended>>
      \/ \E j \in Jobs, st \in {"pending", "failed"} :
           status' = [status EXCEPT ![j] = st] /\ (ended' = ended \/ ended' = [ended EXCEPT ![j] = TRUE])
  BY DEF Create, Cancel, AddToQueue, AddFails, Stalled, ReadPending, Crash, vars, rowVars
<1>3. ASSUME NEW j \in Jobs
      PROVE  Followed(j)' /\ Kept(j)' /\ RowOK(j)'
  <2>1. status'[j] = "succeeded" => status[j] = "succeeded" /\ ended'[j] = ended[j]
    BY <1>2 DEF IInv, TypeOK
  <2> QED
    BY <1>1, <2>1, JobKept DEF CInv, JobsOK
<1>4. HandlersOK'
  <2>1. CASE run' = run
    BY <1>1, <2>1 DEF CInv, HandlersOK
  <2>2. CASE Crash
    BY <2>2 DEF Crash, Idle, HandlersOK, LoopOf, PlaceOf, VerifiedOf
  <2> QED
    BY <2>1, <2>2 DEF Create, Cancel, AddToQueue, AddFails, Stalled, ReadPending, vars
<1> QED
  BY <1>3, <1>4 DEF CInv, JobsOK

LEMMA CompletionInductive ==
  ASSUME IInv, CInv, [Next]_vars
  PROVE  CInv'
<1>1. Keeps
  BY DoneKept DEF Keeps
<1>2. ASSUME NEW s \in Slots, Progress(s)
      PROVE  CInv'
  <2>1. CASE StartJob(s) \/ Authorize(s) \/ Enter(s) \/ AskSynced(s) \/ AskCapability(s) \/ Advance(s) \/ Complete(s)
    BY <1>1, <2>1, StartJobCompletes, AuthorizeCompletes, EnterCompletes, AsksCompletes, AdvanceCompletes,
       CompleteCompletes
  <2>2. CASE \E u \in run[s].todo : MarkUnavailable(s, u) \/ Open(s, u)
    BY <2>2, MarkUnavailableCompletes, OpenCompletes
  <2>3. CASE SavesPage(s) \/ SaveMetrics(s)
    BY <1>1, <2>3, SavesPageCompletes, SaveMetricsCompletes
  <2>4. CASE \E k \in run[s].fresh : Announce(s, k)
    BY <2>4, AnnounceCompletes
  <2>5. CASE MarkIncomplete(s) \/ RecordFailure(s) \/ Return(s) \/ Throw(s)
    BY <1>1, <2>5, RecordFailureCompletes, LeavingCompletes
  <2> QED
    BY <1>2, <2>1, <2>2, <2>3, <2>4, <2>5 DEF Progress
<1>3. ASSUME NEW s \in Slots, Failure(s) \/ \E j \in Jobs : Pick(s, j)
      PROVE  CInv'
  BY <1>3, LeavingCompletes DEF Failure
<1>4. CASE \/ \E j \in Jobs : Create(j) \/ Cancel(j) \/ AddToQueue(j) \/ AddFails(j) \/ Stalled(j)
           \/ ReadPending \/ Crash \/ UNCHANGED vars
  BY <1>1, <1>4, OutsideCompletes
<1> QED
  BY <1>2, <1>3, <1>4 DEF Next

\* A succeeded job is verified, ended and at its last stage, and has followed
\* through every note and comment its pages delivered (SucceededIsComplete),
\* over all its attempts and whatever other jobs of the account store meanwhile.
THEOREM SuccessIsComplete == Spec => []SucceededIsComplete
<1>1. Init => CInv
  BY DEF Init, Idle, CInv, HandlersOK, JobsOK, LoopOf, PlaceOf, VerifiedOf, Followed, Kept, RowOK
<1>2. CInv => SucceededIsComplete
  BY DEF CInv, JobsOK, Followed, RowOK, SucceededIsComplete
<1>3. IInv /\ CInv /\ [Next]_vars => CInv'
  BY CompletionInductive
<1> QED
  BY <1>1, <1>2, <1>3, Invariance, PTL DEF Spec
-----------------------------------------------------------------------------
(* The completeness of a note. *)

\* Only a page of comments that ends its loop makes a note complete.
LEMMA CompletenessWrites ==
  ASSUME IInv, CInv, Next, NEW n \in Notes, completeness'[n] = "page_complete"
  PROVE  completeness[n] = "page_complete" \/ \E j \in Jobs : ckpt'[j][<<"comments", n>>] = Done
<1>1. ASSUME NEW s \in Slots, NEW next \in Cursors \cup {Done}, NEW items, SaveCommentsPage(s, next, items)
      PROVE  completeness[n] = "page_complete" \/ \E j \in Jobs : ckpt'[j][<<"comments", n>>] = Done
  <2>1. run[s].pc = "page" /\ run[s].at = "comments" /\ run[s].job \in Jobs /\ run[s].unit \in Units
    BY <1>1, HandlerFacts DEF SaveCommentsPage, AtStage, At, IInv, Paging
  <2>2. PICK m \in Notes : run[s].unit = <<"comments", m>>
    BY <2>1 DEF CInv, HandlersOK, PlaceOf
  <2>3. completeness' = [completeness EXCEPT ![m] = PageCompleteness(next \in run[s].seen, next)]
    BY <1>1, <2>2 DEF SaveCommentsPage
  <2>4. CASE n # m
    BY <2>3, <2>4 DEF IInv, TypeOK
  <2>5. CASE n = m
    <3>1. next = Done
      BY <2>3, <2>5 DEF PageCompleteness, IInv, TypeOK
    <3>2. ckpt' = [ckpt EXCEPT ![run[s].job][<<"comments", n>>] = Done] /\ <<"comments", n>> \in Units
      BY <1>1, <2>1, <2>2, <2>5, <3>1 DEF SaveCommentsPage, SavePage, J
    <3>3. ckpt'[run[s].job][<<"comments", n>>] = Done
      BY <2>1, <3>2 DEF IInv, TypeOK
    <3> QED
      BY <2>1, <3>3
  <2> QED
    BY <2>4, <2>5
<1>2. ASSUME NEW s \in Slots, (\E u \in run[s].todo : MarkUnavailable(s, u)) \/ MarkIncomplete(s)
      PROVE  completeness[n] = "page_complete"
  <2>1. \E x, st : st # "page_complete" /\ completeness' = [completeness EXCEPT ![x] = st]
    BY <1>2 DEF MarkUnavailable, MarkIncomplete
  <2> QED
    BY <2>1 DEF IInv, TypeOK
<1>3. ASSUME NEW s \in Slots, Progress(s), ~MarkIncomplete(s), ~\E u \in run[s].todo : MarkUnavailable(s, u),
             ~\E next \in Cursors \cup {Done}, items \in SUBSET Comments : SaveCommentsPage(s, next, items)
      PROVE  UNCHANGED completeness
  BY <1>3 DEF Progress, StartJob, Authorize, Enter, AskSynced, AskCapability, Advance, Complete, Open, SavesPage,
              SaveNotesPage, SaveRepliesPage,
              SaveMetrics, Announce, RecordFailure, Return, Throw, dataVars
<1>4. ASSUME NEW s \in Slots, Failure(s) \/ \E j \in Jobs : Pick(s, j)
      PROVE  UNCHANGED completeness
  BY <1>4 DEF Failure, StartFails, DatabaseFails, RecordingFails, CallFails, Pick, dataVars
<1>5. ASSUME NEW j \in Jobs, Create(j) \/ Cancel(j) \/ AddToQueue(j) \/ AddFails(j) \/ Stalled(j)
      PROVE  UNCHANGED completeness
  BY <1>5 DEF Create, Cancel, AddToQueue, AddFails, Stalled, dataVars
<1>6. CASE ReadPending \/ Crash
  BY <1>6 DEF ReadPending, Crash, dataVars
<1> QED
  BY <1>1, <1>2, <1>3, <1>4, <1>5, <1>6 DEF Next

\* page_complete is only said of a note some job has read to the end of its
\* comments (HonestCompleteness), whatever the other jobs do to the note.
THEOREM CompletenessIsHonest == Spec => []HonestCompleteness
<1> DEFINE Both == CInv /\ HonestCompleteness
<1>1. Init => Both
  BY DEF Init, Idle, CInv, HandlersOK, JobsOK, LoopOf, PlaceOf, VerifiedOf, Followed, Kept, RowOK, HonestCompleteness
<1>2. IInv /\ Both /\ [Next]_vars => Both'
  <2> SUFFICES ASSUME IInv, CInv, HonestCompleteness, [Next]_vars
               PROVE  CInv' /\ HonestCompleteness'
    OBVIOUS
  <2>1. CInv'
    BY CompletionInductive
  <2>2. ASSUME NEW n \in Notes, completeness'[n] = "page_complete"
        PROVE  \E j \in Jobs : ckpt'[j][<<"comments", n>>] = Done
    <3>1. completeness[n] = "page_complete" \/ \E j \in Jobs : ckpt'[j][<<"comments", n>>] = Done
      BY <2>2, CompletenessWrites DEF vars, dataVars
    <3>2. CASE completeness[n] = "page_complete"
      <4>1. PICK j \in Jobs : ckpt[j][<<"comments", n>>] = Done
        BY <3>2 DEF HonestCompleteness
      <4>2. <<"comments", n>> \in Units
        BY DEF Units
      <4> QED
        BY <4>1, <4>2, DoneKept
    <3> QED
      BY <3>1, <3>2
  <2> QED
    BY <2>1, <2>2 DEF HonestCompleteness
<1>3. Both => HonestCompleteness
  OBVIOUS
<1> QED
  BY <1>1, <1>2, <1>3, Invariance, PTL DEF Spec

-----------------------------------------------------------------------------
(* The row and the queue. *)

\* A handler about to leave the queue has written how its run ended; v are
\* the statuses of the rows.
EndOf(r, v) ==
  /\ r.pc = "thrown" => v[r.job] = "failed"
  /\ r.pc = "return" => v[r.job] \in {"failed", "succeeded"}

Agrees(j) == queue[j].stalls <= MaxStalls =>
  /\ status[j] = "running" => queue[j].state \in {"waiting", "active"}
  /\ queue[j].state = "failed" => status[j] = "failed"

AInv == (\A j \in Jobs : Agrees(j)) /\ (\A s \in Slots : EndOf(run[s], status))

\* A handler holds the active entry of its job: whatever it writes agrees.
LEMMA HandlerAgrees ==
  ASSUME IInv, AInv, NEW s \in Slots, run[s].pc # "idle", NEW r, Goto(s, r), r.job = run[s].job, queue' = queue,
         \A j \in Jobs \ {run[s].job} : status'[j] = status[j],
         EndOf(r, status')
  PROVE  AInv'
<1>1. run'[s] = r /\ \A t \in Slots \ {s} : run'[t] = run[t]
  BY DEF Goto, IInv, TypeOK
<1>2. \A t \in Slots \ {s} : run[t].pc # "idle" => run[t].job \in Jobs \ {run[s].job}
  BY HandlerFacts DEF IInv, Holding
<1>3. queue[run[s].job].state = "active"
  BY HandlerFacts
<1>4. ASSUME NEW j \in Jobs
      PROVE  Agrees(j)'
  BY <1>3 DEF AInv, Agrees
<1>5. ASSUME NEW t \in Slots
      PROVE  EndOf(run'[t], status')
  BY <1>1, <1>2 DEF AInv, EndOf
<1> QED
  BY <1>4, <1>5 DEF AInv

\* A page ends the run only when it has failed the row.
LEMMA PageAgrees ==
  ASSUME IInv, AInv, NEW s \in Slots, run[s].pc = "page", NEW next, NEW r, Goto(s, r), Looped(s, r, next),
         queue' = queue, SaveVerdict(run[s].job, next \in run[s].seen)
  PROVE  AInv'
<1>1. run[s].job \in Jobs
  BY HandlerFacts
<1>2. /\ next \in run[s].seen => status'[run[s].job] = "failed"
      /\ \A j \in Jobs \ {run[s].job} : status'[j] = status[j]
  BY <1>1 DEF SaveVerdict, IInv, TypeOK
<1>3. r.job = run[s].job /\ EndOf(r, status')
  BY <1>2 DEF Looped, EndOf
<1> QED
  BY <1>2, <1>3, HandlerAgrees

LEMMA SavesPageAgrees ==
  ASSUME IInv, AInv, NEW s \in Slots, SavesPage(s)
  PROVE  AInv'
<1>1. PICK next \in Cursors \cup {Done} :
        \/ \E items \in SUBSET Notes : SaveNotesPage(s, next, items)
        \/ \E items \in SUBSET {k \in Comments : run[s].unit = <<"comments", NoteOf[k]>>} :
             SaveCommentsPage(s, next, items)
        \/ SaveRepliesPage(s, next)
  BY DEF SavesPage
<1>2. /\ run[s].pc = "page" /\ run[s] \in Handlers /\ queue' = queue
      /\ SaveVerdict(run[s].job, next \in run[s].seen)
  BY <1>1, HandlerFacts DEF SaveNotesPage, SaveCommentsPage, SaveRepliesPage, SavePage, AtStage, At, J
<1>3. CASE Goto(s, AfterPage(run[s], next))
  <2> DEFINE r == AfterPage(run[s], next)
  <2>1. Goto(s, r) /\ Looped(s, r, next)
    BY <1>2, <1>3, AfterPageLoops
  <2> HIDE DEF r
  <2> QED
    BY <1>2, <2>1, PageAgrees
<1>4. ASSUME NEW items \in SUBSET Comments, SaveCommentsPage(s, next, items)
      PROVE  AInv'
  <2> DEFINE created == IF run[s].notify THEN items \ commentsDb ELSE {}
             r == [AfterPage(run[s], next) EXCEPT !.fresh = created]
  <2>1. created \in SUBSET Comments
    OBVIOUS
  <2>2. Goto(s, r) /\ Looped(s, r, next)
    BY <1>2, <1>4, <2>1, AfterPageLoops DEF SaveCommentsPage
  <2> HIDE DEF r
  <2> QED
    BY <1>2, <2>2, PageAgrees
<1>5. ASSUME NEW items \in SUBSET {k \in Comments : run[s].unit = <<"comments", NoteOf[k]>>},
             SaveCommentsPage(s, next, items)
      PROVE  AInv'
  <2>1. items \in SUBSET Comments
    OBVIOUS
  <2> QED
    BY <1>4, <1>5, <2>1
<1> QED
  BY <1>1, <1>3, <1>5 DEF SaveNotesPage, SaveRepliesPage

LEMMA SaveMetricsAgrees ==
  ASSUME IInv, AInv, NEW s \in Slots, SaveMetrics(s)
  PROVE  AInv'
<1> DEFINE r == AfterPage(run[s], Done)
<1>1. run[s].pc = "page" /\ run[s] \in Handlers /\ Goto(s, r) /\ UNCHANGED <<status, queue>>
  BY HandlerFacts DEF SaveMetrics, AtStage, At, rowVars
<1>2. Looped(s, r, Done) /\ Done \notin run[s].seen
  BY <1>1, AfterPageLoops, CursorAssumption DEF Handlers
<1> HIDE DEF r
<1>3. r.job = run[s].job /\ EndOf(r, status')
  BY <1>2 DEF Looped, EndOf
<1> QED
  BY <1>1, <1>3, HandlerAgrees
\* The other steps of a run that leave the queue alone.
LEMMA RunAgrees ==
  ASSUME IInv, AInv, NEW s \in Slots,
         \/ StartJob(s) \/ Authorize(s) \/ Enter(s) \/ AskSynced(s) \/ AskCapability(s) \/ Advance(s) \/ MarkIncomplete(s)
         \/ (\E u \in run[s].todo : MarkUnavailable(s, u) \/ Open(s, u))
         \/ (\E auth \in BOOLEAN : CallFails(s, auth))
  PROVE  AInv'
<1>1. run[s].pc # "idle" /\ queue' = queue /\ run[s] \in Handlers /\ run[s].job \in Jobs
  BY HandlerFacts DEF StartJob, Authorize, Enter, AskSynced, AskCapability, Advance, MarkIncomplete, MarkUnavailable,
                      Open, CallFails, AtStage, At
<1>2. \A j \in Jobs \ {run[s].job} : status'[j] = status[j]
  BY <1>1 DEF StartJob, Authorize, Enter, AskSynced, AskCapability, Advance, MarkIncomplete, MarkUnavailable, Open,
              CallFails, rowVars, J, IInv, TypeOK
<1>3. /\ \A label \in {"enter", "failing", "incomplete"} :
           Handler(s, label) \in Handlers /\ Handler(s, label).pc = label /\ Handler(s, label).job = run[s].job
  BY <1>1, HandlerTyped DEF Labels
<1>4. \E r : Goto(s, r) /\ r.job = run[s].job /\ r.pc \notin {"thrown", "return"}
  <2>1. CASE StartJob(s)
    <3>1. Goto(s, [run[s] EXCEPT !.pc = "enter", !.at = ResumeStage(J(s))])
      BY <2>1 DEF StartJob
    <3>2. /\ [run[s] EXCEPT !.pc = "enter", !.at = ResumeStage(J(s))].pc = "enter"
          /\ [run[s] EXCEPT !.pc = "enter", !.at = ResumeStage(J(s))].job = run[s].job
      BY <1>1 DEF Handlers
    <3> QED
      BY <3>1, <3>2
  <2>2. CASE Authorize(s)
    <3>1. Goto(s, [run[s] EXCEPT !.at = "notes"]) /\ run[s].pc = "enter"
      BY <2>2 DEF Authorize, AtStage, At
    <3>2. /\ [run[s] EXCEPT !.at = "notes"].pc = run[s].pc
          /\ [run[s] EXCEPT !.at = "notes"].job = run[s].job
      BY <1>1 DEF Handlers
    <3> QED
      BY <3>1, <3>2
  <2>3. CASE Enter(s)
    <3> DEFINE units == UnitsOf(run[s].at)
               label == IF run[s].at = "comments" THEN "synced" ELSE "open"
               r == [run[s] EXCEPT !.todo = units, !.pc = label]
    <3>1. Goto(s, r)
      BY <2>3 DEF Enter
    <3>2. label \in {"synced", "open"}
      OBVIOUS
    <3> HIDE DEF units, label
    <3>3. r.pc = label /\ r.job = run[s].job
      BY <1>1 DEF Handlers
    <3> QED
      BY <3>1, <3>2, <3>3
  <2>4. CASE Advance(s)
    <3>1. Goto(s, [Handler(s, "enter") EXCEPT !.at = Following(run[s].at)])
      BY <2>4 DEF Advance
    <3>2. /\ [Handler(s, "enter") EXCEPT !.at = Following(run[s].at)].pc = "enter"
          /\ [Handler(s, "enter") EXCEPT !.at = Following(run[s].at)].job = run[s].job
      BY <1>3 DEF Handlers
    <3> QED
      BY <3>1, <3>2
  <2>5. CASE MarkIncomplete(s)
    <3>1. Goto(s, [Handler(s, "failing") EXCEPT !.auth = run[s].auth])
      BY <2>5 DEF MarkIncomplete
    <3>2. /\ [Handler(s, "failing") EXCEPT !.auth = run[s].auth].pc = "failing"
          /\ [Handler(s, "failing") EXCEPT !.auth = run[s].auth].job = run[s].job
      BY <1>3 DEF Handlers
    <3> QED
      BY <3>1, <3>2
  <2>6. ASSUME NEW u \in run[s].todo, MarkUnavailable(s, u) \/ Open(s, u)
        PROVE  \E r : Goto(s, r) /\ r.job = run[s].job /\ r.pc \notin {"thrown", "return"}
    <3> DEFINE rest == run[s].todo \ {u}
               mark == ckpt[run[s].job][u]
               seen == {mark} \ {Absent}
               fewer == [run[s] EXCEPT !.todo = rest]
               read == [run[s] EXCEPT !.pc = "page", !.unit = u, !.cursor = mark, !.seen = seen]
    <3>1. Goto(s, fewer) \/ Goto(s, read)
      BY <2>6 DEF MarkUnavailable, Open, ResumeMark, J
    <3>2. run[s].pc \in {"mark", "open"}
      BY <2>6 DEF MarkUnavailable, Open, At
    <3> HIDE DEF rest, mark, seen
    <3>3. fewer.pc = run[s].pc /\ fewer.job = run[s].job /\ read.pc = "page" /\ read.job = run[s].job
      BY <1>1 DEF Handlers
    <3> QED
      BY <3>1, <3>2, <3>3
  <2>7. ASSUME NEW auth \in BOOLEAN, CallFails(s, auth)
        PROVE  \E r : Goto(s, r) /\ r.job = run[s].job /\ r.pc \notin {"thrown", "return"}
    <3> DEFINE marking == [Handler(s, "incomplete") EXCEPT !.auth = auth, !.unit = run[s].unit]
               failing == [Handler(s, "failing") EXCEPT !.auth = auth]
    <3>1. Goto(s, marking) \/ Goto(s, failing)
      BY <2>7 DEF CallFails
    <3>2. marking.pc = "incomplete" /\ marking.job = run[s].job /\ failing.pc = "failing" /\ failing.job = run[s].job
      BY <1>3 DEF Handlers
    <3> QED
      BY <3>1, <3>2
  <2>8. CASE AskSynced(s)
    <3> DEFINE notify == SyncedBefore(J(s))
               r == [run[s] EXCEPT !.notify = notify, !.pc = "capable"]
    <3>1. Goto(s, r)
      BY <2>8 DEF AskSynced
    <3> HIDE DEF notify
    <3>2. r.pc = "capable" /\ r.job = run[s].job
      BY <1>1 DEF Handlers
    <3> QED
      BY <3>1, <3>2
  <2>9. CASE AskCapability(s)
    <3> DEFINE label == IF commentsOn THEN "open" ELSE "mark"
               r == [run[s] EXCEPT !.pc = label]
    <3>1. Goto(s, r) /\ label \in {"mark", "open"}
      BY <2>9 DEF AskCapability
    <3> HIDE DEF label
    <3>2. r.pc = label /\ r.job = run[s].job
      BY <1>1 DEF Handlers
    <3> QED
      BY <3>1, <3>2
  <2> QED
    BY <2>1, <2>2, <2>3, <2>4, <2>5, <2>6, <2>7, <2>8, <2>9
<1>5. PICK r : Goto(s, r) /\ r.job = run[s].job /\ r.pc \notin {"thrown", "return"}
  BY <1>4
<1>6. EndOf(r, status')
  BY <1>5 DEF EndOf
<1> QED
  BY <1>1, <1>2, <1>5, <1>6, HandlerAgrees

LEMMA AnnounceAgrees ==
  ASSUME IInv, AInv, NEW s \in Slots, NEW k \in run[s].fresh, Announce(s, k)
  PROVE  AInv'
<1> DEFINE r == [run[s] EXCEPT !.fresh = run[s].fresh \ {k}]
<1>1. run[s].pc # "idle" /\ Goto(s, r) /\ UNCHANGED <<queue, status>>
  BY DEF Announce, IInv, Holding, rowVars
<1>2. r.pc = run[s].pc /\ r.job = run[s].job
  BY <1>1, HandlerFacts DEF Handlers
<1>3. EndOf(r, status')
  BY <1>1, <1>2 DEF AInv, EndOf
<1> HIDE DEF r
<1> QED
  BY <1>1, <1>2, <1>3, HandlerAgrees

\* A run ends by writing the row first.
LEMMA EndingAgrees ==
  ASSUME IInv, AInv, NEW s \in Slots, Complete(s) \/ RecordFailure(s)
  PROVE  AInv'
<1>1. run[s].pc # "idle" /\ queue' = queue /\ run[s] \in Handlers /\ run[s].job \in Jobs
  BY HandlerFacts DEF Complete, RecordFailure, AtStage, At
<1>2. CASE Complete(s)
  <2>1. /\ Goto(s, Handler(s, "return")) /\ status'[run[s].job] = "succeeded"
        /\ \A j \in Jobs \ {run[s].job} : status'[j] = status[j]
    BY <1>1, <1>2 DEF Complete, J, IInv, TypeOK
  <2>2. Handler(s, "return").pc = "return" /\ Handler(s, "return").job = run[s].job
    BY <1>1, HandlerTyped DEF Labels
  <2>3. EndOf(Handler(s, "return"), status')
    BY <2>1, <2>2 DEF EndOf
  <2> QED
    BY <1>1, <2>1, <2>2, <2>3, HandlerAgrees
<1>3. CASE RecordFailure(s)
  <2> DEFINE r == [run[s] EXCEPT !.pc = "thrown"]
  <2>1. /\ Goto(s, r) /\ status'[run[s].job] = "failed"
        /\ \A j \in Jobs \ {run[s].job} : status'[j] = status[j]
    BY <1>1, <1>3 DEF RecordFailure, J, IInv, TypeOK
  <2>2. r.pc = "thrown" /\ r.job = run[s].job
    BY <1>1 DEF Handlers
  <2>3. EndOf(r, status')
    BY <2>1, <2>2 DEF EndOf
  <2> HIDE DEF r
  <2> QED
    BY <1>1, <2>1, <2>2, <2>3, HandlerAgrees
<1> QED
  BY <1>2, <1>3

\* What Return and Throw leave in the queue agrees with the row their run wrote.
LEMMA LeavingAgrees ==
  ASSUME IInv, AInv, NEW s \in Slots, Return(s) \/ Throw(s)
  PROVE  AInv'
<1>1. run[s].job \in Jobs /\ run' = [run EXCEPT ![s] = Idle] /\ status' = status
  BY HandlerFacts DEF Return, Throw, At, Goto, rowVars
<1>2. ASSUME NEW t \in Slots
      PROVE  EndOf(run'[t], status')
  BY <1>1 DEF AInv, EndOf, Idle, IInv, TypeOK
<1>3. \A j \in Jobs \ {run[s].job} : queue'[j] = queue[j]
  BY DEF Return, Throw, J, IInv, TypeOK
<1>4. /\ status[run[s].job] = "running" => queue'[run[s].job].state \in {"waiting", "active"}
      /\ queue'[run[s].job].state = "failed" => status[run[s].job] = "failed"
  <2>1. CASE Return(s)
    <3>1. status[run[s].job] # "running" /\ queue'[run[s].job] = NotQueued
      BY <1>1, <2>1 DEF Return, At, J, AInv, EndOf, IInv, TypeOK
    <3> QED
      BY <3>1 DEF NotQueued
  <2>2. CASE Throw(s)
    BY <2>2 DEF Throw, At, AInv, EndOf
  <2> QED
    BY <2>1, <2>2
<1>5. ASSUME NEW j \in Jobs
      PROVE  Agrees(j)'
  BY <1>1, <1>3, <1>4 DEF AInv, Agrees
<1> QED
  BY <1>2, <1>5 DEF AInv

LEMMA OutsideAgrees ==
  ASSUME IInv, AInv,
         \/ \E j \in Jobs : Create(j) \/ Cancel(j) \/ AddToQueue(j) \/ Stalled(j) \/ \E s \in Slots : Pick(s, j)
         \/ ReadPending \/ Crash \/ UNCHANGED vars
  PROVE  AInv'
<1>1. CASE ReadPending \/ UNCHANGED vars
  BY <1>1 DEF ReadPending, vars, rowVars, AInv, Agrees, EndOf
<1>2. CASE Crash
  BY <1>2 DEF Crash, rowVars, AInv, Agrees, EndOf, Idle
<1>3. \A s \in Slots : run[s].pc # "idle" => run[s].job \in Jobs /\ queue[run[s].job].state = "active"
  BY HandlerFacts
<1>4. ASSUME NEW j \in Jobs, Create(j) \/ Cancel(j)
      PROVE  AInv'
  <2>1. /\ UNCHANGED <<run, queue>> /\ status[j] \in {"absent", "pending", "running"}
        /\ status'[j] \in {"pending", "failed"} /\ (status'[j] = "pending" => status[j] = "absent")
        /\ \A i \in Jobs \ {j} : status'[i] = status[i]
    BY <1>4 DEF Create, Cancel, IInv, TypeOK
  <2>2. ASSUME NEW i \in Jobs
        PROVE  Agrees(i)'
    BY <2>1 DEF AInv, Agrees
  <2>3. ASSUME NEW s \in Slots
        PROVE  EndOf(run'[s], status')
    BY <1>3, <2>1 DEF AInv, EndOf
  <2> QED
    BY <2>2, <2>3 DEF AInv
<1>5. ASSUME NEW j \in Jobs, AddToQueue(j)
      PROVE  AInv'
  <2>1. /\ UNCHANGED <<run, status>> /\ (queue'[j] = queue[j] \/ queue'[j].state = "waiting")
        /\ \A i \in Jobs \ {j} : queue'[i] = queue[i]
    BY <1>5 DEF AddToQueue, Enqueued, NotQueued, rowVars, IInv, TypeOK
  <2> QED
    BY <2>1 DEF AInv, Agrees, EndOf
<1>6. ASSUME NEW j \in Jobs, Stalled(j)
      PROVE  AInv'
  <2>1. queue[j] \in QueueStates /\ queue \in [Jobs -> QueueStates] /\ UNCHANGED <<run, status>>
    BY <1>6 DEF IInv, TypeOK, Stalled, rowVars
  <2>2. /\ queue'[j].stalls = queue[j].stalls + 1
        /\ queue[j].stalls # MaxStalls => queue'[j].state = "waiting"
        /\ \A i \in Jobs \ {j} : queue'[i] = queue[i]
    BY <1>6, <2>1 DEF Stalled, QueueStates
  <2>3. queue[j].stalls = MaxStalls => ~(queue'[j].stalls <= MaxStalls)
    BY <2>2, BoundAssumption
  <2>4. ASSUME NEW i \in Jobs
        PROVE  Agrees(i)'
    BY <2>1, <2>2, <2>3 DEF AInv, Agrees
  <2> QED
    BY <2>1, <2>4 DEF AInv, EndOf
<1>7. ASSUME NEW j \in Jobs, NEW s \in Slots, Pick(s, j)
      PROVE  AInv'
  <2>1. /\ queue[j] \in QueueStates /\ queue \in [Jobs -> QueueStates] /\ status' = status
        /\ run' = [run EXCEPT ![s] = [Idle EXCEPT !.pc = "start", !.job = j]]
    BY <1>7 DEF IInv, TypeOK, Pick, Goto, rowVars
  <2>2. /\ queue'[j].stalls = queue[j].stalls /\ queue'[j].state = "active"
        /\ \A i \in Jobs \ {j} : queue'[i] = queue[i]
    BY <1>7, <2>1 DEF Pick, QueueStates
  <2>3. [Idle EXCEPT !.pc = "start", !.job = j].pc = "start"
    BY DEF Idle
  <2>4. ASSUME NEW t \in Slots
        PROVE  EndOf(run'[t], status')
    BY <2>1, <2>3 DEF AInv, EndOf, IInv, TypeOK
  <2>5. ASSUME NEW i \in Jobs
        PROVE  Agrees(i)'
    BY <2>1, <2>2 DEF AInv, Agrees
  <2> QED
    BY <2>4, <2>5 DEF AInv
<1> QED
  BY <1>1, <1>2, <1>4, <1>5, <1>6, <1>7

\* A step without a failing call of the worker's own keeps the agreement; only
\* such calls leave a run without a word in the row.
LEMMA AgreementInductive ==
  ASSUME IInv, faults = 0 => AInv, [Next]_vars, faults' = 0
  PROVE  AInv'
<1>1. faults \in Nat
  BY BoundAssumption DEF IInv, TypeOK
<1>2. /\ \A j \in Jobs : ~AddFails(j)
      /\ \A s \in Slots : ~StartFails(s) /\ ~DatabaseFails(s) /\ ~RecordingFails(s)
  BY <1>1 DEF AddFails, StartFails, DatabaseFails, RecordingFails
<1>3. ASSUME NEW s \in Slots, Progress(s), faults = 0
      PROVE  AInv'
  <2>1. CASE StartJob(s) \/ Authorize(s) \/ Enter(s) \/ AskSynced(s) \/ AskCapability(s) \/ Advance(s) \/ MarkIncomplete(s)
    BY <1>3, <2>1, RunAgrees
  <2>2. CASE \E u \in run[s].todo : MarkUnavailable(s, u) \/ Open(s, u)
    BY <1>3, <2>2, RunAgrees
  <2>3. CASE SavesPage(s) \/ SaveMetrics(s)
    BY <1>3, <2>3, SavesPageAgrees, SaveMetricsAgrees
  <2>4. CASE \E k \in run[s].fresh : Announce(s, k)
    BY <1>3, <2>4, AnnounceAgrees
  <2>5. CASE Complete(s) \/ RecordFailure(s) \/ Return(s) \/ Throw(s)
    BY <1>3, <2>5, EndingAgrees, LeavingAgrees
  <2> QED
    BY <1>3, <2>1, <2>2, <2>3, <2>4, <2>5 DEF Progress
<1>4. ASSUME NEW s \in Slots, Failure(s), faults = 0
      PROVE  AInv'
  BY <1>2, <1>4, RunAgrees DEF Failure
<1>5. faults = 0
  <2>1. CASE \E s \in Slots : Progress(s)
    <3>1. PICK s \in Slots : Progress(s)
      BY <2>1
    <3>2. UNCHANGED faults \/ faults' = faults + 1
      BY <3>1 DEF Progress, StartJob, Authorize, Enter, AskSynced, AskCapability, Advance, Complete, MarkUnavailable,
                  Open, SavesPage, SaveNotesPage,
                  SaveCommentsPage, SaveRepliesPage, SavePage, SaveMetrics, Announce, MarkIncomplete, RecordFailure,
                  Return, Throw
    <3> QED
      BY <1>1, <3>2
  <2>2. CASE \E s \in Slots : Failure(s) \/ \E j \in Jobs : Pick(s, j)
    BY <1>2, <2>2 DEF Failure, CallFails, Pick
  <2>3. CASE \/ \E j \in Jobs : Create(j) \/ Cancel(j) \/ AddToQueue(j) \/ AddFails(j) \/ Stalled(j)
             \/ ReadPending \/ Crash \/ UNCHANGED vars
    BY <1>2, <2>3 DEF Create, Cancel, AddToQueue, Stalled, ReadPending, Crash, vars
  <2> QED
    BY <2>1, <2>2, <2>3 DEF Next
<1>6. CASE \/ \E j \in Jobs : Create(j) \/ Cancel(j) \/ AddToQueue(j) \/ Stalled(j) \/ \E s \in Slots : Pick(s, j)
           \/ ReadPending \/ Crash \/ UNCHANGED vars
  BY <1>5, <1>6, OutsideAgrees
<1> QED
  BY <1>2, <1>3, <1>4, <1>5, <1>6 DEF Next

\* A running row has an attempt coming and a job the queue gave up is failed
\* (RowAgreesWithQueue), up to the first failing call of the worker's own and
\* the stall too many, for every number of attempts, crashes and cancellations.
THEOREM RowsAgree == Spec => []RowAgreesWithQueue
<1> DEFINE Agreed == faults = 0 => AInv
<1>1. Init => Agreed
  BY DEF Init, Idle, NotQueued, AInv, Agrees, EndOf
<1>2. IInv /\ Agreed /\ [Next]_vars => Agreed'
  BY AgreementInductive
<1>3. Agreed => RowAgreesWithQueue
  BY DEF AInv, Agrees, RowAgreesWithQueue
<1> QED
  BY <1>1, <1>2, <1>3, Invariance, PTL DEF Spec
=============================================================================
