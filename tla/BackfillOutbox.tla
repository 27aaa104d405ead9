--------------------------- MODULE BackfillOutbox ---------------------------
(***************************************************************************)
(* From a changed metric to a rebuilt report, for one note of one account: *)
(* saveMetrics commits the observation together with an outbox event       *)
(* (sync.repository.ts); overlapping dispatcher invocations claim events   *)
(* under a token and a lease and enqueue one rebuild job per affected      *)
(* report scope (report.scheduler.ts); the report worker's slots load the  *)
(* evidence and append report versions (report.service.ts).  A step is one *)
(* database transaction or statement, or one queue command.                *)
(***************************************************************************)
EXTENDS Integers, Sequences, FiniteSets

CONSTANTS
  Dates,        \* business dates, numbered in order
  Open,         \* dates still observed; the others were, before the start
  Values,       \* observations the connector may report of one date
  Settled,      \* the observation of the dates that are not open
  NoData,       \* no snapshot of that date
  Scopes,       \* report scopes: a type and its period
  First, Last,  \* the first and last date of every scope
  Reported,     \* scopes that already have a first report, awaiting its data
  OnlyAwaiting, \* TRUE for a mock account, FALSE for official and self-scrape
  MayRevert,    \* the connector may repeat an observation it has replaced
  Dispatchers,  \* concurrent invocations of dispatchPending, and their tokens
  Workers,      \* slots of the report worker (REPORT_CONCURRENCY)
  Nobody,       \* no event, no token, no slot
  MaxAttempts,  \* attempts of a report job (3 in the code)
  MaxStalls,    \* BullMQ's maxStalledCount (1 by default)
  MaxSaves,     \* bound: observations committed
  MaxCrashes,   \* bound: crashes of the worker process
  MaxFaults     \* bound: database or Redis calls that fail on their own

Events == Dates \X Values   \* the id is a digest of note, date and observation

JobIds == Scopes \X (Events \cup {Nobody})

ASSUME NothingAssumption == NoData \notin Values /\ Nobody \notin Events \cup JobIds \cup Dispatchers \cup Workers
ASSUME PeriodAssumption == /\ Dates \subseteq Int /\ Open \subseteq Dates /\ Settled \in Values
                           /\ First \in [Scopes -> Dates] /\ Last \in [Scopes -> Dates]
                           /\ \A s \in Scopes : First[s] <= Last[s] /\ First[s]..Last[s] \subseteq Dates
                           /\ Reported \subseteq Scopes
ASSUME FlagAssumption == OnlyAwaiting \in BOOLEAN /\ MayRevert \in BOOLEAN
ASSUME BoundAssumption == /\ MaxAttempts \in Nat \ {0} /\ MaxStalls \in Nat /\ MaxSaves \in Nat
                          /\ MaxCrashes \in Nat /\ MaxFaults \in Nat

VARIABLES
  data,     \* the current snapshot of every date
  event,    \* BackfillEvent rows: dispatchStatus, claimToken, lease over
  owed,     \* history: scopes that had an affected report when it was committed
  hand,     \* what every dispatcher invocation holds
  jobs,     \* report jobs by id, as BullMQ holds them
  work,     \* the report job in every slot
  lock,     \* advisory lock of every scope
  versions, \* Report rows of every scope, in commit order
  missed,   \* history: scopes that changed, since they were last loaded, with no rebuild to come
  overlapped, \* history: scopes that were last loaded while another slot carried an older load
  saves, crashes, faults

eventVars == <<event, owed, hand>>
reportVars == <<work, lock, versions>>
slips == <<missed, overlapped>>
vars == <<data, eventVars, jobs, reportVars, slips, saves, crashes, faults>>

\* Mutant of RebuildJob: the id leaves the event out.
RebuildOfScope(s, e) == <<s, Nobody>>

\* Job ids: the scheduled report of a scope, and its rebuild for an event.
Scheduled(s) == <<s, Nobody>>
RebuildJob(s, e) == <<s, e>>
Period(s) == First[s]..Last[s]

Evidences == UNION {[D -> Values] : D \in SUBSET Dates}

Contents == [missing : SUBSET Dates, evidence : Evidences]

Free == [batch |-> {}, event |-> Nobody, todo |-> {}, failing |-> FALSE]
Awaiting(dates) == [missing |-> dates, evidence |-> <<>>]
Idle == [pc |-> "idle", job |-> Nobody, content |-> Awaiting({}), number |-> 0]
NoJob == [state |-> "none", attempts |-> 0, stalls |-> 0]

EventRows == [state : {"absent", "pending", "processing", "failed", "dispatched"},
              token : Dispatchers \cup {Nobody}, lapsed : BOOLEAN]

Hands == [batch : SUBSET Events, event : Events \cup {Nobody}, todo : SUBSET Scopes, failing : BOOLEAN]

QueueStates == [state : {"none", "waiting", "active", "done", "failed"},
                attempts : 0..MaxAttempts, stalls : 0..(MaxStalls + 1)]

Slots == [pc : {"idle", "load", "lock", "insert", "finish"}, job : JobIds \cup {Nobody},
          content : Contents, number : Nat]

TypeOK ==
  /\ data \in [Dates -> Values \cup {NoData}]
  /\ event \in [Events -> EventRows]
  /\ owed \in [Events -> SUBSET Scopes]
  /\ hand \in [Dispatchers -> Hands]
  /\ jobs \in [JobIds -> QueueStates]
  /\ work \in [Workers -> Slots]
  /\ lock \in [Scopes -> Workers \cup {Nobody}]
  /\ versions \in [Scopes -> Seq([number : Nat, content : Contents])]
  /\ missed \subseteq Scopes /\ overlapped \subseteq Scopes
  /\ saves \in 0..MaxSaves /\ crashes \in 0..MaxCrashes /\ faults \in 0..MaxFaults

Available == {d \in Dates : data[d] # NoData}

\* The snapshot before the period that its deltas start from, if any.
Baseline(s) == {d \in Available : d < First[s] /\ \A e \in Available : e < First[s] => e <= d}

\* findMissingFields and aggregateByMetric: the dates without a snapshot or,
\* when only the baseline is missing, the first date.
Missing(s) ==
  LET gaps == Period(s) \ Available
  IN  IF gaps = {} /\ Baseline(s) = {} THEN {First[s]} ELSE gaps

\* What a report of s stores, computed from the current snapshots.
Content(s) ==
  IF Missing(s) # {} THEN Awaiting(Missing(s))
  ELSE [missing |-> {}, evidence |-> [d \in Period(s) \cup Baseline(s) |-> data[d]]]

Init ==
  /\ data = [d \in Dates |-> IF d \in Open THEN NoData ELSE Settled]
  /\ event = [e \in Events |-> [state |-> "absent", token |-> Nobody, lapsed |-> FALSE]]
  /\ owed = [e \in Events |-> {}]
  /\ hand = [d \in Dispatchers |-> Free]
  /\ jobs = [id \in JobIds |-> IF id[1] \in Reported /\ id[2] = Nobody THEN [NoJob EXCEPT !.state = "done"] ELSE NoJob]
  /\ work = [w \in Workers |-> Idle]
  /\ lock = [s \in Scopes |-> Nobody]
  /\ versions = [s \in Scopes |-> IF s \in Reported
                                  THEN <<[number |-> 1, content |-> Content(s)]>>
                                  ELSE <<>>]
  /\ missed = {} /\ overlapped = {}
  /\ saves = 0 /\ crashes = 0 /\ faults = 0

-----------------------------------------------------------------------------
(* saveMetrics: a changed observation and its event in one transaction.     *)

Latest(s) == versions[s][Len(versions[s])].content

\* findAffectedReports: the latest report of every scope that contains the
\* date; for a mock account only those that wait for it.
Affected(e) ==
  {s \in Scopes : /\ versions[s] # <<>> /\ e[1] \in Period(s)
                  /\ OnlyAwaiting => e[1] \in Latest(s).missing}

\* Scopes that a step changes without a new event for the reports they have: the baseline of
\* the period, a returned observation, the first report in the making, a mock account's report.
Unannounced(e) == {s \in Scopes : Content(s)' # Content(s) /\ ~(event[e].state = "absent" /\ s \in Affected(e))}

\* An event id already known is left as it is (upsert with an empty update).
Save(d, v) ==
  /\ d \in Open /\ saves < MaxSaves /\ data[d] # v
  /\ MayRevert \/ event[<<d, v>>].state = "absent"
  /\ data' = [data EXCEPT ![d] = v]
  /\ IF event[<<d, v>>].state = "absent"
     THEN /\ event' = [event EXCEPT ![<<d, v>>].state = "pending"]
          /\ owed' = [owed EXCEPT ![<<d, v>>] = Affected(<<d, v>>)]
     ELSE UNCHANGED <<event, owed>>
  /\ missed' = missed \cup Unannounced(<<d, v>>)
  /\ saves' = saves + 1
  /\ UNCHANGED <<hand, jobs, reportVars, overlapped, crashes, faults>>

-----------------------------------------------------------------------------
(* dispatchPending: claim a batch, then handle its events one by one.       *)

Claimable(e) == event[e].state \in {"pending", "failed"} \/ (event[e].state = "processing" /\ event[e].lapsed)

Claim(d) ==
  /\ hand[d] = Free
  /\ LET claimed == {e \in Events : Claimable(e)}
     IN  /\ claimed # {}
         /\ event' = [e \in Events |-> IF e \in claimed
                                       THEN [state |-> "processing", token |-> d, lapsed |-> FALSE]
                                       ELSE event[e]]
         /\ hand' = [hand EXCEPT ![d].batch = claimed]
  /\ UNCHANGED <<data, owed, jobs, reportVars, slips, saves, crashes, faults>>

\* Five minutes pass; nothing bounds the time an invocation takes.
LeaseExpires(e) ==
  /\ event[e].state = "processing" /\ ~event[e].lapsed
  /\ event' = [event EXCEPT ![e].lapsed = TRUE]
  /\ UNCHANGED <<data, owed, hand, jobs, reportVars, slips, saves, crashes, faults>>

\* The next event of the batch and its affected reports.
Take(d, e) ==
  /\ hand[d].event = Nobody /\ e \in hand[d].batch
  /\ hand' = [hand EXCEPT ![d] = [Free EXCEPT !.batch = hand[d].batch \ {e}, !.event = e, !.todo = Affected(e)]]
  /\ UNCHANGED <<data, event, owed, jobs, reportVars, slips, saves, crashes, faults>>

\* queue.add is a no-op for an id BullMQ still holds (completed jobs for days).
Added(q) == IF q.state = "none" THEN [q EXCEPT !.state = "waiting"] ELSE q

AddRebuild(d, s) ==
  /\ hand[d].event # Nobody /\ ~hand[d].failing /\ s \in hand[d].todo
  /\ LET id == RebuildJob(s, hand[d].event) IN jobs' = [jobs EXCEPT ![id] = Added(jobs[id])]
  /\ hand' = [hand EXCEPT ![d].todo = hand[d].todo \ {s}]
  /\ UNCHANGED <<data, event, owed, reportVars, slips, saves, crashes, faults>>

\* Mutant of Owns: the update matches the event id alone.
OwnsById(d, e) == TRUE

\* updateDispatch: only the owner of an event in processing changes it.
Owns(d, e) == event[e].token = d /\ event[e].state = "processing"

Updated(d, e, state) == IF Owns(d, e) THEN [state |-> state, token |-> Nobody, lapsed |-> FALSE] ELSE event[e]

\* Mutant of MarkDispatched: marked before its rebuilds are enqueued.
MarkDispatchedFirst(d) ==
  LET e == hand[d].event
  IN  /\ e # Nobody /\ ~hand[d].failing
      /\ event' = [event EXCEPT ![e] = Updated(d, e, "dispatched")]
      /\ UNCHANGED <<data, owed, hand, jobs, reportVars, slips, saves, crashes, faults>>

\* The event leaves the hand, also when the claim turns out to be lost.
MarkDispatched(d) ==
  LET e == hand[d].event
  IN  /\ e # Nobody /\ ~hand[d].failing /\ hand[d].todo = {}
      /\ event' = [event EXCEPT ![e] = Updated(d, e, "dispatched")]
      /\ hand' = [hand EXCEPT ![d] = [Free EXCEPT !.batch = hand[d].batch]]
      /\ UNCHANGED <<data, owed, jobs, reportVars, slips, saves, crashes, faults>>

MarkDispatchFailed(d) ==
  LET e == hand[d].event
  IN  /\ hand[d].failing
      /\ event' = [event EXCEPT ![e] = Updated(d, e, "failed")]
      /\ hand' = [hand EXCEPT ![d] = [Free EXCEPT !.batch = hand[d].batch]]
      /\ UNCHANGED <<data, owed, jobs, reportVars, slips, saves, crashes, faults>>

\* A call on the event in hand throws: the first error is to be recorded, an
\* error while recording it drops the event until its lease is over.
DispatchFaults(d) ==
  /\ hand[d].event # Nobody /\ faults < MaxFaults
  /\ faults' = faults + 1
  /\ hand' = [hand EXCEPT ![d] = IF hand[d].failing THEN [Free EXCEPT !.batch = hand[d].batch]
                                 ELSE [hand[d] EXCEPT !.failing = TRUE]]
  /\ UNCHANGED <<data, event, owed, jobs, reportVars, slips, saves, crashes>>

\* markDispatched commits but its answer is lost.
AnswerLost(d) ==
  LET e == hand[d].event
  IN  /\ e # Nobody /\ ~hand[d].failing /\ hand[d].todo = {} /\ faults < MaxFaults
      /\ faults' = faults + 1
      /\ event' = [event EXCEPT ![e] = Updated(d, e, "dispatched")]
      /\ hand' = [hand EXCEPT ![d].failing = TRUE]
      /\ UNCHANGED <<data, owed, jobs, reportVars, slips, saves, crashes>>

-----------------------------------------------------------------------------
(* The report queue and its worker.                                         *)

\* enqueueScheduledReports: the day's tick, the same id every minute.
Schedule(s) ==
  /\ jobs[Scheduled(s)].state = "none"
  /\ jobs' = [jobs EXCEPT ![Scheduled(s)] = Added(jobs[Scheduled(s)])]
  /\ UNCHANGED <<data, eventVars, reportVars, slips, saves, crashes, faults>>

Start(w, id) ==
  /\ work[w].pc = "idle" /\ jobs[id].state = "waiting"
  /\ jobs' = [jobs EXCEPT ![id].state = "active"]
  /\ work' = [work EXCEPT ![w] = [Idle EXCEPT !.pc = "load", !.job = id]]
  /\ UNCHANGED <<data, eventVars, lock, versions, slips, saves, crashes, faults>>

ScopeOf(w) == work[w].job[1]

\* A slot has loaded the evidence of s and not stored it yet.
Carries(w, s) == work[w].pc \in {"lock", "insert"} /\ ScopeOf(w) = s

LoadEvidence(w) ==
  /\ work[w].pc = "load"
  /\ work' = [work EXCEPT ![w].pc = "lock", ![w].content = Content(ScopeOf(w))]
  /\ missed' = missed \ {ScopeOf(w)}
  /\ overlapped' = IF \E v \in Workers : Carries(v, ScopeOf(w)) THEN overlapped \cup {ScopeOf(w)}
                   ELSE overlapped \ {ScopeOf(w)}
  /\ UNCHANGED <<data, eventVars, jobs, lock, versions, saves, crashes, faults>>

\* Mutant of LockFree: the transaction takes no lock.
LockIgnored(s) == TRUE

\* createVersion: the scope's advisory lock, then the latest version.
LockFree(s) == lock[s] = Nobody

LockScope(w) ==
  /\ work[w].pc = "lock" /\ LockFree(ScopeOf(w))
  /\ lock' = [lock EXCEPT ![ScopeOf(w)] = w]
  /\ work' = [work EXCEPT ![w].pc = "insert", ![w].number = Len(versions[ScopeOf(w)]) + 1]
  /\ UNCHANGED <<data, eventVars, jobs, versions, slips, saves, crashes, faults>>

InsertVersion(w) ==
  /\ work[w].pc = "insert"
  /\ versions' = [versions EXCEPT ![ScopeOf(w)] = Append(@, [number |-> work[w].number, content |-> work[w].content])]
  /\ lock' = [lock EXCEPT ![ScopeOf(w)] = Nobody]
  /\ work' = [work EXCEPT ![w].pc = "finish"]
  /\ UNCHANGED <<data, eventVars, jobs, slips, saves, crashes, faults>>

Finish(w) ==
  /\ work[w].pc = "finish"
  /\ jobs' = [jobs EXCEPT ![work[w].job].state = "done"]
  /\ work' = [work EXCEPT ![w] = Idle]
  /\ UNCHANGED <<data, eventVars, lock, versions, slips, saves, crashes, faults>>

\* Locks of slots that are gone: their transactions are rolled back.
Released(gone) == [s \in Scopes |-> IF lock[s] \in gone THEN Nobody ELSE lock[s]]

\* Mutants of Retried: the attempt limit is off by one, or there is no retry.
RetriedOnceMore(q) == [q EXCEPT !.attempts = q.attempts + 1,
                                !.state = IF q.attempts = MaxAttempts THEN "failed" ELSE "waiting"]
NotRetried(q) == [q EXCEPT !.attempts = q.attempts + 1, !.state = "failed"]

Retried(q) == [q EXCEPT !.attempts = q.attempts + 1,
                        !.state = IF q.attempts + 1 = MaxAttempts THEN "failed" ELSE "waiting"]

\* Out of attempts or stalls, the job of the scope does not run again.
GivesUp(id, last) == missed' = IF last THEN missed \cup {id[1]} ELSE missed

\* Also after the version is in: a scheduled job goes on to other accounts.
GenerationFails(w) ==
  /\ work[w].pc # "idle" /\ faults < MaxFaults
  /\ faults' = faults + 1
  /\ jobs' = [jobs EXCEPT ![work[w].job] = Retried(jobs[work[w].job])]
  /\ GivesUp(work[w].job, jobs[work[w].job].attempts + 1 >= MaxAttempts)
  /\ lock' = Released({w})
  /\ work' = [work EXCEPT ![w] = Idle]
  /\ UNCHANGED <<data, eventVars, versions, overlapped, saves, crashes>>

Crash ==
  /\ crashes < MaxCrashes
  /\ crashes' = crashes + 1
  /\ hand' = [d \in Dispatchers |-> Free]
  /\ work' = [w \in Workers |-> Idle]
  /\ lock' = Released(Workers)
  /\ UNCHANGED <<data, event, owed, jobs, versions, slips, saves, faults>>

Stalled(id) ==
  /\ jobs[id].state = "active"
  /\ \A w \in Workers : work[w].job # id
  /\ jobs' = [jobs EXCEPT ![id].stalls = @ + 1,
                          ![id].state = IF jobs[id].stalls = MaxStalls THEN "failed" ELSE "waiting"]
  /\ GivesUp(id, jobs[id].stalls >= MaxStalls)
  /\ UNCHANGED <<data, eventVars, reportVars, overlapped, saves, crashes, faults>>

-----------------------------------------------------------------------------
Dispatch(d) ==
  \/ \E e \in Events : Take(d, e)
  \/ \E s \in Scopes : AddRebuild(d, s)
  \/ MarkDispatched(d) \/ MarkDispatchFailed(d)

Generate(w) == LoadEvidence(w) \/ LockScope(w) \/ InsertVersion(w) \/ Finish(w)

Next ==
  \/ \E d \in Dates, v \in Values : Save(d, v)
  \/ \E d \in Dispatchers : Claim(d) \/ Dispatch(d) \/ DispatchFaults(d) \/ AnswerLost(d)
  \/ \E e \in Events : LeaseExpires(e)
  \/ \E s \in Scopes : Schedule(s)
  \/ \E w \in Workers : Generate(w) \/ GenerationFails(w) \/ \E id \in JobIds : Start(w, id)
  \/ \E id \in JobIds : Stalled(id)
  \/ Crash

Spec == Init /\ [][Next]_vars

\* The minute's tick claims and schedules, invocations and slots go on, time
\* passes, BullMQ hands out waiting jobs and looks for stalled ones.
Fairness ==
  /\ \A d \in Dispatchers : WF_vars(Claim(d)) /\ WF_vars(Dispatch(d))
  /\ \A e \in Events : WF_vars(LeaseExpires(e))
  /\ \A s \in Scopes : WF_vars(Schedule(s))
  /\ \A w \in Workers : WF_vars(Generate(w)) /\ WF_vars(\E id \in JobIds : Start(w, id))
  /\ \A id \in JobIds : WF_vars(Stalled(id))

FairSpec == Spec /\ Fairness

-----------------------------------------------------------------------------
\* The advisory lock serialises the versions of a scope: they are numbered
\* 1, 2, 3 in commit order, whatever slots, retries and crashes do.
VersionsInOrder == \A s \in Scopes : \A i \in 1..Len(versions[s]) : versions[s][i].number = i

\* A dispatched event stays dispatched: neither a dispatcher whose lease ran
\* out nor one whose answer was lost reopens or fails it.
DispatchedIsFinal ==
  [][\A e \in Events : event[e].state = "dispatched" => event'[e] = event[e]]_vars

\* The report a reader sees says what the snapshots say now; a complete report
\* of a mock account may be behind.
Fresh(s) == (OnlyAwaiting /\ Latest(s).missing = {}) \/ Latest(s) = Content(s)

Quiet ==
  /\ \A e \in Events : event[e].state \in {"absent", "dispatched"}
  /\ \A d \in Dispatchers : hand[d] = Free
  /\ \A id \in JobIds : jobs[id].state \notin {"waiting", "active"}

\* The content of s is stored: as the latest report or, when two slots carried the scope at
\* once, as one of its versions, with an older one perhaps after it.
Told(s) == IF s \notin overlapped THEN Fresh(s)
           ELSE OnlyAwaiting \/ \E i \in 1..Len(versions[s]) : versions[s][i].content = Content(s)

\* Once the outbox, the queue and the worker have nothing left to do, the latest report of
\* every scope accounts for every committed observation: the only ways to fall behind are an
\* observation committed without an event for the scope, a job out of attempts or stalls
\* (missed), and two slots storing the versions of a scope in the wrong order (overlapped).
CaughtUp == Quiet => \A s \in Scopes \ missed : versions[s] # <<>> => Told(s)

\* Every scope gets its report, and every report catches up with the observations committed,
\* so every event is dispatched at last; with the same exceptions.
ReportsCatchUp == \A s \in Scopes : <>[](s \in missed \/ (versions[s] # <<>> /\ Told(s)))

\* The outbox as its readers know it.
Sent == [e \in Events |-> {s \in Scopes : jobs[RebuildJob(s, e)].state # "none"}]

Phase == [e \in Events |-> IF event[e].state \in {"absent", "dispatched"} THEN event[e].state ELSE "committed"]

Promised == INSTANCE Outbox WITH phase <- Phase, sent <- Sent

\* Tokens, leases, batches and retries implement the outbox.
ImplementsOutbox == Promised!Spec
=============================================================================
