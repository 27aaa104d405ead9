------------------------- MODULE BackfillOutboxProofs -------------------------
(* Theorems about BackfillOutbox for every value of its constants: the types, *)
(* the version numbers, the finality of a dispatched event, that tokens,      *)
(* leases, batches and retries implement the abstract Outbox, and that the    *)
(* reports catch up with the observations.                                    *)
EXTENDS BackfillOutbox, TLAPS

\* A slot at work holds its job alone, and the queue has it active.
Holding ==
  \A w \in Workers :
    /\ work[w].pc = "idle" <=> work[w].job = Nobody
    /\ work[w].job # Nobody =>
         /\ jobs[work[w].job].state = "active"
         /\ \A v \in Workers \ {w} : work[v].job # work[w].job

Budget ==
  \A id \in JobIds : jobs[id].state \in {"none", "waiting", "active"} =>
    jobs[id].attempts < MaxAttempts /\ jobs[id].stalls <= MaxStalls

\* A slot about to insert owns its scope's lock and numbers the next version.
Locked ==
  \A w \in Workers : work[w].pc = "insert" =>
    /\ lock[work[w].job[1]] = w
    /\ work[w].number = Len(versions[work[w].job[1]]) + 1

IsSent(s, e) == jobs[RebuildJob(s, e)].state # "none"

\* What an event still owes is still to be enqueued by whoever holds it.  For a
\* mock account the reports that wait for a date may have changed since.
Outstanding ==
  \A d \in Dispatchers : LET h == hand[d] IN h.event # Nobody =>
    /\ event[h.event].state # "absent"
    /\ OnlyAwaiting \/ h.failing \/ \A s \in owed[h.event] : s \in h.todo \/ IsSent(s, h.event)

Batched == \A d \in Dispatchers : \A e \in hand[d].batch : event[e].state # "absent"

\* A dispatched event owes nothing.
Paid == OnlyAwaiting \/ \A e \in Events : event[e].state = "dispatched" => \A s \in owed[e] : IsSent(s, e)

\* What is owed was affected, and reports do not go away.
OwedReported ==
  \A e \in Events : \A s \in owed[e] : versions[s] # <<>> /\ e[1] \in Period(s)

WorkerInv == Holding /\ Budget /\ Locked /\ VersionsInOrder
OutboxInv == Outstanding /\ Batched /\ Paid /\ OwedReported
IInv == TypeOK /\ WorkerInv /\ OutboxInv

-----------------------------------------------------------------------------
\* The records of slots, hands and rows.
LEMMA Constructed ==
  /\ Idle \in Slots /\ Idle.pc = "idle" /\ Idle.job = Nobody
  /\ Free \in Hands /\ Free.event = Nobody /\ Free.batch = {} /\ Free.failing = FALSE /\ Free.todo = {}
  /\ NoJob \in QueueStates /\ NoJob.state = "none" /\ NoJob.attempts = 0 /\ NoJob.stalls = 0
<1>1. Awaiting({}) \in Contents
  <2>1. <<>> \in [{} -> Values]
    OBVIOUS
  <2>2. <<>> \in Evidences
    BY <2>1 DEF Evidences
  <2> QED
    BY <2>2 DEF Awaiting, Contents
<1>2. Idle \in Slots /\ Idle.pc = "idle" /\ Idle.job = Nobody
  BY <1>1 DEF Idle, Slots
<1>3. Free \in Hands /\ Free.event = Nobody /\ Free.batch = {} /\ Free.failing = FALSE /\ Free.todo = {}
  BY DEF Free, Hands
<1>4. NoJob \in QueueStates /\ NoJob.state = "none" /\ NoJob.attempts = 0 /\ NoJob.stalls = 0
  BY BoundAssumption DEF NoJob, QueueStates
<1> QED
  BY <1>2, <1>3, <1>4

\* Whatever the snapshots, a report's content is one.
LEMMA ContentTyped ==
  ASSUME data \in [Dates -> Values \cup {NoData}], NEW s \in Scopes
  PROVE  Content(s) \in Contents
<1>1. Period(s) \subseteq Dates /\ First[s] \in Dates
  BY PeriodAssumption DEF Period
<1>2. Missing(s) \in SUBSET Dates
  BY <1>1 DEF Missing
<1>3. CASE Missing(s) # {}
  <2>1. <<>> \in [{} -> Values]
    OBVIOUS
  <2>2. <<>> \in Evidences
    BY <2>1 DEF Evidences
  <2> QED
    BY <1>2, <1>3, <2>2 DEF Content, Awaiting, Contents
<1>4. CASE Missing(s) = {}
  <2> DEFINE D == Period(s) \cup Baseline(s)
             ev == [d \in D |-> data[d]]
  <2>1. Period(s) \subseteq Available
    BY <1>1, <1>4 DEF Missing
  <2>2. D \in SUBSET Dates /\ D \subseteq Available
    BY <1>1, <2>1 DEF Baseline, Available
  <2>3. \A d \in D : data[d] \in Values
    BY <2>2 DEF Available
  <2>4. ev \in [D -> Values]
    BY <2>3
  <2>5. ev \in Evidences
    BY <2>2, <2>4 DEF Evidences
  <2>6. Content(s) = [missing |-> {}, evidence |-> ev]
    BY <1>4 DEF Content
  <2> HIDE DEF ev
  <2> QED
    BY <2>5, <2>6 DEF Contents
<1> QED
  BY <1>3, <1>4

\* Steps of the outbox do not touch the worker, and the other way round.
LEMMA WorkerApart ==
  ASSUME WorkerInv, UNCHANGED <<jobs, work, lock, versions>>
  PROVE  WorkerInv'
BY DEF WorkerInv, Holding, Budget, Locked, VersionsInOrder

LEMMA OutboxApart ==
  ASSUME OutboxInv, TypeOK, UNCHANGED <<event, owed, hand>>,
         \A s \in Scopes, e \in Events : IsSent(s, e) => IsSent(s, e)',
         \A s \in Scopes : versions[s] # <<>> => versions'[s] # <<>>
  PROVE  OutboxInv'
<1>1. \A e \in Events : owed[e] \subseteq Scopes
  BY DEF TypeOK
<1>2. \A d \in Dispatchers : hand[d].event # Nobody => hand[d].event \in Events
  BY DEF TypeOK, Hands
<1> QED
  BY <1>1, <1>2 DEF OutboxInv, Outstanding, Batched, Paid, OwedReported

-----------------------------------------------------------------------------
LEMMA SaveStep ==
  ASSUME IInv, NEW d \in Dates, NEW v \in Values, Save(d, v)
  PROVE  IInv'
<1> DEFINE e == <<d, v>>
<1>0. e \in Events /\ event \in [Events -> EventRows] /\ owed \in [Events -> SUBSET Scopes]
  BY DEF Events, IInv, TypeOK
<1>1. WorkerInv'
  BY WorkerApart DEF IInv, Save, reportVars
<1>2. /\ data' \in [Dates -> Values \cup {NoData}] /\ saves' \in 0..MaxSaves
      /\ missed' \subseteq Scopes /\ overlapped' \subseteq Scopes
  BY BoundAssumption DEF IInv, TypeOK, Save, Unannounced
<1>3. CASE event[e].state = "absent"
  <2> DEFINE row == [event[e] EXCEPT !.state = "pending"]
             affected == Affected(e)
  <2>1. row \in EventRows /\ row.state = "pending" /\ affected \in SUBSET Scopes
    BY <1>0 DEF EventRows, Affected
  <2>2. event' = [event EXCEPT ![e] = row] /\ owed' = [owed EXCEPT ![e] = affected]
    BY <1>0, <1>3 DEF Save
  <2>3. \A s \in affected : versions[s] # <<>> /\ e[1] \in Period(s)
    BY DEF Affected
  <2>4. UNCHANGED <<hand, jobs, versions, work, lock, crashes, faults>>
    BY DEF Save, reportVars
  <2> HIDE DEF row, affected, e
  <2>5. event' \in [Events -> EventRows] /\ owed' \in [Events -> SUBSET Scopes]
    BY <1>0, <2>1, <2>2
  <2>6. \A f \in Events \ {e} : event'[f] = event[f] /\ owed'[f] = owed[f]
    BY <1>0, <2>2
  <2>7. event'[e] = row /\ owed'[e] = affected
    BY <1>0, <2>2
  <2>8. \A p \in Dispatchers : hand[p].event \in Events \cup {Nobody} /\ hand[p].batch \subseteq Events
    BY DEF IInv, TypeOK, Hands
  <2>9. \A p \in Dispatchers : hand[p].event # e /\ e \notin hand[p].batch
    BY <1>0, <1>3, <2>8, NothingAssumption DEF IInv, OutboxInv, Outstanding, Batched
  <2>10. Outstanding'
    BY <2>4, <2>6, <2>8, <2>9 DEF IInv, OutboxInv, Outstanding, IsSent
  <2>11. Batched'
    BY <2>4, <2>6, <2>8, <2>9 DEF IInv, OutboxInv, Batched
  <2>12. Paid'
    BY <1>0, <2>1, <2>4, <2>6, <2>7 DEF IInv, OutboxInv, Paid, IsSent
  <2>13. OwedReported'
    BY <1>0, <2>3, <2>4, <2>6, <2>7 DEF IInv, OutboxInv, OwedReported
  <2> QED
    BY <1>1, <1>2, <2>4, <2>5, <2>10, <2>11, <2>12, <2>13 DEF IInv, TypeOK, OutboxInv
<1>4. CASE event[e].state # "absent"
  <2>1. UNCHANGED <<event, owed, hand, jobs, versions, work, lock, crashes, faults>>
    BY <1>4 DEF Save, reportVars
  <2>2. OutboxInv'
    BY <2>1 DEF IInv, OutboxInv, Outstanding, Batched, Paid, OwedReported, IsSent
  <2> QED
    BY <1>1, <1>2, <2>1, <2>2 DEF IInv, TypeOK
<1> QED
  BY <1>3, <1>4

LEMMA ClaimStep ==
  ASSUME IInv, NEW d \in Dispatchers, Claim(d)
  PROVE  IInv'
<1> DEFINE claimed == {e \in Events : Claimable(e)}
           row == [state |-> "processing", token |-> d, lapsed |-> FALSE]
           h == [hand[d] EXCEPT !.batch = claimed]
<1>1. /\ event' = [e \in Events |-> IF e \in claimed THEN row ELSE event[e]]
      /\ hand' = [hand EXCEPT ![d] = h] /\ hand[d] = Free
      /\ UNCHANGED <<data, owed, jobs, work, lock, versions, saves, crashes, faults>>
  BY DEF Claim, reportVars, IInv, TypeOK
<1>2. row \in EventRows /\ h \in Hands /\ h.event = Nobody /\ h.batch = claimed
  BY <1>1, Constructed DEF EventRows, Hands
<1>3. \A e \in claimed : event[e].state \notin {"absent", "dispatched"}
  BY DEF Claimable
<1>4. hand \in [Dispatchers -> Hands] /\ event \in [Events -> EventRows]
  BY DEF IInv, TypeOK
<1> HIDE DEF claimed, row, h
<1>5. /\ hand' \in [Dispatchers -> Hands] /\ event' \in [Events -> EventRows]
      /\ hand'[d] = h /\ \A p \in Dispatchers \ {d} : hand'[p] = hand[p]
  BY <1>1, <1>2, <1>4
<1>6. \A e \in Events : /\ event'[e].state = "absent" <=> event[e].state = "absent"
                        /\ event'[e].state = "dispatched" <=> event[e].state = "dispatched"
  BY <1>1, <1>3 DEF row
<1>7. \A p \in Dispatchers : hand[p].event \in Events \cup {Nobody} /\ hand[p].batch \subseteq Events
  BY <1>4 DEF Hands
<1>8. Outstanding'
  BY <1>1, <1>2, <1>5, <1>6, <1>7 DEF IInv, OutboxInv, Outstanding, IsSent
<1>9. Batched'
  BY <1>2, <1>3, <1>5, <1>6, <1>7 DEF IInv, OutboxInv, Batched, claimed
<1>10. Paid' /\ OwedReported'
  BY <1>1, <1>6 DEF IInv, OutboxInv, Paid, OwedReported, IsSent
<1>11. WorkerInv'
  BY <1>1, WorkerApart DEF IInv
<1>12. missed' \subseteq Scopes /\ overlapped' \subseteq Scopes
  BY DEF Claim, slips, IInv, TypeOK
<1> QED
  BY <1>1, <1>5, <1>8, <1>9, <1>10, <1>11, <1>12 DEF IInv, TypeOK, OutboxInv

LEMMA LeaseExpiresStep ==
  ASSUME IInv, NEW e \in Events, LeaseExpires(e)
  PROVE  IInv'
<1> DEFINE row == [event[e] EXCEPT !.lapsed = TRUE]
<1>1. /\ event' = [event EXCEPT ![e] = row] /\ event \in [Events -> EventRows]
      /\ UNCHANGED <<data, owed, hand, jobs, work, lock, versions, saves, crashes, faults>>
  BY DEF LeaseExpires, reportVars, IInv, TypeOK
<1>2. row \in EventRows /\ row.state = event[e].state
  BY <1>1 DEF EventRows
<1> HIDE DEF row
<1>3. event' \in [Events -> EventRows] /\ \A f \in Events : event'[f].state = event[f].state
  BY <1>1, <1>2
<1>4. \A p \in Dispatchers : hand[p].event \in Events \cup {Nobody} /\ hand[p].batch \subseteq Events
  BY DEF IInv, TypeOK, Hands
<1>5. OutboxInv'
  BY <1>1, <1>3, <1>4 DEF IInv, OutboxInv, Outstanding, Batched, Paid, OwedReported, IsSent
<1>6. WorkerInv'
  BY <1>1, WorkerApart DEF IInv
<1>7. missed' \subseteq Scopes /\ overlapped' \subseteq Scopes
  BY DEF LeaseExpires, slips, IInv, TypeOK
<1> QED
  BY <1>1, <1>3, <1>5, <1>6, <1>7 DEF IInv, TypeOK

\* What is left to show when a dispatcher's hand changes: no event goes back
\* to absent, the new hand misses nothing, and the dispatched ones are paid.
LEMMA HandChanges ==
  ASSUME TypeOK, OutboxInv, NEW d \in Dispatchers, NEW h \in Hands,
         hand' = [hand EXCEPT ![d] = h], h.batch \subseteq hand[d].batch,
         h.event = Nobody \/ h.event = hand[d].event \/ h.event \in hand[d].batch,
         UNCHANGED <<owed, versions>>,
         \A e \in Events : event[e].state # "absent" => event'[e].state # "absent",
         \A s \in Scopes, e \in Events : IsSent(s, e) => IsSent(s, e)',
         h.event # Nobody => OnlyAwaiting \/ h.failing \/ \A s \in owed[h.event] : s \in h.todo \/ IsSent(s, h.event)',
         \A e \in Events : event'[e].state = "dispatched" =>
           event[e].state = "dispatched" \/ OnlyAwaiting \/ \A s \in owed[e] : IsSent(s, e)
  PROVE  OutboxInv' /\ hand' \in [Dispatchers -> Hands]
<1>1. \A p \in Dispatchers : hand[p].event \in Events \cup {Nobody} /\ hand[p].batch \subseteq Events
  BY DEF TypeOK, Hands
<1>2. hand'[d] = h /\ (\A p \in Dispatchers \ {d} : hand'[p] = hand[p]) /\ hand' \in [Dispatchers -> Hands]
  BY DEF TypeOK
<1>3. \A e \in Events : owed[e] \subseteq Scopes
  BY DEF TypeOK
<1>4. Outstanding'
  <2>1. h.event # Nobody => event'[h.event].state # "absent"
    BY <1>1 DEF OutboxInv, Outstanding, Batched
  <2>2. \A p \in Dispatchers \ {d} : hand[p].event # Nobody =>
          /\ event'[hand[p].event].state # "absent"
          /\ OnlyAwaiting \/ hand[p].failing
             \/ \A s \in owed[hand[p].event] : s \in hand[p].todo \/ IsSent(s, hand[p].event)'
    BY <1>1, <1>3 DEF OutboxInv, Outstanding
  <2> QED
    BY <1>2, <2>1, <2>2 DEF Outstanding, IsSent
<1>5. Batched'
  BY <1>1, <1>2 DEF OutboxInv, Batched
<1>6. Paid'
  BY <1>3 DEF OutboxInv, Paid
<1>7. OwedReported'
  BY DEF OutboxInv, OwedReported
<1> QED
  BY <1>2, <1>4, <1>5, <1>6, <1>7 DEF OutboxInv

LEMMA TakeStep ==
  ASSUME IInv, NEW d \in Dispatchers, NEW e \in Events, Take(d, e)
  PROVE  IInv'
<1> DEFINE h == [Free EXCEPT !.batch = hand[d].batch \ {e}, !.event = e, !.todo = Affected(e)]
<1>1. /\ hand' = [hand EXCEPT ![d] = h] /\ e \in hand[d].batch
      /\ UNCHANGED <<data, event, owed, jobs, work, lock, versions, saves, crashes, faults>>
  BY DEF Take, reportVars
<1>2. hand[d].batch \subseteq Events /\ owed[e] \subseteq Scopes
  BY DEF IInv, TypeOK, Hands
<1>3. h \in Hands /\ h.batch = hand[d].batch \ {e} /\ h.event = e /\ h.todo = Affected(e) /\ ~h.failing
  BY <1>2 DEF Free, Hands, Affected
<1>4. ~OnlyAwaiting => owed[e] \subseteq Affected(e)
  BY <1>2 DEF IInv, OutboxInv, OwedReported, Affected
<1> HIDE DEF h
<1>5. OutboxInv' /\ hand' \in [Dispatchers -> Hands]
  BY <1>1, <1>3, <1>4, HandChanges DEF IInv, IsSent
<1>6. WorkerInv'
  BY <1>1, WorkerApart DEF IInv
<1>7. missed' \subseteq Scopes /\ overlapped' \subseteq Scopes
  BY DEF Take, slips, IInv, TypeOK
<1> QED
  BY <1>1, <1>5, <1>6, <1>7 DEF IInv, TypeOK

\* The id of a rebuild, and what adding it to the queue does to the jobs.
LEMMA RebuildAdded ==
  ASSUME IInv, NEW d \in Dispatchers, NEW s \in Scopes, AddRebuild(d, s)
  PROVE  LET id == RebuildJob(s, hand[d].event)
         IN  /\ hand[d].event \in Events /\ id \in JobIds
             /\ jobs' \in [JobIds -> QueueStates] /\ jobs'[id] = Added(jobs[id])
             /\ \A other \in JobIds \ {id} : jobs'[other] = jobs[other]
<1> DEFINE id == RebuildJob(s, hand[d].event)
           q == Added(jobs[id])
<1>1. hand[d].event \in Events
  BY DEF AddRebuild, IInv, TypeOK, Hands
<1>2. id \in JobIds
  BY <1>1 DEF RebuildJob, JobIds
<1>3. jobs \in [JobIds -> QueueStates] /\ jobs' = [jobs EXCEPT ![id] = q]
  BY DEF AddRebuild, IInv, TypeOK
<1> HIDE DEF id
<1>4. q \in QueueStates
  BY <1>2, <1>3 DEF Added, QueueStates
<1> HIDE DEF q
<1>5. jobs' \in [JobIds -> QueueStates] /\ jobs'[id] = q /\ \A other \in JobIds \ {id} : jobs'[other] = jobs[other]
  BY <1>2, <1>3, <1>4
<1> QED
  BY <1>1, <1>2, <1>5 DEF id, q

\* A job added or left alone: the queue and the slots agree as before.
LEMMA QueueGrows ==
  ASSUME IInv, NEW id \in JobIds, jobs'[id] = Added(jobs[id]),
         \A other \in JobIds \ {id} : jobs'[other] = jobs[other],
         UNCHANGED <<work, lock, versions>>
  PROVE  WorkerInv' /\ \A s \in Scopes, e \in Events : IsSent(s, e) => IsSent(s, e)'
<1>1. jobs[id] \in QueueStates /\ \A w \in Workers : work[w].job \in JobIds \cup {Nobody}
  BY DEF IInv, TypeOK, Slots
<1>2. jobs[id].state # "none" => jobs'[id] = jobs[id]
  BY DEF Added
<1>3. jobs'[id].state # "none" /\ jobs'[id].attempts = jobs[id].attempts /\ jobs'[id].stalls = jobs[id].stalls
  BY <1>1 DEF Added, QueueStates
<1>4. Holding'
  BY <1>1, <1>2 DEF IInv, WorkerInv, Holding
<1>5. Budget'
  BY <1>1, <1>2, <1>3 DEF IInv, WorkerInv, Budget, Added
<1>6. Locked' /\ VersionsInOrder'
  BY DEF IInv, WorkerInv, Locked, VersionsInOrder
<1>7. \A s \in Scopes, e \in Events : IsSent(s, e) => IsSent(s, e)'
  <2> SUFFICES ASSUME NEW s \in Scopes, NEW e \in Events, IsSent(s, e)
               PROVE  IsSent(s, e)'
    OBVIOUS
  <2>1. RebuildJob(s, e) \in JobIds
    BY DEF RebuildJob, JobIds
  <2> QED
    BY <1>3, <2>1 DEF IsSent
<1> QED
  BY <1>4, <1>5, <1>6, <1>7 DEF WorkerInv

LEMMA AddRebuildStep ==
  ASSUME IInv, NEW d \in Dispatchers, NEW s \in Scopes, AddRebuild(d, s)
  PROVE  IInv'
<1>0. PICK e \in Events : e = hand[d].event
  BY RebuildAdded
<1> DEFINE id == RebuildJob(s, e)
           h == [hand[d] EXCEPT !.todo = hand[d].todo \ {s}]
<1>1. /\ e \in Events /\ id \in JobIds /\ jobs' \in [JobIds -> QueueStates] /\ jobs'[id] = Added(jobs[id])
      /\ \A other \in JobIds \ {id} : jobs'[other] = jobs[other]
  BY <1>0, RebuildAdded
<1>2. /\ hand[d] \in Hands /\ e # Nobody /\ hand[d].failing = FALSE /\ hand' = [hand EXCEPT ![d] = h]
      /\ UNCHANGED <<data, event, owed, work, lock, versions, saves, crashes, faults>>
  BY <1>0 DEF AddRebuild, reportVars, IInv, TypeOK
<1>3. h \in Hands /\ h.event = hand[d].event /\ h.batch = hand[d].batch /\ h.todo = hand[d].todo \ {s}
  BY <1>2 DEF Hands
<1>4. WorkerInv' /\ \A t \in Scopes, f \in Events : IsSent(t, f) => IsSent(t, f)'
  BY <1>1, <1>2, QueueGrows
<1>5. IsSent(s, e)'
  <2>1. Added(jobs[id]).state # "none"
    BY <1>1 DEF Added, IInv, TypeOK, QueueStates
  <2> QED
    BY <1>1, <2>1 DEF IsSent
<1>6. owed[e] \subseteq Scopes
  BY <1>1 DEF IInv, TypeOK
<1>7. OnlyAwaiting \/ \A t \in owed[e] : t \in hand[d].todo \/ IsSent(t, e)
  BY <1>0, <1>2 DEF IInv, OutboxInv, Outstanding
<1> HIDE DEF h, id
<1>8. OnlyAwaiting \/ \A t \in owed[e] : t \in h.todo \/ IsSent(t, e)'
  BY <1>3, <1>4, <1>5, <1>6, <1>7
<1>9. OutboxInv' /\ hand' \in [Dispatchers -> Hands]
  BY <1>0, <1>1, <1>2, <1>3, <1>4, <1>8, HandChanges DEF IInv
<1>10. missed' \subseteq Scopes /\ overlapped' \subseteq Scopes
  BY DEF AddRebuild, slips, IInv, TypeOK
<1> QED
  BY <1>1, <1>2, <1>4, <1>9, <1>10 DEF IInv, TypeOK

\* What an update of the event in hand does: nothing unless it is owned.
LEMMA RowUpdated ==
  ASSUME TypeOK, NEW d \in Dispatchers, NEW e \in Events, NEW state \in {"failed", "dispatched"},
         event' = [event EXCEPT ![e] = Updated(d, e, state)]
  PROVE  /\ event' \in [Events -> EventRows]
         /\ \A f \in Events \ {e} : event'[f] = event[f]
         /\ Owns(d, e) => event[e].state = "processing" /\ event'[e].state = state
         /\ ~Owns(d, e) => event'[e] = event[e]
<1> DEFINE row == Updated(d, e, state)
<1>1. event \in [Events -> EventRows]
  BY DEF TypeOK
<1>2. row \in EventRows /\ (Owns(d, e) => row.state = state) /\ (~Owns(d, e) => row = event[e])
  BY <1>1 DEF Updated, EventRows
<1> HIDE DEF row
<1>3. event' = [event EXCEPT ![e] = row]
  BY DEF row
<1> QED
  BY <1>1, <1>2, <1>3 DEF Owns

LEMMA MarkDispatchedStep ==
  ASSUME IInv, NEW d \in Dispatchers, MarkDispatched(d)
  PROVE  IInv'
<1> DEFINE e == hand[d].event
           h == [Free EXCEPT !.batch = hand[d].batch]
<1>1. /\ e \in Events /\ hand[d].todo = {} /\ hand[d].failing = FALSE /\ hand[d] \in Hands
      /\ hand' = [hand EXCEPT ![d] = h] /\ event' = [event EXCEPT ![e] = Updated(d, e, "dispatched")]
      /\ UNCHANGED <<data, owed, jobs, work, lock, versions, saves, crashes, faults>>
  BY DEF MarkDispatched, reportVars, IInv, TypeOK, Hands
<1>2. h \in Hands /\ h.event = Nobody /\ h.batch = hand[d].batch
  BY <1>1 DEF Free, Hands
<1>3. OnlyAwaiting \/ \A s \in owed[e] : IsSent(s, e)
  BY <1>1, NothingAssumption DEF IInv, OutboxInv, Outstanding
<1> HIDE DEF h, e
<1>4. /\ event' \in [Events -> EventRows] /\ \A f \in Events \ {e} : event'[f] = event[f]
      /\ Owns(d, e) => event[e].state = "processing" /\ event'[e].state = "dispatched"
      /\ ~Owns(d, e) => event'[e] = event[e]
  BY <1>1, RowUpdated DEF IInv
<1>5. OutboxInv' /\ hand' \in [Dispatchers -> Hands]
  BY <1>1, <1>2, <1>3, <1>4, HandChanges DEF IInv, IsSent
<1>6. WorkerInv'
  BY <1>1, WorkerApart DEF IInv
<1>7. missed' \subseteq Scopes /\ overlapped' \subseteq Scopes
  BY DEF MarkDispatched, slips, IInv, TypeOK
<1> QED
  BY <1>1, <1>4, <1>5, <1>6, <1>7 DEF IInv, TypeOK

LEMMA MarkDispatchFailedStep ==
  ASSUME IInv, NEW d \in Dispatchers, MarkDispatchFailed(d)
  PROVE  IInv'
<1> DEFINE e == hand[d].event
           h == [Free EXCEPT !.batch = hand[d].batch]
<1>1. /\ hand[d] \in Hands /\ hand[d].failing
      /\ hand' = [hand EXCEPT ![d] = h] /\ event' = [event EXCEPT ![e] = Updated(d, e, "failed")]
      /\ UNCHANGED <<data, owed, jobs, work, lock, versions, saves, crashes, faults>>
  BY DEF MarkDispatchFailed, reportVars, IInv, TypeOK
<1>2. h \in Hands /\ h.event = Nobody /\ h.batch = hand[d].batch
  BY <1>1 DEF Free, Hands
<1>3. e \in Events \cup {Nobody} /\ event \in [Events -> EventRows]
  BY <1>1 DEF Hands, IInv, TypeOK
<1> HIDE DEF h, e
<1>4. /\ event' \in [Events -> EventRows]
      /\ \A f \in Events : event'[f] = event[f] \/ (event[f].state = "processing" /\ event'[f].state = "failed")
  <2>1. CASE e \in Events
    BY <1>1, <2>1, RowUpdated DEF IInv
  <2>2. CASE e \notin Events
    BY <1>1, <1>3, <2>2
  <2> QED
    BY <2>1, <2>2
<1>5. OutboxInv' /\ hand' \in [Dispatchers -> Hands]
  BY <1>1, <1>2, <1>4, HandChanges DEF IInv, IsSent
<1>6. WorkerInv'
  BY <1>1, WorkerApart DEF IInv
<1>7. missed' \subseteq Scopes /\ overlapped' \subseteq Scopes
  BY DEF MarkDispatchFailed, slips, IInv, TypeOK
<1> QED
  BY <1>1, <1>4, <1>5, <1>6, <1>7 DEF IInv, TypeOK

LEMMA DispatchFaultsStep ==
  ASSUME IInv, NEW d \in Dispatchers, DispatchFaults(d)
  PROVE  IInv'
<1> DEFINE h == IF hand[d].failing THEN [Free EXCEPT !.batch = hand[d].batch]
                ELSE [hand[d] EXCEPT !.failing = TRUE]
<1>1. /\ hand[d] \in Hands /\ hand' = [hand EXCEPT ![d] = h]
      /\ UNCHANGED <<data, event, owed, jobs, work, lock, versions, saves, crashes>>
  BY DEF DispatchFaults, reportVars, IInv, TypeOK
<1>2. h \in Hands /\ h.batch = hand[d].batch /\ (h.event = Nobody \/ (h.event = hand[d].event /\ h.failing))
  BY <1>1 DEF Free, Hands
<1>3. faults' \in 0..MaxFaults
  BY BoundAssumption DEF DispatchFaults, IInv, TypeOK
<1> HIDE DEF h
<1>4. OutboxInv' /\ hand' \in [Dispatchers -> Hands]
  BY <1>1, <1>2, HandChanges DEF IInv, IsSent
<1>5. WorkerInv'
  BY <1>1, WorkerApart DEF IInv
<1>6. missed' \subseteq Scopes /\ overlapped' \subseteq Scopes
  BY DEF DispatchFaults, slips, IInv, TypeOK
<1> QED
  BY <1>1, <1>3, <1>4, <1>5, <1>6 DEF IInv, TypeOK

LEMMA AnswerLostStep ==
  ASSUME IInv, NEW d \in Dispatchers, AnswerLost(d)
  PROVE  IInv'
<1> DEFINE e == hand[d].event
           h == [hand[d] EXCEPT !.failing = TRUE]
<1>1. /\ e \in Events /\ hand[d].todo = {} /\ hand[d].failing = FALSE /\ hand[d] \in Hands
      /\ hand' = [hand EXCEPT ![d] = h] /\ event' = [event EXCEPT ![e] = Updated(d, e, "dispatched")]
      /\ UNCHANGED <<data, owed, jobs, work, lock, versions, saves, crashes>>
  BY DEF AnswerLost, reportVars, IInv, TypeOK, Hands
<1>2. h \in Hands /\ h.event = hand[d].event /\ h.batch = hand[d].batch /\ h.failing
  BY <1>1 DEF Hands
<1>3. OnlyAwaiting \/ \A s \in owed[e] : IsSent(s, e)
  BY <1>1, NothingAssumption DEF IInv, OutboxInv, Outstanding
<1>4. faults' \in 0..MaxFaults
  BY BoundAssumption DEF AnswerLost, IInv, TypeOK
<1> HIDE DEF h, e
<1>5. /\ event' \in [Events -> EventRows] /\ \A f \in Events \ {e} : event'[f] = event[f]
      /\ Owns(d, e) => event[e].state = "processing" /\ event'[e].state = "dispatched"
      /\ ~Owns(d, e) => event'[e] = event[e]
  BY <1>1, RowUpdated DEF IInv
<1>6. OutboxInv' /\ hand' \in [Dispatchers -> Hands]
  <2>1. \A f \in Events : event[f].state # "absent" => event'[f].state # "absent"
    BY <1>1, <1>5
  <2>2. \A f \in Events : event'[f].state = "dispatched" =>
          event[f].state = "dispatched" \/ OnlyAwaiting \/ \A s \in owed[f] : IsSent(s, f)
    BY <1>1, <1>3, <1>5
  <2>3. \A s \in Scopes, f \in Events : IsSent(s, f) => IsSent(s, f)'
    BY <1>1 DEF IsSent
  <2> QED
    BY <1>1, <1>2, <2>1, <2>2, <2>3, HandChanges DEF IInv
<1>7. WorkerInv'
  BY <1>1, WorkerApart DEF IInv
<1>8. missed' \subseteq Scopes /\ overlapped' \subseteq Scopes
  BY DEF AnswerLost, slips, IInv, TypeOK
<1> QED
  BY <1>1, <1>4, <1>5, <1>6, <1>7, <1>8 DEF IInv, TypeOK

-----------------------------------------------------------------------------
\* The worker's steps: no job is forgotten and no version is taken back.
LEMMA JobsRemain ==
  ASSUME TypeOK, OutboxInv, UNCHANGED <<event, owed, hand>>,
         \A id \in JobIds : jobs[id].state # "none" => jobs'[id].state # "none",
         \A s \in Scopes : versions[s] # <<>> => versions'[s] # <<>>
  PROVE  OutboxInv'
<1>1. \A s \in Scopes, e \in Events : RebuildJob(s, e) \in JobIds
  BY DEF RebuildJob, JobIds
<1>2. \A s \in Scopes, e \in Events : IsSent(s, e) => IsSent(s, e)'
  BY <1>1 DEF IsSent
<1> QED
  BY <1>2, OutboxApart

\* What a slot at work holds.
LEMMA AtWork ==
  ASSUME IInv, NEW w \in Workers, work[w].pc # "idle"
  PROVE  /\ work[w] \in Slots /\ work[w].job \in JobIds /\ ScopeOf(w) \in Scopes
         /\ jobs[work[w].job] \in QueueStates /\ jobs[work[w].job].state = "active"
         /\ jobs[work[w].job].attempts < MaxAttempts /\ jobs[work[w].job].stalls <= MaxStalls
         /\ \A v \in Workers \ {w} : work[v].job # work[w].job
<1>1. work[w] \in Slots /\ jobs \in [JobIds -> QueueStates]
  BY DEF IInv, TypeOK
<1>2. work[w].job # Nobody /\ work[w].job \in JobIds
  BY <1>1 DEF IInv, WorkerInv, Holding, Slots
<1>3. ScopeOf(w) \in Scopes
  BY <1>2 DEF ScopeOf, JobIds
<1> QED
  BY <1>1, <1>2, <1>3 DEF IInv, WorkerInv, Holding, Budget

LEMMA ScheduleStep ==
  ASSUME IInv, NEW s \in Scopes, Schedule(s)
  PROVE  IInv'
<1> DEFINE id == Scheduled(s)
           q == Added(jobs[id])
<1>1. id \in JobIds
  BY DEF Scheduled, JobIds
<1>2. /\ jobs \in [JobIds -> QueueStates] /\ jobs' = [jobs EXCEPT ![id] = q]
      /\ UNCHANGED <<data, event, owed, hand, work, lock, versions, saves, crashes, faults>>
  BY DEF Schedule, eventVars, reportVars, IInv, TypeOK
<1> HIDE DEF id
<1>3. q \in QueueStates /\ q.state # "none"
  BY <1>1, <1>2 DEF Added, QueueStates
<1> HIDE DEF q
<1>4. jobs' \in [JobIds -> QueueStates] /\ jobs'[id] = q /\ \A other \in JobIds \ {id} : jobs'[other] = jobs[other]
  BY <1>1, <1>2, <1>3
<1>5. WorkerInv'
  BY <1>1, <1>2, <1>4, QueueGrows DEF q
<1>6. OutboxInv'
  BY <1>2, <1>3, <1>4, JobsRemain DEF IInv
<1>7. missed' \subseteq Scopes /\ overlapped' \subseteq Scopes
  BY DEF Schedule, slips, IInv, TypeOK
<1> QED
  BY <1>2, <1>4, <1>5, <1>6, <1>7 DEF IInv, TypeOK

LEMMA StartStep ==
  ASSUME IInv, NEW w \in Workers, NEW id \in JobIds, Start(w, id)
  PROVE  IInv'
<1> DEFINE slot == [Idle EXCEPT !.pc = "load", !.job = id]
           q == [jobs[id] EXCEPT !.state = "active"]
<1>1. /\ jobs \in [JobIds -> QueueStates] /\ jobs' = [jobs EXCEPT ![id] = q] /\ jobs[id].state = "waiting"
      /\ work \in [Workers -> Slots] /\ work' = [work EXCEPT ![w] = slot] /\ work[w].pc = "idle"
      /\ UNCHANGED <<data, event, owed, hand, lock, versions, saves, crashes, faults>>
  BY DEF Start, eventVars, IInv, TypeOK
<1>2. slot \in Slots /\ slot.pc = "load" /\ slot.job = id
  BY Constructed DEF Idle, Slots
<1>3. q \in QueueStates /\ q.state = "active" /\ q.attempts = jobs[id].attempts /\ q.stalls = jobs[id].stalls
  BY <1>1 DEF QueueStates
<1> HIDE DEF slot, q
<1>4. /\ jobs' \in [JobIds -> QueueStates] /\ jobs'[id] = q /\ \A other \in JobIds \ {id} : jobs'[other] = jobs[other]
      /\ work' \in [Workers -> Slots] /\ work'[w] = slot /\ \A v \in Workers \ {w} : work'[v] = work[v]
  BY <1>1, <1>2, <1>3
<1>5. \A v \in Workers : work[v].job \in JobIds \cup {Nobody} /\ work[v].job # id
  BY <1>1, NothingAssumption DEF Slots, IInv, WorkerInv, Holding
<1>6. Holding'
  <2>1. \A v \in Workers : (work'[v].pc = "idle") <=> (work'[v].job = Nobody)
    BY <1>2, <1>4, NothingAssumption DEF IInv, WorkerInv, Holding
  <2>2. \A v \in Workers : work'[v].job # Nobody => jobs'[work'[v].job].state = "active"
    BY <1>2, <1>3, <1>4, <1>5 DEF IInv, WorkerInv, Holding
  <2>3. \A v \in Workers : work'[v].job # Nobody => \A u \in Workers \ {v} : work'[u].job # work'[v].job
    BY <1>2, <1>4, <1>5 DEF IInv, WorkerInv, Holding
  <2> QED
    BY <2>1, <2>2, <2>3 DEF Holding
<1>7. Budget'
  BY <1>1, <1>3, <1>4 DEF IInv, WorkerInv, Budget
<1>8. Locked' /\ VersionsInOrder'
  BY <1>1, <1>2, <1>4 DEF IInv, WorkerInv, Locked, VersionsInOrder
<1>9. OutboxInv'
  BY <1>1, <1>3, <1>4, JobsRemain DEF IInv
<1>10. missed' \subseteq Scopes /\ overlapped' \subseteq Scopes
  BY DEF Start, slips, IInv, TypeOK
<1> QED
  BY <1>1, <1>4, <1>6, <1>7, <1>8, <1>9, <1>10 DEF IInv, TypeOK, WorkerInv

\* A slot that goes on with its job: what remains is that it locked its scope.
LEMMA SlotMoves ==
  ASSUME IInv, NEW w \in Workers, NEW slot \in Slots, work[w].pc # "idle",
         work' = [work EXCEPT ![w] = slot], slot.pc # "idle", slot.job = work[w].job,
         UNCHANGED <<jobs, event, owed, hand>>,
         \A s \in Scopes : versions[s] # <<>> => versions'[s] # <<>>
  PROVE  /\ work' \in [Workers -> Slots] /\ work'[w] = slot /\ \A v \in Workers \ {w} : work'[v] = work[v]
         /\ Holding' /\ Budget' /\ OutboxInv'
<1>1. work' \in [Workers -> Slots] /\ work'[w] = slot /\ \A v \in Workers \ {w} : work'[v] = work[v]
  BY DEF IInv, TypeOK
<1>2. \A v \in Workers : work'[v].job = work[v].job /\ (work'[v].pc = "idle" <=> work[v].pc = "idle")
  BY <1>1
<1>3. Holding'
  BY <1>2 DEF IInv, WorkerInv, Holding
<1>4. Budget'
  BY DEF IInv, WorkerInv, Budget
<1>5. OutboxInv'
  BY JobsRemain DEF IInv
<1> QED
  BY <1>1, <1>3, <1>4, <1>5

LEMMA LoadEvidenceStep ==
  ASSUME IInv, NEW w \in Workers, LoadEvidence(w)
  PROVE  IInv'
<1> DEFINE c == Content(ScopeOf(w))
           slot == [work[w] EXCEPT !.pc = "lock", !.content = c]
<1>0. ScopeOf(w) \in Scopes /\ work[w] \in Slots
  BY AtWork DEF LoadEvidence
<1>1. /\ work' = [work EXCEPT ![w] = slot] /\ work[w].pc = "load"
      /\ UNCHANGED <<data, event, owed, hand, jobs, lock, versions, saves, crashes, faults>>
  BY DEF LoadEvidence, eventVars, IInv, TypeOK
<1>2. c \in Contents
  BY <1>0, ContentTyped DEF IInv, TypeOK
<1> HIDE DEF c
<1>3. slot \in Slots /\ slot.pc = "lock" /\ slot.job = work[w].job
  BY <1>0, <1>2 DEF Slots
<1> HIDE DEF slot
<1>4. /\ work' \in [Workers -> Slots] /\ work'[w] = slot /\ \A v \in Workers \ {w} : work'[v] = work[v]
      /\ Holding' /\ Budget' /\ OutboxInv'
  BY <1>1, <1>3, SlotMoves
<1>5. Locked' /\ VersionsInOrder'
  BY <1>1, <1>3, <1>4 DEF IInv, WorkerInv, Locked, VersionsInOrder
<1>6. missed' \subseteq Scopes /\ overlapped' \subseteq Scopes
  BY AtWork DEF LoadEvidence, IInv, TypeOK
<1> QED
  BY <1>1, <1>4, <1>5, <1>6 DEF IInv, TypeOK, WorkerInv

LEMMA LockScopeStep ==
  ASSUME IInv, NEW w \in Workers, LockScope(w)
  PROVE  IInv'
<1> DEFINE n == Len(versions[ScopeOf(w)]) + 1
           slot == [work[w] EXCEPT !.pc = "insert", !.number = n]
<1>0. ScopeOf(w) \in Scopes /\ work[w] \in Slots
  BY AtWork DEF LockScope
<1>1. /\ work' = [work EXCEPT ![w] = slot] /\ work[w].pc = "lock"
      /\ lock' = [lock EXCEPT ![ScopeOf(w)] = w] /\ lock[ScopeOf(w)] = Nobody
      /\ UNCHANGED <<data, event, owed, hand, jobs, versions, saves, crashes, faults>>
  BY DEF LockScope, LockFree, eventVars, IInv, TypeOK
<1>2. n \in Nat
  BY <1>0 DEF IInv, TypeOK
<1> HIDE DEF n
<1>3. slot \in Slots /\ slot.pc = "insert" /\ slot.job = work[w].job /\ slot.number = n
  BY <1>0, <1>2 DEF Slots
<1> HIDE DEF slot
<1>4. /\ work' \in [Workers -> Slots] /\ work'[w] = slot /\ \A v \in Workers \ {w} : work'[v] = work[v]
      /\ Holding' /\ Budget' /\ OutboxInv'
  BY <1>1, <1>3, SlotMoves
<1>5. lock' \in [Scopes -> Workers \cup {Nobody}]
  BY <1>0, <1>1 DEF IInv, TypeOK
<1>6. Locked'
  <2>1. lock'[slot.job[1]] = w /\ slot.number = Len(versions'[slot.job[1]]) + 1
    BY <1>0, <1>1, <1>3 DEF n, ScopeOf, IInv, TypeOK
  <2>2. ASSUME NEW v \in Workers \ {w}, work[v].pc = "insert"
        PROVE  /\ lock'[work[v].job[1]] = v
               /\ work[v].number = Len(versions'[work[v].job[1]]) + 1
    <3>1. lock[work[v].job[1]] = v /\ work[v].number = Len(versions[work[v].job[1]]) + 1
      BY <2>2 DEF IInv, WorkerInv, Locked
    <3>2. work[v].job[1] # ScopeOf(w)
      BY <1>1, <3>1, NothingAssumption
    <3>3. work[v].job[1] \in Scopes
      BY <2>2, AtWork DEF ScopeOf
    <3> QED
      BY <1>0, <1>1, <3>1, <3>2, <3>3 DEF IInv, TypeOK
  <2> QED
    BY <1>4, <2>1, <2>2 DEF Locked
<1>7. VersionsInOrder'
  BY <1>1 DEF IInv, WorkerInv, VersionsInOrder
<1>8. missed' \subseteq Scopes /\ overlapped' \subseteq Scopes
  BY DEF LockScope, slips, IInv, TypeOK
<1> QED
  BY <1>1, <1>4, <1>5, <1>6, <1>7, <1>8 DEF IInv, TypeOK, WorkerInv

LEMMA InsertVersionStep ==
  ASSUME IInv, NEW w \in Workers, InsertVersion(w)
  PROVE  IInv'
<1>0. PICK s \in Scopes : s = ScopeOf(w)
  BY AtWork DEF InsertVersion
<1> DEFINE row == [number |-> work[w].number, content |-> work[w].content]
           slot == [work[w] EXCEPT !.pc = "finish"]
           rows == Append(versions[s], row)
<1>1. /\ work[w] \in Slots /\ work[w].pc = "insert" /\ work' = [work EXCEPT ![w] = slot]
      /\ versions' = [versions EXCEPT ![s] = rows] /\ lock' = [lock EXCEPT ![s] = Nobody]
      /\ UNCHANGED <<data, event, owed, hand, jobs, saves, crashes, faults>>
  BY <1>0 DEF InsertVersion, eventVars, IInv, TypeOK
<1>2. row \in [number : Nat, content : Contents] /\ row.number = work[w].number
  BY <1>1 DEF Slots
<1>3. slot \in Slots /\ slot.pc = "finish" /\ slot.job = work[w].job
  BY <1>1 DEF Slots
<1>4. /\ versions \in [Scopes -> Seq([number : Nat, content : Contents])]
      /\ lock \in [Scopes -> Workers \cup {Nobody}]
  BY DEF IInv, TypeOK
<1>5. lock[s] = w /\ work[w].number = Len(versions[s]) + 1
  BY <1>0, <1>1 DEF IInv, WorkerInv, Locked, ScopeOf
<1> HIDE DEF row, slot
<1>6. /\ rows \in Seq([number : Nat, content : Contents]) /\ rows # <<>> /\ Len(rows) = Len(versions[s]) + 1
      /\ rows[Len(versions[s]) + 1] = row /\ \A i \in 1..Len(versions[s]) : rows[i] = versions[s][i]
  <2> DEFINE Rows == [number : Nat, content : Contents]
  <2>1. row \in Rows
    BY <1>2
  <2>2. versions[s] \in Seq(Rows)
    BY <1>4
  <2> HIDE DEF Rows
  <2>3. /\ rows \in Seq(Rows) /\ Len(rows) = Len(versions[s]) + 1
        /\ rows[Len(versions[s]) + 1] = row /\ \A i \in 1..Len(versions[s]) : rows[i] = versions[s][i]
    BY <2>1, <2>2
  <2>4. rows # <<>>
    <3>1. Len(versions[s]) \in Nat
      BY <2>2
    <3>2. ASSUME rows = <<>> PROVE Len(rows) = 0
      BY <3>2
    <3>3. Len(rows) # 0
      BY <2>3, <3>1
    <3> QED
      BY <3>2, <3>3
  <2> QED
    BY <2>3, <2>4 DEF Rows
<1> HIDE DEF rows
<1>7. /\ versions' \in [Scopes -> Seq([number : Nat, content : Contents])]
      /\ lock' \in [Scopes -> Workers \cup {Nobody}] /\ versions'[s] = rows
      /\ \A t \in Scopes \ {s} : versions'[t] = versions[t] /\ lock'[t] = lock[t]
  BY <1>1, <1>4, <1>6
<1>8. \A t \in Scopes : versions[t] # <<>> => versions'[t] # <<>>
  BY <1>6, <1>7
<1>9. /\ work' \in [Workers -> Slots] /\ work'[w] = slot /\ \A v \in Workers \ {w} : work'[v] = work[v]
      /\ Holding' /\ Budget' /\ OutboxInv'
  BY <1>1, <1>3, <1>8, SlotMoves
<1>10. Locked'
  <2> SUFFICES ASSUME NEW v \in Workers, work'[v].pc = "insert"
               PROVE  /\ lock'[work'[v].job[1]] = v
                      /\ work'[v].number = Len(versions'[work'[v].job[1]]) + 1
    BY DEF Locked
  <2>1. v # w /\ work'[v] = work[v] /\ work[v].pc = "insert"
    BY <1>3, <1>9
  <2>2. lock[work[v].job[1]] = v /\ work[v].number = Len(versions[work[v].job[1]]) + 1
    BY <2>1 DEF IInv, WorkerInv, Locked
  <2>3. work[v].job[1] \in Scopes
    BY <2>1, AtWork DEF ScopeOf
  <2> QED
    BY <1>5, <1>7, <2>1, <2>2, <2>3
<1>11. VersionsInOrder'
  <2> SUFFICES ASSUME NEW t \in Scopes, NEW i \in 1..Len(versions'[t])
               PROVE  versions'[t][i].number = i
    BY DEF VersionsInOrder
  <2>1. CASE t # s
    BY <1>7, <2>1 DEF IInv, WorkerInv, VersionsInOrder
  <2>2. CASE t = s
    <3>1. Len(versions[s]) \in Nat /\ \A j \in 1..Len(versions[s]) : versions[s][j].number = j
      BY <1>4 DEF IInv, WorkerInv, VersionsInOrder
    <3>2. i \in 1..(Len(versions[s]) + 1)
      BY <1>6, <1>7, <2>2
    <3>3. CASE i = Len(versions[s]) + 1
      BY <1>2, <1>5, <1>6, <1>7, <2>2, <3>3
    <3>4. CASE i \in 1..Len(versions[s])
      BY <1>6, <1>7, <2>2, <3>1, <3>4
    <3> QED
      BY <3>1, <3>2, <3>3, <3>4
  <2> QED
    BY <2>1, <2>2
<1>12. missed' \subseteq Scopes /\ overlapped' \subseteq Scopes
  BY DEF InsertVersion, slips, IInv, TypeOK
<1> QED
  BY <1>1, <1>7, <1>9, <1>10, <1>11, <1>12 DEF IInv, TypeOK, WorkerInv

\* A slot that lets its job go, to whatever state but active.
LEMMA SlotLeaves ==
  ASSUME IInv, NEW w \in Workers, NEW q \in QueueStates, work[w].pc # "idle",
         work' = [work EXCEPT ![w] = Idle], jobs' = [jobs EXCEPT ![work[w].job] = q],
         q.state # "none",
         q.state = "waiting" => q.attempts < MaxAttempts /\ q.stalls <= MaxStalls,
         q.state # "active", lock' = lock \/ lock' = Released({w}),
         UNCHANGED <<event, owed, hand, versions>>
  PROVE  /\ jobs' \in [JobIds -> QueueStates] /\ work' \in [Workers -> Slots]
         /\ lock' \in [Scopes -> Workers \cup {Nobody}] /\ WorkerInv' /\ OutboxInv'
<1>0. PICK id \in JobIds : id = work[w].job
  BY AtWork
<1>1. /\ jobs \in [JobIds -> QueueStates] /\ work \in [Workers -> Slots]
      /\ lock \in [Scopes -> Workers \cup {Nobody}]
  BY DEF IInv, TypeOK
<1>2. /\ jobs' \in [JobIds -> QueueStates] /\ jobs'[id] = q /\ \A other \in JobIds \ {id} : jobs'[other] = jobs[other]
      /\ work' \in [Workers -> Slots] /\ work'[w] = Idle /\ \A v \in Workers \ {w} : work'[v] = work[v]
  BY <1>0, <1>1, Constructed
<1>3. \A v \in Workers \ {w} : work[v].job # id /\ work[v].job \in JobIds \cup {Nobody}
  BY <1>0, <1>1, AtWork DEF Slots
<1>4. lock' \in [Scopes -> Workers \cup {Nobody}]
  BY <1>1 DEF Released
<1>5. Holding'
  <2>1. \A v \in Workers : (work'[v].pc = "idle") <=> (work'[v].job = Nobody)
    BY <1>2, Constructed DEF IInv, WorkerInv, Holding
  <2>2. \A v \in Workers : work'[v].job # Nobody => jobs'[work'[v].job].state = "active"
    BY <1>2, <1>3, Constructed DEF IInv, WorkerInv, Holding
  <2>3. \A v \in Workers : work'[v].job # Nobody => \A u \in Workers \ {v} : work'[u].job # work'[v].job
    BY <1>2, Constructed DEF IInv, WorkerInv, Holding
  <2> QED
    BY <2>1, <2>2, <2>3 DEF Holding
<1>6. Budget'
  BY <1>2 DEF IInv, WorkerInv, Budget
<1>7. Locked'
  <2> SUFFICES ASSUME NEW v \in Workers, work'[v].pc = "insert"
               PROVE  /\ lock'[work'[v].job[1]] = v
                      /\ work'[v].number = Len(versions'[work'[v].job[1]]) + 1
    BY DEF Locked
  <2>1. v # w /\ work'[v] = work[v] /\ work[v].pc = "insert"
    BY <1>2, Constructed
  <2>2. lock[work[v].job[1]] = v /\ work[v].number = Len(versions[work[v].job[1]]) + 1
    BY <2>1 DEF IInv, WorkerInv, Locked
  <2>3. work[v].job[1] \in Scopes
    BY <2>1, AtWork DEF ScopeOf
  <2>4. lock'[work[v].job[1]] = v
    BY <2>1, <2>2, <2>3 DEF Released
  <2> QED
    BY <2>1, <2>2, <2>4
<1>8. VersionsInOrder'
  BY DEF IInv, WorkerInv, VersionsInOrder
<1>9. OutboxInv'
  BY <1>2, JobsRemain DEF IInv
<1> QED
  BY <1>2, <1>4, <1>5, <1>6, <1>7, <1>8, <1>9 DEF WorkerInv

LEMMA FinishStep ==
  ASSUME IInv, NEW w \in Workers, Finish(w)
  PROVE  IInv'
<1> DEFINE q == [jobs[work[w].job] EXCEPT !.state = "done"]
<1>0. work[w].job \in JobIds /\ jobs[work[w].job] \in QueueStates /\ jobs \in [JobIds -> QueueStates]
  BY AtWork DEF Finish, IInv, TypeOK
<1>1. /\ jobs' = [jobs EXCEPT ![work[w].job] = q] /\ work' = [work EXCEPT ![w] = Idle] /\ work[w].pc # "idle"
      /\ UNCHANGED <<data, event, owed, hand, lock, versions, saves, crashes, faults>>
  BY <1>0 DEF Finish, eventVars
<1>2. q \in QueueStates /\ q.state = "done"
  BY <1>0 DEF QueueStates
<1> HIDE DEF q
<1>3. /\ jobs' \in [JobIds -> QueueStates] /\ work' \in [Workers -> Slots]
      /\ lock' \in [Scopes -> Workers \cup {Nobody}] /\ WorkerInv' /\ OutboxInv'
  BY <1>1, <1>2, SlotLeaves
<1>4. missed' \subseteq Scopes /\ overlapped' \subseteq Scopes
  BY DEF Finish, slips, IInv, TypeOK
<1> QED
  BY <1>1, <1>3, <1>4 DEF IInv, TypeOK

LEMMA GenerationFailsStep ==
  ASSUME IInv, NEW w \in Workers, GenerationFails(w)
  PROVE  IInv'
<1> DEFINE q == Retried(jobs[work[w].job])
<1>0. /\ work[w].job \in JobIds /\ jobs[work[w].job] \in QueueStates
      /\ jobs[work[w].job].attempts < MaxAttempts /\ jobs[work[w].job].stalls <= MaxStalls
  BY AtWork DEF GenerationFails
<1>1. /\ jobs' = [jobs EXCEPT ![work[w].job] = q] /\ work' = [work EXCEPT ![w] = Idle]
      /\ lock' = Released({w}) /\ work[w].pc # "idle"
      /\ UNCHANGED <<data, event, owed, hand, versions, saves, crashes>>
  BY DEF GenerationFails, eventVars
<1>2. q \in QueueStates /\ q.state \in {"waiting", "failed"}
      /\ (q.state = "waiting" => q.attempts < MaxAttempts /\ q.stalls <= MaxStalls)
  <2> DEFINE old == jobs[work[w].job]
             n == old.attempts + 1
             to == IF n = MaxAttempts THEN "failed" ELSE "waiting"
  <2>1. n \in 0..MaxAttempts /\ old.stalls \in 0..(MaxStalls + 1) /\ old \in QueueStates
    BY <1>0, BoundAssumption DEF QueueStates
  <2>2. to \in {"waiting", "failed"} /\ (to = "waiting" => n < MaxAttempts)
    BY <2>1, BoundAssumption
  <2>3. q = [old EXCEPT !.attempts = n, !.state = to]
    BY DEF Retried
  <2> HIDE DEF old, n, to, q
  <2>4. q \in QueueStates /\ q.state = to /\ q.attempts = n /\ q.stalls = old.stalls
    BY <2>1, <2>2, <2>3 DEF QueueStates
  <2> QED
    BY <1>0, <2>2, <2>4 DEF old
<1>3. faults' \in 0..MaxFaults
  BY BoundAssumption DEF GenerationFails, IInv, TypeOK
<1> HIDE DEF q
<1>4. /\ jobs' \in [JobIds -> QueueStates] /\ work' \in [Workers -> Slots]
      /\ lock' \in [Scopes -> Workers \cup {Nobody}] /\ WorkerInv' /\ OutboxInv'
  BY <1>1, <1>2, SlotLeaves
<1>5. missed' \subseteq Scopes /\ overlapped' \subseteq Scopes
  BY AtWork DEF GenerationFails, GivesUp, ScopeOf, IInv, TypeOK
<1> QED
  BY <1>1, <1>3, <1>4, <1>5 DEF IInv, TypeOK

LEMMA CrashStep ==
  ASSUME IInv, Crash
  PROVE  IInv'
<1>1. /\ hand' = [d \in Dispatchers |-> Free] /\ work' = [w \in Workers |-> Idle] /\ lock' = Released(Workers)
      /\ UNCHANGED <<data, event, owed, jobs, versions, saves, faults>>
  BY DEF Crash
<1>2. crashes' \in 0..MaxCrashes
  BY BoundAssumption DEF Crash, IInv, TypeOK
<1>3. hand' \in [Dispatchers -> Hands] /\ work' \in [Workers -> Slots] /\ lock' \in [Scopes -> Workers \cup {Nobody}]
  BY <1>1, Constructed DEF Released, IInv, TypeOK
<1>4. WorkerInv'
  BY <1>1, Constructed DEF IInv, WorkerInv, Holding, Budget, Locked, VersionsInOrder
<1>5. OutboxInv'
  BY <1>1, Constructed DEF IInv, OutboxInv, Outstanding, Batched, Paid, OwedReported, IsSent
<1>6. missed' \subseteq Scopes /\ overlapped' \subseteq Scopes
  BY DEF Crash, slips, IInv, TypeOK
<1> QED
  BY <1>1, <1>2, <1>3, <1>4, <1>5, <1>6 DEF IInv, TypeOK

LEMMA StalledStep ==
  ASSUME IInv, NEW id \in JobIds, Stalled(id)
  PROVE  IInv'
<1> DEFINE q == [jobs[id] EXCEPT !.stalls = @ + 1,
                                 !.state = IF jobs[id].stalls = MaxStalls THEN "failed" ELSE "waiting"]
<1>1. /\ jobs \in [JobIds -> QueueStates] /\ jobs' = [jobs EXCEPT ![id] = q] /\ jobs[id].state = "active"
      /\ \A w \in Workers : work[w].job # id
      /\ UNCHANGED <<data, event, owed, hand, work, lock, versions, saves, crashes, faults>>
  BY DEF Stalled, eventVars, reportVars, IInv, TypeOK
<1>2. jobs[id].attempts < MaxAttempts /\ jobs[id].stalls <= MaxStalls
  BY <1>1 DEF IInv, WorkerInv, Budget
<1>3. q \in QueueStates /\ q.state \in {"waiting", "failed"}
      /\ (q.state = "waiting" => q.attempts < MaxAttempts /\ q.stalls <= MaxStalls)
  <2> DEFINE old == jobs[id]
             n == old.stalls + 1
             to == IF old.stalls = MaxStalls THEN "failed" ELSE "waiting"
  <2>1. n \in 0..(MaxStalls + 1) /\ old \in QueueStates /\ old.attempts < MaxAttempts
    BY <1>1, <1>2, BoundAssumption DEF QueueStates
  <2>2. to \in {"waiting", "failed"} /\ (to = "waiting" => n <= MaxStalls)
    BY <1>1, <1>2, BoundAssumption DEF QueueStates
  <2>3. q = [old EXCEPT !.stalls = n, !.state = to]
    BY <2>1 DEF QueueStates
  <2> HIDE DEF old, n, to, q
  <2>4. q \in QueueStates /\ q.state = to /\ q.attempts = old.attempts /\ q.stalls = n
    BY <2>1, <2>2, <2>3 DEF QueueStates
  <2> QED
    BY <2>1, <2>2, <2>4
<1> HIDE DEF q
<1>4. jobs' \in [JobIds -> QueueStates] /\ jobs'[id] = q /\ \A other \in JobIds \ {id} : jobs'[other] = jobs[other]
  BY <1>1, <1>3
<1>5. Holding' /\ Budget'
  BY <1>1, <1>3, <1>4 DEF IInv, WorkerInv, Holding, Budget, TypeOK, Slots
<1>6. Locked' /\ VersionsInOrder'
  BY <1>1 DEF IInv, WorkerInv, Locked, VersionsInOrder
<1>7. OutboxInv'
  BY <1>1, <1>3, <1>4, JobsRemain DEF IInv
<1>8. missed' \subseteq Scopes /\ overlapped' \subseteq Scopes
  BY DEF Stalled, GivesUp, JobIds, IInv, TypeOK
<1> QED
  BY <1>1, <1>4, <1>5, <1>6, <1>7, <1>8 DEF IInv, TypeOK, WorkerInv

-----------------------------------------------------------------------------
LEMMA Initially == Init => IInv
<1> SUFFICES ASSUME Init PROVE IInv
  OBVIOUS
<1> USE DEF Init
<1>1. data \in [Dates -> Values \cup {NoData}]
  BY PeriodAssumption
<1>2. /\ event \in [Events -> EventRows] /\ owed \in [Events -> SUBSET Scopes]
      /\ hand \in [Dispatchers -> Hands] /\ work \in [Workers -> Slots]
      /\ lock \in [Scopes -> Workers \cup {Nobody}]
  BY Constructed DEF EventRows
<1>3. jobs \in [JobIds -> QueueStates]
  <2> DEFINE done == [NoJob EXCEPT !.state = "done"]
  <2>1. done \in QueueStates
    BY Constructed DEF QueueStates
  <2> HIDE DEF done
  <2>2. jobs = [id \in JobIds |-> IF id[1] \in Reported /\ id[2] = Nobody THEN done ELSE NoJob]
    BY DEF done
  <2> QED
    BY <2>1, <2>2, Constructed
<1>4. versions \in [Scopes -> Seq([number : Nat, content : Contents])]
  <2> DEFINE Rows == [number : Nat, content : Contents]
             first(s) == [number |-> 1, content |-> Content(s)]
  <2>1. ASSUME NEW s \in Scopes PROVE first(s) \in Rows
    BY <1>1, ContentTyped
  <2> HIDE DEF Rows, first
  <2>2. versions = [s \in Scopes |-> IF s \in Reported THEN <<first(s)>> ELSE <<>>]
    BY DEF first
  <2>3. \A s \in Scopes : <<first(s)>> \in Seq(Rows)
    BY <2>1
  <2>4. versions \in [Scopes -> Seq(Rows)]
    BY <2>2, <2>3
  <2> QED
    BY <2>4 DEF Rows
<1>5. saves \in 0..MaxSaves /\ crashes \in 0..MaxCrashes /\ faults \in 0..MaxFaults
  BY BoundAssumption
<1>6. Holding /\ Locked
  BY Constructed DEF Holding, Locked
<1>7. Budget
  <2> SUFFICES ASSUME NEW id \in JobIds, jobs[id].state \in {"none", "waiting", "active"}
               PROVE  jobs[id].attempts < MaxAttempts /\ jobs[id].stalls <= MaxStalls
    BY DEF Budget
  <2>1. jobs[id].attempts = 0 /\ jobs[id].stalls = 0
    BY DEF NoJob
  <2> QED
    BY <2>1, BoundAssumption
<1>8. VersionsInOrder
  <2> SUFFICES ASSUME NEW s \in Scopes, NEW i \in 1..Len(versions[s])
               PROVE  versions[s][i].number = i
    BY DEF VersionsInOrder
  <2> DEFINE first == [number |-> 1, content |-> Content(s)]
  <2>1. first.number = 1
    OBVIOUS
  <2> HIDE DEF first
  <2>2. versions[s] = IF s \in Reported THEN <<first>> ELSE <<>>
    BY DEF first
  <2> QED
    BY <2>1, <2>2
<1>9. OutboxInv
  BY Constructed DEF OutboxInv, Outstanding, Batched, Paid, OwedReported
<1> QED
  BY <1>1, <1>2, <1>3, <1>4, <1>5, <1>6, <1>7, <1>8, <1>9 DEF IInv, TypeOK, WorkerInv

LEMMA Inductive == IInv /\ [Next]_vars => IInv'
<1> SUFFICES ASSUME IInv, [Next]_vars PROVE IInv'
  OBVIOUS
<1>1. ASSUME NEW d \in Dates, NEW v \in Values, Save(d, v) PROVE IInv'
  BY <1>1, SaveStep
<1>2. ASSUME NEW d \in Dispatchers, Claim(d) \/ Dispatch(d) \/ DispatchFaults(d) \/ AnswerLost(d) PROVE IInv'
  BY <1>2, ClaimStep, TakeStep, AddRebuildStep, MarkDispatchedStep, MarkDispatchFailedStep,
     DispatchFaultsStep, AnswerLostStep DEF Dispatch
<1>3. ASSUME NEW e \in Events, LeaseExpires(e) PROVE IInv'
  BY <1>3, LeaseExpiresStep
<1>4. ASSUME NEW s \in Scopes, Schedule(s) PROVE IInv'
  BY <1>4, ScheduleStep
<1>5. ASSUME NEW w \in Workers, Generate(w) \/ GenerationFails(w) \/ \E id \in JobIds : Start(w, id) PROVE IInv'
  BY <1>5, LoadEvidenceStep, LockScopeStep, InsertVersionStep, FinishStep, GenerationFailsStep, StartStep DEF Generate
<1>6. ASSUME NEW id \in JobIds, Stalled(id) PROVE IInv'
  BY <1>6, StalledStep
<1>7. CASE Crash
  BY <1>7, CrashStep
<1>8. CASE UNCHANGED vars
  <2>1. UNCHANGED <<data, event, owed, hand, jobs, work, lock, versions, missed, overlapped, saves, crashes, faults>>
    BY <1>8 DEF vars, eventVars, reportVars, slips
  <2>2. WorkerInv'
    BY <2>1, WorkerApart DEF IInv
  <2>3. OutboxInv'
    BY <2>1, JobsRemain DEF IInv
  <2> QED
    BY <2>1, <2>2, <2>3 DEF IInv, TypeOK
<1> QED
  BY <1>1, <1>2, <1>3, <1>4, <1>5, <1>6, <1>7, <1>8 DEF Next

\* In every reachable state a slot holds its job alone, a lock holder numbers
\* the next version, and every event's debt is still in somebody's hand.
THEOREM Invariance == Spec => []IInv
<1>1. Init => IInv
  BY Initially
<1>2. IInv /\ [Next]_vars => IInv'
  BY Inductive
<1> QED
  BY <1>1, <1>2, PTL DEF Spec

\* Every variable keeps its type; retry and stall counters stay in range.
THEOREM TypeCorrect == Spec => []TypeOK
<1>1. IInv => TypeOK
  BY DEF IInv
<1> QED
  BY <1>1, Invariance, PTL

\* createVersion numbers the versions of a scope 1, 2, 3 in commit order.
THEOREM VersionsNumbered == Spec => []VersionsInOrder
<1>1. IInv => VersionsInOrder
  BY DEF IInv, WorkerInv
<1> QED
  BY <1>1, Invariance, PTL

\* No step of anyone changes a dispatched event.
LEMMA DispatchedStays ==
  TypeOK /\ [Next]_vars => \A e \in Events : event[e].state = "dispatched" => event'[e] = event[e]
<1> SUFFICES ASSUME TypeOK, [Next]_vars, NEW e \in Events, event[e].state = "dispatched"
             PROVE  event'[e] = event[e]
  OBVIOUS
<1>0. event \in [Events -> EventRows]
  BY DEF TypeOK
<1>1. ASSUME NEW d \in Dates, NEW v \in Values, Save(d, v) PROVE event'[e] = event[e]
  <2>1. event' = event \/ (event[<<d, v>>].state = "absent" /\ event' = [event EXCEPT ![<<d, v>>].state = "pending"])
    BY <1>1 DEF Save
  <2> QED
    BY <1>0, <2>1
<1>2. ASSUME NEW d \in Dispatchers, Claim(d) PROVE event'[e] = event[e]
  BY <1>2 DEF Claim, Claimable
<1>3. ASSUME NEW d \in Dispatchers, NEW f \in Events, NEW state \in {"failed", "dispatched"},
             event' = [event EXCEPT ![f] = Updated(d, f, state)]
      PROVE  event'[e] = event[e]
  BY <1>3, RowUpdated
<1>4. ASSUME NEW d \in Dispatchers, Dispatch(d) \/ DispatchFaults(d) \/ AnswerLost(d) PROVE event'[e] = event[e]
  <2>1. ASSUME NEW state \in {"failed", "dispatched"},
               event' = [event EXCEPT ![hand[d].event] = Updated(d, hand[d].event, state)]
        PROVE  event'[e] = event[e]
    <3>1. CASE hand[d].event \in Events
      BY <1>3, <2>1, <3>1
    <3>2. CASE hand[d].event \notin Events
      BY <1>0, <2>1, <3>2
    <3> QED
      BY <3>1, <3>2
  <2>2. CASE \E f \in Events : Take(d, f)
    BY <2>2 DEF Take
  <2>3. CASE \E s \in Scopes : AddRebuild(d, s)
    BY <2>3 DEF AddRebuild
  <2>4. CASE DispatchFaults(d)
    BY <2>4 DEF DispatchFaults
  <2>5. CASE MarkDispatched(d)
    BY <2>1, <2>5 DEF MarkDispatched
  <2>6. CASE MarkDispatchFailed(d)
    BY <2>1, <2>6 DEF MarkDispatchFailed
  <2>7. CASE AnswerLost(d)
    BY <2>1, <2>7 DEF AnswerLost
  <2> QED
    BY <1>4, <2>2, <2>3, <2>4, <2>5, <2>6, <2>7 DEF Dispatch
<1>5. ASSUME NEW f \in Events, LeaseExpires(f) PROVE event'[e] = event[e]
  BY <1>0, <1>5 DEF LeaseExpires
<1>6. ASSUME NEW w \in Workers, Generate(w) \/ GenerationFails(w) \/ \E id \in JobIds : Start(w, id)
      PROVE  event'[e] = event[e]
  BY <1>6 DEF Generate, LoadEvidence, LockScope, InsertVersion, Finish, GenerationFails, Start, eventVars
<1>7. CASE (\E s \in Scopes : Schedule(s)) \/ (\E id \in JobIds : Stalled(id)) \/ Crash
  BY <1>7 DEF Schedule, Stalled, Crash, eventVars
<1>8. CASE UNCHANGED vars
  BY <1>8 DEF vars, eventVars
<1> QED
  BY <1>1, <1>2, <1>4, <1>5, <1>6, <1>7, <1>8 DEF Next

\* Once dispatched, an event is never reopened or failed by a dispatcher that
\* lost its lease or an answer (updateDispatch's ownership condition).
THEOREM DispatchedForever == Spec => DispatchedIsFinal
<1>1. TypeOK /\ [Next]_vars => [\A e \in Events : event[e].state = "dispatched" => event'[e] = event[e]]_vars
  BY DispatchedStays
<1> QED
  BY <1>1, TypeCorrect, PTL DEF Spec, DispatchedIsFinal

-----------------------------------------------------------------------------
\* Steps that touch neither an event's phase nor a rebuild stutter.
LEMMA Stutters ==
  ASSUME UNCHANGED <<jobs, owed>>,
         \A e \in Events : /\ event'[e].state = "absent" <=> event[e].state = "absent"
                           /\ event'[e].state = "dispatched" <=> event[e].state = "dispatched"
  PROVE  UNCHANGED Promised!vars
<1>1. Phase' = Phase
  BY DEF Phase
<1>2. Sent' = Sent
  BY DEF Sent
<1> QED
  BY <1>1, <1>2 DEF Promised!vars

\* The first observation of a date commits the event with what it owes then.
LEMMA SaveMaps ==
  ASSUME TypeOK, NEW d \in Dates, NEW v \in Values, Save(d, v)
  PROVE  [Promised!Next]_(Promised!vars)
<1> DEFINE e == <<d, v>>
           scopes == Affected(e)
<1>0. e \in Events /\ event \in [Events -> EventRows] /\ owed \in [Events -> SUBSET Scopes]
  BY DEF Events, TypeOK
<1>1. UNCHANGED jobs /\ scopes \in SUBSET Scopes
  BY DEF Save, Affected
<1>2. CASE event[e].state = "absent"
  <2> DEFINE row == [event[e] EXCEPT !.state = "pending"]
  <2>1. event' = [event EXCEPT ![e] = row] /\ owed' = [owed EXCEPT ![e] = scopes]
    BY <1>0, <1>2 DEF Save
  <2>2. row.state = "pending"
    BY <1>0 DEF EventRows
  <2> HIDE DEF row, scopes, e
  <2>3. Phase[e] = "absent" /\ Phase' = [Phase EXCEPT ![e] = "committed"]
    BY <1>0, <1>2, <2>1, <2>2 DEF Phase
  <2>4. Sent' = Sent
    BY <1>1 DEF Sent
  <2>5. \E debt \in SUBSET Scopes : owed' = [owed EXCEPT ![e] = debt]
    BY <1>1, <2>1
  <2>6. Promised!Commit(e)
    BY <2>3, <2>4, <2>5 DEF Promised!Commit
  <2> QED
    BY <1>0, <2>6 DEF Promised!Next
<1>3. CASE event[e].state # "absent"
  BY <1>1, <1>3, Stutters DEF Save
<1> QED
  BY <1>2, <1>3

\* Adding a rebuild sends it, unless the queue has it already.
LEMMA AddRebuildMaps ==
  ASSUME IInv, NEW d \in Dispatchers, NEW s \in Scopes, AddRebuild(d, s)
  PROVE  [Promised!Next]_(Promised!vars)
<1>0. PICK e \in Events : e = hand[d].event
  BY RebuildAdded
<1>1. PICK id \in JobIds : id = RebuildJob(s, e)
  BY <1>0, RebuildAdded
<1>2. jobs'[id] = Added(jobs[id]) /\ \A other \in JobIds \ {id} : jobs'[other] = jobs[other]
  BY <1>0, <1>1, RebuildAdded
<1>3. UNCHANGED <<event, owed>> /\ Phase' = Phase
  BY DEF AddRebuild, Phase
<1>4. jobs[id] \in QueueStates /\ \A t \in Scopes, f \in Events : RebuildJob(t, f) \in JobIds
  BY DEF IInv, TypeOK, RebuildJob, JobIds
<1>5. jobs'[id].state # "none"
  BY <1>2, <1>4 DEF Added, QueueStates
<1>6. CASE jobs[id].state # "none"
  <2>1. \A other \in JobIds : jobs'[other] = jobs[other]
    BY <1>2, <1>6 DEF Added
  <2>2. Sent' = Sent
    BY <1>4, <2>1 DEF Sent
  <2> QED
    BY <1>3, <2>2 DEF Promised!vars
<1>7. CASE jobs[id].state = "none"
  <2>1. s \notin Sent[e]
    BY <1>1, <1>7 DEF Sent
  <2>2. \A t \in Scopes, f \in Events : RebuildJob(t, f) = id <=> t = s /\ f = e
    BY <1>1 DEF RebuildJob
  <2>3. \A f \in Events : {t \in Scopes : jobs'[RebuildJob(t, f)].state # "none"}
                          = IF f = e THEN Sent[e] \cup {s} ELSE Sent[f]
    BY <1>2, <1>4, <1>5, <2>2 DEF Sent
  <2>4. Sent' = [Sent EXCEPT ![e] = Sent[e] \cup {s}]
    BY <2>3 DEF Sent
  <2>5. Phase[e] # "absent"
    BY <1>0, NothingAssumption DEF IInv, OutboxInv, Outstanding, Phase
  <2>6. Promised!Send(e, s)
    BY <1>3, <2>1, <2>4, <2>5 DEF Promised!Send
  <2> QED
    BY <2>6 DEF Promised!Next
<1> QED
  BY <1>6, <1>7

\* Marking an event dispatches it, unless its claim was lost.
LEMMA DispatchedMaps ==
  ASSUME IInv, ~OnlyAwaiting, NEW d \in Dispatchers, NEW e \in Events,
         e = hand[d].event, hand[d].todo = {}, ~hand[d].failing,
         event' = [event EXCEPT ![e] = Updated(d, e, "dispatched")], UNCHANGED <<owed, jobs>>
  PROVE  [Promised!Next]_(Promised!vars)
<1>1. /\ \A f \in Events \ {e} : event'[f] = event[f]
      /\ Owns(d, e) => event[e].state = "processing" /\ event'[e].state = "dispatched"
      /\ ~Owns(d, e) => event'[e] = event[e]
  BY RowUpdated DEF IInv
<1>2. CASE Owns(d, e)
  <2>1. \A s \in owed[e] : IsSent(s, e)
    BY NothingAssumption DEF IInv, OutboxInv, Outstanding
  <2>2. owed[e] \subseteq Sent[e]
    BY <2>1 DEF Sent, IsSent, IInv, TypeOK
  <2>3. Phase[e] = "committed" /\ Phase' = [Phase EXCEPT ![e] = "dispatched"]
    BY <1>1, <1>2 DEF Phase
  <2>4. Sent' = Sent
    BY DEF Sent
  <2>5. Promised!Dispatch(e)
    BY <2>2, <2>3, <2>4 DEF Promised!Dispatch
  <2> QED
    BY <2>5 DEF Promised!Next
<1>3. CASE ~Owns(d, e)
  BY <1>1, <1>3, Stutters
<1> QED
  BY <1>2, <1>3

\* The worker's steps leave every rebuild sent or not sent.
LEMMA WorkStutters ==
  ASSUME UNCHANGED <<event, owed>>, NEW id \in JobIds,
         jobs' = jobs \/ ( /\ \A other \in JobIds \ {id} : jobs'[other] = jobs[other]
                           /\ jobs'[id].state = "none" <=> jobs[id].state = "none" )
  PROVE  UNCHANGED Promised!vars
<1>1. \A s \in Scopes, e \in Events : jobs'[RebuildJob(s, e)].state # "none" <=> jobs[RebuildJob(s, e)].state # "none"
  BY DEF RebuildJob, JobIds
<1>2. Sent' = Sent
  BY <1>1 DEF Sent
<1>3. Phase' = Phase
  BY DEF Phase
<1> QED
  BY <1>2, <1>3 DEF Promised!vars

LEMMA StepsMap ==
  ASSUME IInv, ~OnlyAwaiting, [Next]_vars
  PROVE  [Promised!Next]_(Promised!vars)
<1>0. jobs \in [JobIds -> QueueStates] /\ event \in [Events -> EventRows]
  BY DEF IInv, TypeOK
<1>1. ASSUME NEW d \in Dates, NEW v \in Values, Save(d, v) PROVE [Promised!Next]_(Promised!vars)
  BY <1>1, SaveMaps DEF IInv
<1>2. ASSUME NEW d \in Dispatchers, Claim(d) PROVE [Promised!Next]_(Promised!vars)
  <2>1. UNCHANGED <<jobs, owed>>
    BY <1>2 DEF Claim
  <2>2. \A e \in Events : /\ event'[e].state = "absent" <=> event[e].state = "absent"
                          /\ event'[e].state = "dispatched" <=> event[e].state = "dispatched"
    <3>1. \A e \in Events : event'[e] = event[e] \/ (Claimable(e) /\ event'[e].state = "processing")
      BY <1>2 DEF Claim
    <3> QED
      BY <3>1 DEF Claimable
  <2> QED
    BY <2>1, <2>2, Stutters
<1>3. ASSUME NEW d \in Dispatchers, NEW e \in Events, Take(d, e) PROVE [Promised!Next]_(Promised!vars)
  BY <1>3, Stutters DEF Take
<1>4. ASSUME NEW d \in Dispatchers, NEW s \in Scopes, AddRebuild(d, s) PROVE [Promised!Next]_(Promised!vars)
  BY <1>4, AddRebuildMaps
<1>5. ASSUME NEW d \in Dispatchers, MarkDispatched(d) \/ AnswerLost(d) PROVE [Promised!Next]_(Promised!vars)
  <2>1. PICK e \in Events : e = hand[d].event
    BY <1>5 DEF MarkDispatched, AnswerLost, IInv, TypeOK, Hands
  <2>2. /\ hand[d].todo = {} /\ ~hand[d].failing /\ UNCHANGED <<owed, jobs>>
        /\ event' = [event EXCEPT ![e] = Updated(d, e, "dispatched")]
    BY <1>5, <2>1 DEF MarkDispatched, AnswerLost
  <2> QED
    BY <2>1, <2>2, DispatchedMaps
<1>6. ASSUME NEW d \in Dispatchers, MarkDispatchFailed(d) PROVE [Promised!Next]_(Promised!vars)
  <2>1. UNCHANGED <<jobs, owed>> /\ event' = [event EXCEPT ![hand[d].event] = Updated(d, hand[d].event, "failed")]
    BY <1>6 DEF MarkDispatchFailed
  <2>2. \A f \in Events : event'[f] = event[f] \/ (event[f].state = "processing" /\ event'[f].state = "failed")
    <3>1. CASE hand[d].event \in Events
      BY <2>1, <3>1, RowUpdated DEF IInv
    <3>2. CASE hand[d].event \notin Events
      BY <1>0, <2>1, <3>2
    <3> QED
      BY <3>1, <3>2
  <2> QED
    BY <2>1, <2>2, Stutters
<1>7. ASSUME NEW d \in Dispatchers, DispatchFaults(d) PROVE [Promised!Next]_(Promised!vars)
  BY <1>7, Stutters DEF DispatchFaults
<1>8. ASSUME NEW e \in Events, LeaseExpires(e) PROVE [Promised!Next]_(Promised!vars)
  <2>1. UNCHANGED <<jobs, owed>> /\ event' = [event EXCEPT ![e].lapsed = TRUE]
    BY <1>8 DEF LeaseExpires
  <2>2. \A f \in Events : event'[f].state = event[f].state
    BY <1>0, <2>1 DEF EventRows
  <2> QED
    BY <2>1, <2>2, Stutters
<1>9. ASSUME NEW s \in Scopes, Schedule(s) PROVE [Promised!Next]_(Promised!vars)
  <2>1. UNCHANGED <<event, owed>> /\ jobs' = [jobs EXCEPT ![Scheduled(s)] = Added(jobs[Scheduled(s)])]
    BY <1>9 DEF Schedule, eventVars
  <2>2. \A t \in Scopes, e \in Events : RebuildJob(t, e) \in JobIds /\ RebuildJob(t, e) # Scheduled(s)
    BY NothingAssumption DEF RebuildJob, Scheduled, JobIds
  <2>3. \A t \in Scopes, e \in Events : jobs'[RebuildJob(t, e)] = jobs[RebuildJob(t, e)]
    BY <1>0, <2>1, <2>2
  <2>4. Sent' = Sent
    BY <2>3 DEF Sent
  <2>5. Phase' = Phase
    BY <2>1 DEF Phase
  <2> QED
    BY <2>1, <2>4, <2>5 DEF Promised!vars
<1>10. ASSUME NEW w \in Workers, NEW id \in JobIds, Start(w, id) PROVE [Promised!Next]_(Promised!vars)
  <2>1. UNCHANGED <<event, owed>> /\ jobs' = [jobs EXCEPT ![id].state = "active"] /\ jobs[id].state = "waiting"
    BY <1>10 DEF Start, eventVars
  <2>2. jobs'[id].state = "active" /\ \A other \in JobIds \ {id} : jobs'[other] = jobs[other]
    BY <1>0, <2>1 DEF QueueStates
  <2> QED
    BY <2>1, <2>2, WorkStutters
<1>11. ASSUME NEW w \in Workers, LoadEvidence(w) \/ LockScope(w) \/ InsertVersion(w)
       PROVE  [Promised!Next]_(Promised!vars)
  BY <1>11, Stutters DEF LoadEvidence, LockScope, InsertVersion, eventVars
<1>12. ASSUME NEW w \in Workers, Finish(w) \/ GenerationFails(w) PROVE [Promised!Next]_(Promised!vars)
  <2>1. PICK id \in JobIds : id = work[w].job
    BY <1>12, AtWork DEF Finish, GenerationFails
  <2>2. jobs[id].state = "active"
    BY <1>12, <2>1, AtWork DEF Finish, GenerationFails
  <2>3. UNCHANGED <<event, owed>>
    BY <1>12 DEF Finish, GenerationFails, eventVars
  <2>4. \A other \in JobIds \ {id} : jobs'[other] = jobs[other]
    BY <1>0, <1>12, <2>1 DEF Finish, GenerationFails
  <2>5. jobs'[id].state # "none"
    <3>1. CASE Finish(w)
      BY <1>0, <2>1, <3>1 DEF Finish, QueueStates
    <3>2. CASE GenerationFails(w)
      BY <1>0, <2>1, <3>2 DEF GenerationFails, Retried, QueueStates
    <3> QED
      BY <1>12, <3>1, <3>2
  <2> QED
    BY <2>2, <2>3, <2>4, <2>5, WorkStutters
<1>13. ASSUME NEW id \in JobIds, Stalled(id) PROVE [Promised!Next]_(Promised!vars)
  <2> DEFINE to == IF jobs[id].stalls = MaxStalls THEN "failed" ELSE "waiting"
  <2>1. /\ UNCHANGED <<event, owed>> /\ jobs[id].state = "active"
        /\ jobs' = [jobs EXCEPT ![id].stalls = @ + 1, ![id].state = to]
    BY <1>13 DEF Stalled, eventVars
  <2>2. to # "none"
    OBVIOUS
  <2> HIDE DEF to
  <2>3. jobs'[id].state = to /\ \A other \in JobIds \ {id} : jobs'[other] = jobs[other]
    BY <1>0, <2>1 DEF QueueStates
  <2> QED
    BY <2>1, <2>2, <2>3, WorkStutters
<1>14. CASE Crash
  BY <1>14, Stutters DEF Crash
<1>15. CASE UNCHANGED vars
  BY <1>15, Stutters DEF vars, eventVars
<1> QED
  BY <1>1, <1>2, <1>3, <1>4, <1>5, <1>6, <1>7, <1>8, <1>9, <1>10, <1>11, <1>12, <1>13, <1>14, <1>15
  DEF Next, Dispatch, Generate

LEMMA StartsMap == Init => Promised!Init
<1> SUFFICES ASSUME Init PROVE Promised!Init
  OBVIOUS
<1>1. Phase = [e \in Events |-> "absent"]
  BY DEF Init, Phase
<1>2. ASSUME NEW s \in Scopes, NEW e \in Events PROVE jobs[RebuildJob(s, e)].state = "none"
  BY NothingAssumption DEF Init, RebuildJob, JobIds, NoJob
<1>3. Sent = [e \in Events |-> {}]
  BY <1>2 DEF Sent
<1> QED
  BY <1>1, <1>3 DEF Init, Promised!Init

\* For official and self-scrape accounts, whatever the dispatchers, leases,
\* crashes and lost answers: a committed event is dispatched only after every
\* report it owed has been sent its rebuild, each one once, and for good.
THEOREM OutboxImplemented == ASSUME ~OnlyAwaiting PROVE Spec => ImplementsOutbox
<1>1. Init => Promised!Init
  BY StartsMap
<1>2. IInv /\ [Next]_vars => [Promised!Next]_(Promised!vars)
  BY StepsMap
<1> QED
  BY <1>1, <1>2, Invariance, PTL DEF Spec, ImplementsOutbox, Promised!Spec

\* What its readers may rely on: a dispatched event owes no report a rebuild.
THEOREM PromiseKept == ASSUME ~OnlyAwaiting PROVE Spec => []Promised!Promise
<1>1. IInv => Promised!Promise
  <2> SUFFICES ASSUME IInv, NEW e \in Events, Phase[e] = "dispatched"
               PROVE  owed[e] \subseteq Sent[e]
    BY DEF Promised!Promise
  <2>1. event[e].state = "dispatched"
    BY DEF Phase
  <2> QED
    BY <2>1 DEF IInv, OutboxInv, Paid, TypeOK, IsSent, Sent
<1> QED
  BY <1>1, Invariance, PTL
-----------------------------------------------------------------------------
(* Reports catch up, for any number of slots, limits, open dates and reports  *)
(* in place: first for the accounts whose reports are all rebuilt.            *)

\* A rebuild of s is owed and not yet sent.
Unsent(s) == \E e \in Events : event[e].state # "absent" /\ s \in owed[e] /\ ~IsSent(s, e)

\* A job that will load its evidence, now or when it is run again.
ToLoad(id) ==
  \/ jobs[id].state = "waiting"
  \/ jobs[id].state = "active" /\ \A w \in Workers : work[w].job = id => work[w].pc = "load"

Pending(s) == Unsent(s) \/ \E id \in JobIds : id[1] = s /\ ToLoad(id)

\* The report of s is up to date, or will be when the slot has stored it.
Current(s) ==
  /\ \A w \in Workers : Carries(w, s) => work[w].content = Content(s)
  /\ (\A w \in Workers : ~Carries(w, s)) => versions[s] = <<>> \/ Latest(s) = Content(s)

\* Among what slots carry and reports store, there is the content of s.
Kept(s) ==
  \/ \E w \in Workers : Carries(w, s) /\ work[w].content = Content(s)
  \/ \E i \in 1..Len(versions[s]) : versions[s][i].content = Content(s)

Safe(s) == (s \in overlapped /\ Kept(s)) \/ (s \notin overlapped /\ Current(s))

Delivery == OnlyAwaiting \/ \A s \in Scopes \ missed : Pending(s) \/ Safe(s)

\* An observation not yet committed has no rebuild.
NothingEarly == \A e \in Events : event[e].state = "absent" => \A s \in Scopes : ~IsSent(s, e)

\* Two slots carry a scope only when the later one to load it has noted so.
OneCarrier ==
  \A s \in Scopes \ overlapped : \A v, w \in Workers : Carries(v, s) /\ Carries(w, s) => v = w

DInv == NothingEarly /\ OneCarrier /\ Delivery

\* What was written about a scope rests on the snapshots alone.
LEMMA SameContent ==
  ASSUME UNCHANGED data, NEW s \in Scopes
  PROVE  Content(s)' = Content(s)
BY DEF Content, Missing, Available, Baseline, Period, Awaiting

LEMMA Ids ==
  /\ \A s \in Scopes, e \in Events : RebuildJob(s, e) \in JobIds /\ RebuildJob(s, e)[1] = s
  /\ \A s \in Scopes : Scheduled(s) \in JobIds
  /\ \A id \in JobIds : id[1] \in Scopes
BY DEF RebuildJob, Scheduled, JobIds

\* Nobody forgets what is owed, and nothing is sent ahead of its event.
LEMMA DebtsStay ==
  ASSUME NothingEarly, UNCHANGED owed,
         \A e \in Events : event'[e].state = "absent" <=> event[e].state = "absent",
         \A id \in JobIds : jobs'[id].state = "none" <=> jobs[id].state = "none"
  PROVE  NothingEarly' /\ \A s \in Scopes : Unsent(s) => Unsent(s)'
BY Ids DEF NothingEarly, Unsent, IsSent

\* Nobody starts or stops carrying s, nothing is stored, its content stays.
LEMMA SafeStays ==
  ASSUME NEW s \in Scopes, Content(s)' = Content(s), versions'[s] = versions[s],
         s \in overlapped' <=> s \in overlapped,
         \A w \in Workers : /\ Carries(w, s)' <=> Carries(w, s)
                            /\ Carries(w, s) => work'[w].content = work[w].content
  PROVE  Safe(s)' <=> Safe(s)
BY DEF Safe, Kept, Current, Latest

\* Steps of the outbox that send nothing.
LEMMA OutboxDelivers ==
  ASSUME DInv, UNCHANGED <<data, owed, jobs, work, versions, missed, overlapped>>,
         \A e \in Events : event'[e].state = "absent" <=> event[e].state = "absent"
  PROVE  DInv'
<1>1. NothingEarly' /\ \A s \in Scopes : Unsent(s) => Unsent(s)'
  BY DebtsStay DEF DInv
<1>2. \A w \in Workers, s \in Scopes : Carries(w, s)' <=> Carries(w, s)
  BY DEF Carries, ScopeOf
<1>3. OneCarrier'
  BY <1>2 DEF DInv, OneCarrier
<1>4. ASSUME NEW s \in Scopes \ missed PROVE OnlyAwaiting \/ Pending(s)' \/ Safe(s)'
  <2>1. Pending(s) => Pending(s)'
    BY <1>1 DEF Pending, ToLoad
  <2>2. Safe(s) => Safe(s)'
    BY <1>2, SafeStays, SameContent
  <2> QED BY <2>1, <2>2 DEF DInv, Delivery
<1> QED BY <1>1, <1>3, <1>4 DEF DInv, Delivery

\* An observation either leaves the content of a scope alone, or owes it a rebuild,
\* or has missed it.
LEMMA SaveDelivers ==
  ASSUME IInv, DInv, NEW d \in Dates, NEW v \in Values, Save(d, v)
  PROVE  DInv'
<1> DEFINE e == <<d, v>>
<1>1. /\ e \in Events /\ event \in [Events -> EventRows] /\ owed \in [Events -> SUBSET Scopes]
      /\ missed' = missed \cup Unannounced(e) /\ UNCHANGED <<jobs, work, versions, overlapped>>
  BY DEF Save, Events, IInv, TypeOK, reportVars
<1>2. \/ /\ event[e].state = "absent"
         /\ event' = [event EXCEPT ![e].state = "pending"] /\ owed' = [owed EXCEPT ![e] = Affected(e)]
      \/ event[e].state # "absent" /\ UNCHANGED <<event, owed>>
  BY DEF Save
<1> HIDE DEF e
<1>3. event[e].state = "absent" => event'[e].state = "pending" /\ owed'[e] = Affected(e)
  BY <1>1, <1>2 DEF EventRows
<1>4. \A f \in Events : f # e \/ event[e].state # "absent" => event'[f] = event[f] /\ owed'[f] = owed[f]
  BY <1>1, <1>2
<1>5. NothingEarly'
  BY <1>1, <1>3, <1>4 DEF DInv, NothingEarly, IsSent
<1>6. \A w \in Workers, s \in Scopes : Carries(w, s)' <=> Carries(w, s)
  BY <1>1 DEF Carries, ScopeOf
<1>7. OneCarrier'
  BY <1>1, <1>6 DEF DInv, OneCarrier
<1>8. ASSUME NEW s \in Scopes, s \notin missed' PROVE OnlyAwaiting \/ Pending(s)' \/ Safe(s)'
  <2>1. s \notin missed
    BY <1>1, <1>8
  <2>2. Content(s)' = Content(s) \/ (event[e].state = "absent" /\ s \in Affected(e))
    BY <1>1, <1>8 DEF Unannounced
  <2>3. CASE Unsent(s)
    <3>1. PICK f \in Events : event[f].state # "absent" /\ s \in owed[f] /\ ~IsSent(s, f)
      BY <2>3 DEF Unsent
    <3>2. event'[f] = event[f] /\ owed'[f] = owed[f]
      BY <1>4, <3>1
    <3> QED BY <1>1, <3>1, <3>2 DEF Pending, Unsent, IsSent
  <2>4. CASE \E id \in JobIds : id[1] = s /\ ToLoad(id)
    BY <1>1, <2>4 DEF Pending, ToLoad
  <2>5. CASE event[e].state = "absent" /\ s \in Affected(e)
    <3>1. ~IsSent(s, e)'
      BY <1>1, <2>5 DEF DInv, NothingEarly, IsSent
    <3> QED BY <1>1, <1>3, <2>5, <3>1 DEF Pending, Unsent
  <2>6. CASE Content(s)' = Content(s) /\ Safe(s)
    BY <1>1, <1>6, <2>6, SafeStays
  <2> QED BY <2>1, <2>2, <2>3, <2>4, <2>5, <2>6 DEF DInv, Delivery, Pending
<1> QED BY <1>5, <1>7, <1>8 DEF DInv, Delivery

\* A job is added to the queue, or was there.
LEMMA AddedDelivers ==
  ASSUME IInv, DInv, NEW id \in JobIds, jobs' = [jobs EXCEPT ![id] = Added(jobs[id])],
         UNCHANGED <<data, event, owed, work, versions, missed, overlapped>>,
         \A s \in Scopes, e \in Events : id = RebuildJob(s, e) => event[e].state # "absent"
  PROVE  DInv'
<1>1. jobs \in [JobIds -> QueueStates]
  BY DEF IInv, TypeOK
<1>2. /\ jobs'[id].state = IF jobs[id].state = "none" THEN "waiting" ELSE jobs[id].state
      /\ \A i \in JobIds \ {id} : jobs'[i] = jobs[i]
  BY <1>1 DEF Added, QueueStates
<1>3. NothingEarly'
  BY <1>2, Ids DEF DInv, NothingEarly, IsSent
<1>4. \A w \in Workers, s \in Scopes : Carries(w, s)' <=> Carries(w, s)
  BY DEF Carries, ScopeOf
<1>5. OneCarrier'
  BY <1>4 DEF DInv, OneCarrier
<1>6. ASSUME NEW s \in Scopes \ missed PROVE OnlyAwaiting \/ Pending(s)' \/ Safe(s)'
  <2>1. CASE Unsent(s)
    <3>1. PICK e \in Events : event[e].state # "absent" /\ s \in owed[e] /\ ~IsSent(s, e)
      BY <2>1 DEF Unsent
    <3>2. CASE id = RebuildJob(s, e)
      <4>1. jobs'[id].state = "waiting" /\ id[1] = s
        BY <1>2, <3>1, <3>2, Ids DEF IsSent
      <4> QED BY <4>1 DEF Pending, ToLoad
    <3>3. CASE id # RebuildJob(s, e)
      BY <1>2, <3>1, <3>3, Ids DEF Pending, Unsent, IsSent
    <3> QED BY <3>2, <3>3
  <2>2. CASE \E i \in JobIds : i[1] = s /\ ToLoad(i)
    <3>1. PICK i \in JobIds : i[1] = s /\ ToLoad(i)
      BY <2>2
    <3>2. jobs'[i].state = jobs[i].state
      BY <1>2, <3>1 DEF ToLoad
    <3> QED BY <3>1, <3>2 DEF Pending, ToLoad
  <2>3. CASE Safe(s)
    BY <1>4, <2>3, SafeStays, SameContent
  <2> QED BY <2>1, <2>2, <2>3 DEF DInv, Delivery, Pending
<1> QED BY <1>3, <1>5, <1>6 DEF DInv, Delivery

LEMMA AddRebuildDelivers ==
  ASSUME IInv, DInv, NEW d \in Dispatchers, NEW s \in Scopes, AddRebuild(d, s)
  PROVE  DInv'
<1>1. PICK e \in Events : e = hand[d].event /\ event[e].state # "absent"
  BY DEF AddRebuild, IInv, TypeOK, Hands, OutboxInv, Outstanding
<1>2. \A t \in Scopes, f \in Events : RebuildJob(s, e) = RebuildJob(t, f) => e = f
  BY DEF RebuildJob
<1>3. RebuildJob(s, e) \in JobIds
  BY Ids
<1>4. jobs' = [jobs EXCEPT ![RebuildJob(s, e)] = Added(jobs[RebuildJob(s, e)])]
      /\ UNCHANGED <<data, event, owed, work, versions, missed, overlapped>>
  BY <1>1 DEF AddRebuild, reportVars, slips
<1> QED BY <1>1, <1>2, <1>3, <1>4, AddedDelivers

LEMMA ScheduleDelivers ==
  ASSUME IInv, DInv, NEW s \in Scopes, Schedule(s)
  PROVE  DInv'
<1>1. \A t \in Scopes, e \in Events : Scheduled(s) # RebuildJob(t, e)
  BY NothingAssumption DEF Scheduled, RebuildJob
<1>2. jobs' = [jobs EXCEPT ![Scheduled(s)] = Added(jobs[Scheduled(s)])]
      /\ UNCHANGED <<data, event, owed, work, versions, missed, overlapped>>
  BY DEF Schedule, eventVars, reportVars, slips
<1> QED BY <1>1, <1>2, Ids, AddedDelivers

\* A slot takes a job, which loads its evidence first.
LEMMA StartDelivers ==
  ASSUME IInv, DInv, NEW w \in Workers, NEW id \in JobIds, Start(w, id)
  PROVE  DInv'
<1>1. /\ jobs \in [JobIds -> QueueStates] /\ work \in [Workers -> Slots] /\ jobs[id].state = "waiting"
      /\ work[w].pc = "idle" /\ work[w].job = Nobody
      /\ jobs' = [jobs EXCEPT ![id].state = "active"]
      /\ work' = [work EXCEPT ![w] = [Idle EXCEPT !.pc = "load", !.job = id]]
      /\ UNCHANGED <<data, event, owed, versions, missed, overlapped>>
  BY DEF Start, IInv, TypeOK, eventVars, slips, WorkerInv, Holding
<1>2. jobs'[id].state = "active" /\ \A i \in JobIds \ {id} : jobs'[i] = jobs[i]
  BY <1>1 DEF QueueStates
<1>3. work'[w].pc = "load" /\ work'[w].job = id /\ \A v \in Workers \ {w} : work'[v] = work[v]
  BY <1>1 DEF Idle
<1>4. \A v \in Workers : work[v].job # id
  BY <1>1, NothingAssumption DEF IInv, WorkerInv, Holding
<1>5. NothingEarly' /\ \A s \in Scopes : Unsent(s) => Unsent(s)'
  BY <1>1, <1>2, DebtsStay DEF DInv
<1>6. \A v \in Workers, s \in Scopes :
        (Carries(v, s)' <=> Carries(v, s)) /\ (Carries(v, s) => work'[v].content = work[v].content)
  BY <1>1, <1>3 DEF Carries, ScopeOf
<1>7. OneCarrier'
  BY <1>1, <1>6 DEF DInv, OneCarrier
<1>8. \A i \in JobIds : ToLoad(i) => ToLoad(i)'
  <2> SUFFICES ASSUME NEW i \in JobIds, ToLoad(i) PROVE ToLoad(i)'
    OBVIOUS
  <2>1. CASE i = id
    BY <1>2, <1>3, <1>4, <2>1 DEF ToLoad
  <2>2. CASE i # id
    BY <1>2, <1>3, <2>2 DEF ToLoad
  <2> QED BY <2>1, <2>2
<1>9. ASSUME NEW s \in Scopes \ missed PROVE OnlyAwaiting \/ Pending(s)' \/ Safe(s)'
  <2>1. Pending(s) => Pending(s)'
    BY <1>5, <1>8 DEF Pending
  <2>2. Safe(s) => Safe(s)'
    BY <1>1, <1>6, SafeStays, SameContent
  <2> QED BY <2>1, <2>2 DEF DInv, Delivery
<1> QED BY <1>1, <1>5, <1>7, <1>9 DEF DInv, Delivery

\* The slot goes on with its job: the job is not to load any more.
LEMMA JobGoesOn ==
  ASSUME IInv, DInv, NEW w \in Workers, work[w].pc # "idle",
         work'[w].job = work[w].job, work'[w].pc # "load", \A v \in Workers \ {w} : work'[v] = work[v],
         UNCHANGED <<event, owed, jobs>>
  PROVE  /\ NothingEarly'
         /\ \A s \in Scopes : Pending(s) /\ s # ScopeOf(w) => Pending(s)'
         /\ work[w].pc # "load" => \A s \in Scopes : Pending(s) => Pending(s)'
<1>1. NothingEarly' /\ \A s \in Scopes : Unsent(s) => Unsent(s)'
  BY DebtsStay DEF DInv
<1>2. \A id \in JobIds : id # work[w].job => (ToLoad(id) => ToLoad(id)')
  BY DEF ToLoad
<1>3. work[w].pc # "load" => \A id \in JobIds : ToLoad(id) => ToLoad(id)'
  BY AtWork DEF ToLoad
<1>4. \A s \in Scopes : Pending(s) /\ s # ScopeOf(w) => Pending(s)'
  BY <1>1, <1>2 DEF Pending, ScopeOf
<1>5. work[w].pc # "load" => \A s \in Scopes : Pending(s) => Pending(s)'
  BY <1>1, <1>3 DEF Pending
<1> QED BY <1>1, <1>4, <1>5

\* The content loaded is the one to store; if another slot carries an older one, it is
\* not known which of the two will be the latest report.
LEMMA LoadEvidenceDelivers ==
  ASSUME IInv, DInv, NEW w \in Workers, LoadEvidence(w)
  PROVE  DInv'
<1>0. PICK s \in Scopes : s = ScopeOf(w) /\ work[w].pc = "load"
  BY AtWork DEF LoadEvidence
<1>1. /\ work'[w].pc = "lock" /\ work'[w].job = work[w].job
      /\ work'[w].content = Content(s) /\ \A v \in Workers \ {w} : work'[v] = work[v]
      /\ missed' = missed \ {s} /\ UNCHANGED <<data, event, owed, jobs, versions>>
  BY <1>0 DEF LoadEvidence, IInv, TypeOK, Slots, eventVars
<1>2. overlapped' = IF \E v \in Workers : Carries(v, s) THEN overlapped \cup {s} ELSE overlapped \ {s}
  BY <1>0 DEF LoadEvidence
<1>3. NothingEarly' /\ \A t \in Scopes : Pending(t) /\ t # s => Pending(t)'
  BY <1>0, <1>1, JobGoesOn
<1>4. Carries(w, s)' /\ (\A t \in Scopes : ~Carries(w, t)) /\ \A t \in Scopes \ {s} : ~Carries(w, t)'
  BY <1>0, <1>1 DEF Carries, ScopeOf
<1>5. \A v \in Workers \ {w}, t \in Scopes :
        (Carries(v, t)' <=> Carries(v, t)) /\ (Carries(v, t) => work'[v].content = work[v].content)
  BY <1>1 DEF Carries, ScopeOf
<1>6. OneCarrier'
  <2> SUFFICES ASSUME NEW t \in Scopes, t \notin overlapped', NEW u \in Workers, NEW v \in Workers,
                      Carries(u, t)', Carries(v, t)'
               PROVE  u = v
    BY DEF OneCarrier
  <2>1. CASE t = s
    BY <1>2, <1>5, <2>1
  <2>2. CASE t # s
    BY <1>2, <1>4, <1>5, <2>2 DEF DInv, OneCarrier
  <2> QED BY <2>1, <2>2
<1>7. Safe(s)'
  <2>1. work'[w].content = Content(s)'
    BY <1>1, SameContent
  <2>2. CASE \E v \in Workers : Carries(v, s)
    BY <1>2, <1>4, <2>1, <2>2 DEF Safe, Kept
  <2>3. CASE \A v \in Workers : ~Carries(v, s)
    BY <1>2, <1>4, <1>5, <2>1, <2>3 DEF Safe, Current
  <2> QED BY <2>2, <2>3
<1>8. ASSUME NEW t \in Scopes, t # s, t \notin missed PROVE OnlyAwaiting \/ Pending(t)' \/ Safe(t)'
  <2>1. Safe(t) => Safe(t)'
    BY <1>1, <1>2, <1>4, <1>5, <1>8, SafeStays, SameContent
  <2> QED BY <1>3, <1>8, <2>1 DEF DInv, Delivery
<1> QED BY <1>1, <1>3, <1>6, <1>7, <1>8 DEF DInv, Delivery

LEMMA LockScopeDelivers ==
  ASSUME IInv, DInv, NEW w \in Workers, LockScope(w)
  PROVE  DInv'
<1>1. /\ work[w].pc = "lock" /\ work'[w].pc = "insert" /\ work'[w].job = work[w].job
      /\ work'[w].content = work[w].content /\ \A v \in Workers \ {w} : work'[v] = work[v]
      /\ UNCHANGED <<data, event, owed, jobs, versions, missed, overlapped>>
  BY DEF LockScope, IInv, TypeOK, Slots, eventVars, slips
<1>2. NothingEarly' /\ \A s \in Scopes : Pending(s) => Pending(s)'
  BY <1>1, JobGoesOn
<1>3. \A v \in Workers, s \in Scopes :
        (Carries(v, s)' <=> Carries(v, s)) /\ work'[v].content = work[v].content
  BY <1>1 DEF Carries, ScopeOf
<1>4. OneCarrier'
  BY <1>1, <1>3 DEF DInv, OneCarrier
<1>5. \A s \in Scopes : Safe(s) => Safe(s)'
  BY <1>1, <1>3, SafeStays, SameContent
<1> QED BY <1>1, <1>2, <1>4, <1>5 DEF DInv, Delivery

\* What storing a version does.
LEMMA Inserted ==
  ASSUME IInv, NEW w \in Workers, NEW s \in Scopes, s = ScopeOf(w), InsertVersion(w)
  PROVE  /\ work[w].pc = "insert" /\ work'[w].pc = "finish" /\ work'[w].job = work[w].job
         /\ \A v \in Workers \ {w} : work'[v] = work[v]
         /\ versions'[s] # <<>> /\ Latest(s)' = work[w].content
         /\ \E i \in 1..Len(versions'[s]) : versions'[s][i].content = work[w].content
         /\ \A i \in 1..Len(versions[s]) : i \in 1..Len(versions'[s]) /\ versions'[s][i] = versions[s][i]
         /\ \A t \in Scopes \ {s} : versions'[t] = versions[t]
         /\ UNCHANGED <<data, event, owed, hand, jobs, missed, overlapped>>
<1> DEFINE row == [number |-> work[w].number, content |-> work[w].content]
           Reports == [number : Nat, content : Contents]
<1>1. /\ work[w].pc = "insert" /\ work'[w].pc = "finish" /\ work'[w].job = work[w].job
      /\ \A v \in Workers \ {w} : work'[v] = work[v]
      /\ row \in Reports /\ row.content = work[w].content
      /\ versions \in [Scopes -> Seq(Reports)] /\ versions' = [versions EXCEPT ![s] = Append(versions[s], row)]
      /\ UNCHANGED <<data, event, owed, hand, jobs, missed, overlapped>>
  BY DEF InsertVersion, IInv, TypeOK, Slots, eventVars, slips
<1> HIDE DEF row, Reports
<1> DEFINE old == versions[s]
<1>2. old \in Seq(Reports) /\ versions'[s] = Append(old, row)
  BY <1>1
<1>3. \A i \in 1..Len(versions[s]) : versions[s][i] = old[i] /\ i \in 1..Len(old)
  OBVIOUS
<1>4. \A t \in Scopes \ {s} : versions'[t] = versions[t]
  BY <1>1
<1> HIDE DEF old
<1>5. /\ Len(Append(old, row)) = Len(old) + 1 /\ Append(old, row)[Len(old) + 1] = row /\ Len(old) \in Nat
      /\ \A i \in 1..Len(old) : Append(old, row)[i] = old[i]
  BY <1>1, <1>2
<1>6. Append(old, row) # <<>>
  BY <1>5
<1>7. Latest(s)' = work[w].content
  BY <1>1, <1>2, <1>5 DEF Latest
<1>8. Len(old) + 1 \in 1..Len(versions'[s]) /\ versions'[s][Len(old) + 1].content = work[w].content
  BY <1>1, <1>2, <1>5
<1>9. \A i \in 1..Len(old) : i \in 1..Len(versions'[s]) /\ versions'[s][i] = old[i]
  BY <1>2, <1>5
<1> QED BY <1>1, <1>2, <1>3, <1>4, <1>6, <1>7, <1>8, <1>9

\* What a slot stores when no other carries the scope is the latest report.
LEMMA InsertVersionDelivers ==
  ASSUME IInv, DInv, NEW w \in Workers, InsertVersion(w)
  PROVE  DInv'
<1>0. PICK s \in Scopes : s = ScopeOf(w)
  BY AtWork DEF InsertVersion
<1>1. /\ work[w].pc = "insert" /\ work'[w].pc = "finish" /\ work'[w].job = work[w].job
      /\ \A v \in Workers \ {w} : work'[v] = work[v]
      /\ versions'[s] # <<>> /\ Latest(s)' = work[w].content
      /\ \E i \in 1..Len(versions'[s]) : versions'[s][i].content = work[w].content
      /\ \A i \in 1..Len(versions[s]) : i \in 1..Len(versions'[s]) /\ versions'[s][i] = versions[s][i]
      /\ \A t \in Scopes \ {s} : versions'[t] = versions[t]
      /\ UNCHANGED <<data, event, owed, jobs, missed, overlapped>>
  BY <1>0, Inserted
<1>2. NothingEarly' /\ \A t \in Scopes : Pending(t) => Pending(t)'
  BY <1>1, JobGoesOn
<1>3. Carries(w, s) /\ (\A t \in Scopes : ~Carries(w, t)') /\ \A t \in Scopes \ {s} : ~Carries(w, t)
  BY <1>0, <1>1 DEF Carries, ScopeOf
<1>4. \A v \in Workers \ {w}, t \in Scopes :
        (Carries(v, t)' <=> Carries(v, t)) /\ work'[v].content = work[v].content
  BY <1>1 DEF Carries, ScopeOf
<1>5. OneCarrier'
  BY <1>1, <1>3, <1>4 DEF DInv, OneCarrier
<1>6. ASSUME NEW t \in Scopes, Safe(t) PROVE Safe(t)'
  <2>1. Content(t)' = Content(t)
    BY <1>1, SameContent
  <2>2. CASE t # s
    BY <1>1, <1>3, <1>4, <1>6, <2>1, <2>2, SafeStays
  <2>3. CASE t = s /\ s \in overlapped
    <3>1. CASE \E v \in Workers : Carries(v, s) /\ work[v].content = Content(s)
      <4>1. PICK v \in Workers : Carries(v, s) /\ work[v].content = Content(s)
        BY <3>1
      <4>2. CASE v = w
        BY <1>1, <2>1, <2>3, <4>1, <4>2 DEF Safe, Kept
      <4>3. CASE v # w
        BY <1>1, <1>4, <2>1, <2>3, <4>1, <4>3 DEF Safe, Kept
      <4> QED BY <4>2, <4>3
    <3>2. CASE \E i \in 1..Len(versions[s]) : versions[s][i].content = Content(s)
      BY <1>1, <2>1, <2>3, <3>2 DEF Safe, Kept
    <3> QED BY <1>6, <2>3, <3>1, <3>2 DEF Safe, Kept
  <2>4. CASE t = s /\ s \notin overlapped
    <3>1. \A v \in Workers : ~Carries(v, s)'
      BY <1>3, <1>4, <2>4 DEF DInv, OneCarrier
    <3>2. Latest(s)' = Content(s)'
      BY <1>1, <1>3, <1>6, <2>1, <2>4 DEF Safe, Current
    <3> QED BY <1>1, <2>4, <3>1, <3>2 DEF Safe, Current
  <2> QED BY <2>2, <2>3, <2>4
<1> QED BY <1>1, <1>2, <1>5, <1>6 DEF DInv, Delivery

\* The slot leaves its job, which is done, or will run again, or has missed its scope.
LEMMA LeftDelivers ==
  ASSUME IInv, DInv, NEW w \in Workers, work[w].pc # "idle",
         NEW id \in JobIds, id = work[w].job, NEW q \in QueueStates,
         q.state = "waiting" \/ (q.state = "done" /\ work[w].pc = "finish") \/ (q.state = "failed" /\ id[1] \in missed'),
         jobs' = [jobs EXCEPT ![id] = q], work' = [work EXCEPT ![w] = Idle],
         missed \subseteq missed', UNCHANGED <<data, event, owed, versions, overlapped>>
  PROVE  DInv'
<1>1. /\ jobs \in [JobIds -> QueueStates] /\ jobs[id].state = "active"
      /\ jobs'[id] = q /\ \A i \in JobIds \ {id} : jobs'[i] = jobs[i]
      /\ work'[w] = Idle /\ Idle.pc = "idle" /\ Idle.job = Nobody
      /\ \A v \in Workers \ {w} : work'[v] = work[v] /\ work[v].job # id
  BY AtWork, Constructed DEF IInv, TypeOK
<1>2. NothingEarly' /\ \A s \in Scopes : Unsent(s) => Unsent(s)'
  BY <1>1, DebtsStay DEF DInv
<1>3. \A v \in Workers \ {w}, s \in Scopes :
        (Carries(v, s)' <=> Carries(v, s)) /\ work'[v].content = work[v].content
  BY <1>1 DEF Carries, ScopeOf
<1>4. (\A s \in Scopes : ~Carries(w, s)') /\ \A s \in Scopes : Carries(w, s) => s = id[1] /\ work[w].pc # "finish"
  BY <1>1 DEF Carries, ScopeOf
<1>5. OneCarrier'
  BY <1>1, <1>3, <1>4 DEF DInv, OneCarrier
<1>6. ASSUME NEW s \in Scopes, s \notin missed' PROVE OnlyAwaiting \/ Pending(s)' \/ Safe(s)'
  <2>1. CASE q.state = "waiting" /\ id[1] = s
    BY <1>1, <2>1 DEF Pending, ToLoad
  <2>2. CASE Unsent(s)
    BY <1>2, <2>2 DEF Pending
  <2>3. CASE ~(q.state = "waiting" /\ id[1] = s) /\ \E i \in JobIds : i[1] = s /\ ToLoad(i)
    <3>1. PICK i \in JobIds : i[1] = s /\ ToLoad(i)
      BY <2>3
    <3>2. i # id
      BY <1>1, <1>6, <2>3, <3>1 DEF ToLoad
    <3>3. ToLoad(i)'
      BY <1>1, <3>1, <3>2, NothingAssumption DEF ToLoad
    <3> QED BY <3>1, <3>3 DEF Pending
  <2>4. CASE ~(q.state = "waiting" /\ id[1] = s) /\ Safe(s)
    <3>1. ~Carries(w, s)
      BY <1>4, <1>6, <2>4
    <3> QED BY <1>3, <1>4, <2>4, <3>1, SafeStays, SameContent
  <2> QED BY <1>6, <2>1, <2>2, <2>3, <2>4 DEF DInv, Delivery, Pending
<1> QED BY <1>2, <1>5, <1>6 DEF DInv, Delivery

LEMMA FinishDelivers ==
  ASSUME IInv, DInv, NEW w \in Workers, Finish(w)
  PROVE  DInv'
<1>0. PICK id \in JobIds : id = work[w].job
  BY AtWork DEF Finish
<1> DEFINE q == [jobs[id] EXCEPT !.state = "done"]
<1>1. q \in QueueStates /\ q.state = "done" /\ work[w].pc = "finish"
  BY DEF Finish, IInv, TypeOK, QueueStates
<1>2. /\ jobs' = [jobs EXCEPT ![id] = q] /\ work' = [work EXCEPT ![w] = Idle]
      /\ UNCHANGED <<data, event, owed, versions, missed, overlapped>>
  BY <1>0 DEF Finish, eventVars, slips, IInv, TypeOK
<1> HIDE DEF q
<1> QED BY <1>0, <1>1, <1>2, LeftDelivers

\* After a failing call the job runs again or has missed its scope.
LEMMA FailedJob ==
  ASSUME IInv, NEW w \in Workers, GenerationFails(w)
  PROVE  LET id == work[w].job  q == Retried(jobs[id])
         IN  /\ id \in JobIds /\ work[w].pc # "idle" /\ q \in QueueStates
             /\ q.state = "waiting" \/ (q.state = "failed" /\ id[1] \in missed')
             /\ jobs' = [jobs EXCEPT ![id] = q] /\ work' = [work EXCEPT ![w] = Idle]
             /\ missed \subseteq missed' /\ UNCHANGED <<data, event, owed, hand, versions, overlapped>>
<1>0. PICK id \in JobIds : id = work[w].job /\ work[w].pc # "idle"
  BY AtWork DEF GenerationFails
<1> DEFINE q == Retried(jobs[id])
           n == jobs[id].attempts + 1
<1>1. /\ jobs' = [jobs EXCEPT ![id] = q] /\ work' = [work EXCEPT ![w] = Idle]
      /\ missed' = IF n >= MaxAttempts THEN missed \cup {id[1]} ELSE missed
      /\ UNCHANGED <<data, event, owed, hand, versions, overlapped>>
  BY <1>0 DEF GenerationFails, GivesUp, eventVars
<1>2. jobs[id] \in QueueStates /\ n \in 0..MaxAttempts
  BY <1>0, AtWork, BoundAssumption DEF QueueStates
<1>3. q = [jobs[id] EXCEPT !.attempts = n, !.state = IF n = MaxAttempts THEN "failed" ELSE "waiting"]
  BY DEF Retried
<1> HIDE DEF n
<1>4. q \in QueueStates /\ q.state = IF n = MaxAttempts THEN "failed" ELSE "waiting"
  BY <1>2, <1>3 DEF QueueStates
<1> HIDE DEF q
<1>5. q.state = "waiting" \/ (q.state = "failed" /\ id[1] \in missed')
  BY <1>1, <1>2, <1>4, BoundAssumption
<1>6. missed \subseteq missed'
  BY <1>1
<1> QED BY <1>0, <1>1, <1>4, <1>5, <1>6 DEF q

LEMMA GenerationFailsDelivers ==
  ASSUME IInv, DInv, NEW w \in Workers, GenerationFails(w)
  PROVE  DInv'
<1>1. PICK id \in JobIds, q \in QueueStates :
        /\ id = work[w].job /\ work[w].pc # "idle"
        /\ q.state = "waiting" \/ (q.state = "failed" /\ id[1] \in missed')
        /\ jobs' = [jobs EXCEPT ![id] = q] /\ work' = [work EXCEPT ![w] = Idle]
        /\ missed \subseteq missed' /\ UNCHANGED <<data, event, owed, versions, overlapped>>
  BY FailedJob
<1> QED BY <1>1, LeftDelivers

\* A job left behind by a crash runs again or has missed its scope.
LEMMA StalledJob ==
  ASSUME IInv, NEW id \in JobIds, Stalled(id)
  PROVE  /\ jobs[id].state = "active" /\ \A w \in Workers : work[w].job # id
         /\ jobs'[id].state = "waiting" \/ (jobs'[id].state = "failed" /\ id[1] \in missed')
         /\ (\A i \in JobIds \ {id} : jobs'[i] = jobs[i]) /\ missed \subseteq missed'
         /\ UNCHANGED <<data, event, owed, hand, work, versions, overlapped>>
<1> DEFINE last == jobs[id].stalls = MaxStalls
           q == [jobs[id] EXCEPT !.stalls = @ + 1, !.state = IF last THEN "failed" ELSE "waiting"]
<1>1. /\ jobs \in [JobIds -> QueueStates] /\ jobs' = [jobs EXCEPT ![id] = q]
      /\ jobs[id].state = "active" /\ \A w \in Workers : work[w].job # id
      /\ missed' = IF jobs[id].stalls >= MaxStalls THEN missed \cup {id[1]} ELSE missed
      /\ UNCHANGED <<data, event, owed, hand, work, versions, overlapped>>
  BY DEF Stalled, GivesUp, eventVars, reportVars, IInv, TypeOK
<1>2. q.state = IF last THEN "failed" ELSE "waiting"
  BY <1>1 DEF QueueStates
<1> HIDE DEF q
<1>3. jobs'[id] = q /\ \A i \in JobIds \ {id} : jobs'[i] = jobs[i]
  BY <1>1
<1>4. last => id[1] \in missed'
  BY <1>1, BoundAssumption
<1> QED BY <1>1, <1>2, <1>3, <1>4

LEMMA StalledDelivers ==
  ASSUME IInv, DInv, NEW id \in JobIds, Stalled(id)
  PROVE  DInv'
<1>1. /\ jobs[id].state = "active" /\ \A w \in Workers : work[w].job # id
      /\ jobs'[id].state = "waiting" \/ (jobs'[id].state = "failed" /\ id[1] \in missed')
      /\ (\A i \in JobIds \ {id} : jobs'[i] = jobs[i]) /\ missed \subseteq missed'
      /\ UNCHANGED <<data, event, owed, work, versions, overlapped>>
  BY StalledJob
<1>2. NothingEarly' /\ \A s \in Scopes : Unsent(s) => Unsent(s)'
  BY <1>1, DebtsStay DEF DInv
<1>3. \A w \in Workers, s \in Scopes : Carries(w, s)' <=> Carries(w, s)
  BY <1>1 DEF Carries, ScopeOf
<1>4. OneCarrier'
  BY <1>1, <1>3 DEF DInv, OneCarrier
<1>5. \A i \in JobIds : ToLoad(i) => ToLoad(i)' \/ i[1] \in missed'
  BY <1>1 DEF ToLoad
<1>6. ASSUME NEW s \in Scopes, s \notin missed' PROVE OnlyAwaiting \/ Pending(s)' \/ Safe(s)'
  <2>1. Pending(s) => Pending(s)'
    BY <1>2, <1>5, <1>6 DEF Pending
  <2>2. Safe(s) => Safe(s)'
    BY <1>1, <1>3, SafeStays, SameContent
  <2> QED BY <1>1, <1>6, <2>1, <2>2 DEF DInv, Delivery
<1> QED BY <1>2, <1>4, <1>6 DEF DInv, Delivery

\* A crash takes away what a slot has loaded, but leaves its job to be run again.
LEMMA CrashDelivers ==
  ASSUME IInv, DInv, Crash
  PROVE  DInv'
<1>1. /\ UNCHANGED <<data, event, owed, jobs, versions, missed, overlapped>>
      /\ \A w \in Workers : work'[w].pc = "idle" /\ work'[w].job = Nobody
  BY Constructed DEF Crash, slips
<1>2. NothingEarly' /\ \A s \in Scopes : Unsent(s) => Unsent(s)'
  BY <1>1, DebtsStay DEF DInv
<1>3. \A id \in JobIds : jobs[id].state = "active" \/ ToLoad(id) => ToLoad(id)'
  BY <1>1, NothingAssumption DEF ToLoad
<1>4. \A w \in Workers, s \in Scopes : ~Carries(w, s)'
  BY <1>1 DEF Carries
<1>5. OneCarrier'
  BY <1>4 DEF OneCarrier
<1>6. ASSUME NEW s \in Scopes \ missed PROVE OnlyAwaiting \/ Pending(s)' \/ Safe(s)'
  <2>1. CASE Pending(s)
    BY <1>2, <1>3, <2>1 DEF Pending
  <2>2. CASE \E w \in Workers : Carries(w, s)
    <3>1. PICK w \in Workers : Carries(w, s)
      BY <2>2
    <3>2. work[w].job \in JobIds /\ jobs[work[w].job].state = "active" /\ work[w].job[1] = s
      BY <3>1, AtWork DEF Carries, ScopeOf
    <3> QED BY <1>3, <3>2 DEF Pending
  <2>3. CASE Safe(s) /\ \A w \in Workers : ~Carries(w, s)
    BY <1>1, <1>4, <2>3, SafeStays, SameContent
  <2> QED BY <2>1, <2>2, <2>3 DEF DInv, Delivery
<1> QED BY <1>1, <1>2, <1>5, <1>6 DEF DInv, Delivery

\* The reports in place say what the snapshots say.
LEMMA InitialReports ==
  ASSUME Init, NEW s \in Scopes
  PROVE  versions[s] = <<>> \/ Latest(s) = Content(s)
<1> DEFINE row == [number |-> 1, content |-> Content(s)]
<1>1. versions[s] = (IF s \in Reported THEN <<row>> ELSE <<>>) /\ row.content = Content(s)
  BY DEF Init
<1> HIDE DEF row
<1>2. Len(<<row>>) = 1 /\ <<row>>[1] = row
  OBVIOUS
<1> QED BY <1>1, <1>2 DEF Latest

LEMMA FirstDelivered ==
  ASSUME Init
  PROVE  DInv
<1>1. NothingEarly
  BY Ids, NothingAssumption DEF Init, NothingEarly, IsSent, RebuildJob, NoJob
<1>2. \A w \in Workers, s \in Scopes : ~Carries(w, s)
  BY Constructed DEF Init, Carries
<1>3. OneCarrier
  BY <1>2 DEF OneCarrier
<1>4. ASSUME NEW s \in Scopes PROVE Safe(s)
  BY <1>2, InitialReports DEF Init, Safe, Current
<1> QED BY <1>1, <1>3, <1>4 DEF DInv, Delivery

LEMMA KeepsDelivering == IInv /\ DInv /\ [Next]_vars => DInv'
<1> SUFFICES ASSUME IInv, DInv, [Next]_vars PROVE DInv'
  OBVIOUS
<1>0. event \in [Events -> EventRows]
  BY DEF IInv, TypeOK
<1>1. ASSUME NEW d \in Dates, NEW v \in Values, Save(d, v) PROVE DInv'
  BY <1>1, SaveDelivers
<1>2. ASSUME NEW d \in Dispatchers, Claim(d) PROVE DInv'
  <2>1. UNCHANGED <<data, owed, jobs, work, versions, missed, overlapped>>
    BY <1>2 DEF Claim, reportVars, slips
  <2>2. \A e \in Events : event'[e].state = "absent" <=> event[e].state = "absent"
    BY <1>2 DEF Claim, Claimable
  <2> QED BY <2>1, <2>2, OutboxDelivers
<1>3. ASSUME NEW d \in Dispatchers, (\E e \in Events : Take(d, e)) \/ DispatchFaults(d) PROVE DInv'
  <2>1. UNCHANGED <<data, event, owed, jobs, work, versions, missed, overlapped>>
    BY <1>3 DEF Take, DispatchFaults, reportVars, slips
  <2> QED BY <2>1, OutboxDelivers
<1>4. ASSUME NEW d \in Dispatchers, NEW s \in Scopes, AddRebuild(d, s) PROVE DInv'
  BY <1>4, AddRebuildDelivers
<1>5. ASSUME NEW d \in Dispatchers, MarkDispatched(d) \/ MarkDispatchFailed(d) \/ AnswerLost(d) PROVE DInv'
  <2>1. UNCHANGED <<data, owed, jobs, work, versions, missed, overlapped>>
    BY <1>5 DEF MarkDispatched, MarkDispatchFailed, AnswerLost, reportVars, slips
  <2>2. PICK state \in {"failed", "dispatched"} :
          event' = [event EXCEPT ![hand[d].event] = Updated(d, hand[d].event, state)]
    BY <1>5 DEF MarkDispatched, MarkDispatchFailed, AnswerLost
  <2>3. ASSUME NEW e \in Events PROVE event'[e].state = "absent" <=> event[e].state = "absent"
    <3>1. CASE e = hand[d].event /\ Owns(d, e)
      BY <1>0, <2>2, <3>1 DEF Updated, Owns
    <3>2. CASE e # hand[d].event \/ ~Owns(d, e)
      BY <1>0, <2>2, <3>2 DEF Updated
    <3> QED BY <3>1, <3>2
  <2> QED BY <2>1, <2>3, OutboxDelivers
<1>6. ASSUME NEW e \in Events, LeaseExpires(e) PROVE DInv'
  <2>1. UNCHANGED <<data, owed, jobs, work, versions, missed, overlapped>>
    BY <1>6 DEF LeaseExpires, reportVars, slips
  <2>2. \A f \in Events : event'[f].state = event[f].state
    BY <1>0, <1>6 DEF LeaseExpires, EventRows
  <2> QED BY <2>1, <2>2, OutboxDelivers
<1>7. ASSUME NEW s \in Scopes, Schedule(s) PROVE DInv'
  BY <1>7, ScheduleDelivers
<1>8. ASSUME NEW w \in Workers, Generate(w) \/ GenerationFails(w) \/ \E id \in JobIds : Start(w, id) PROVE DInv'
  BY <1>8, LoadEvidenceDelivers, LockScopeDelivers, InsertVersionDelivers, FinishDelivers,
     GenerationFailsDelivers, StartDelivers DEF Generate
<1>9. ASSUME NEW id \in JobIds, Stalled(id) PROVE DInv'
  BY <1>9, StalledDelivers
<1>10. CASE Crash
  BY <1>10, CrashDelivers
<1>11. CASE UNCHANGED vars
  BY <1>11, OutboxDelivers DEF vars, eventVars, reportVars, slips
<1> QED BY <1>1, <1>2, <1>3, <1>4, <1>5, <1>6, <1>7, <1>8, <1>9, <1>10, <1>11 DEF Next, Dispatch

-----------------------------------------------------------------------------
(* The reports that wait for a date, the only ones of a mock account that are *)
(* rebuilt.  A report may skip a rebuild it was owed when nothing it waits    *)
(* for has come in since.                                                     *)

Gaps(s) == Period(s) \ Available

\* What the latest report of s waits for.
Awaited(s) == IF versions[s] = <<>> THEN {} ELSE Latest(s).missing

\* The latest report of s waits for a date that is there, and the scope has not been missed.
Behind(s, d) == s \notin missed \cup overlapped /\ d \in Awaited(s) /\ d \notin Missing(s)

Underway(d) == \E e \in Events : e[1] = d /\ event[e].state \notin {"absent", "dispatched"}

Loading(s, d) ==
  \/ \E id \in JobIds : id[1] = s /\ ToLoad(id)
  \/ \E w \in Workers : Carries(w, s) /\ d \notin work[w].content.missing

\* A content of s: it waits for everything still missing, and shows nothing if it waits.
Shaped(s, c) ==
  /\ c.missing \subseteq Period(s) /\ Gaps(s) \subseteq c.missing
  /\ c.missing # {} => c = Awaiting(c.missing)

Seen == \A e \in Events : event[e].state # "absent" => e[1] \in Available

Stored == \A s \in Scopes : versions[s] # <<>> => Shaped(s, Latest(s))

\* A slot carries no date to wait for that the latest report did not wait for.
Carried ==
  \A w \in Workers, s \in Scopes : Carries(w, s) =>
    /\ Shaped(s, work[w].content)
    /\ s \in missed \cup overlapped \/ work[w].content.missing \subseteq Missing(s) \cup Awaited(s)

Answered == \A s \in Scopes, d \in Dates : Behind(s, d) => Loading(s, d) \/ Underway(d)

\* A rebuild that has been sent answers as soon as it is through.
SentLoads == \A s \in Scopes, e \in Events : IsSent(s, e) /\ Behind(s, e[1]) => Loading(s, e[1])

HandKnows ==
  \A p \in Dispatchers : LET h == hand[p] IN h.event # Nobody /\ ~h.failing =>
    \A s \in Scopes : Behind(s, h.event[1]) => s \in h.todo \/ Loading(s, h.event[1])

AInv == Seen /\ Stored /\ Carried /\ Answered /\ SentLoads /\ HandKnows

LEMMA Held ==
  ASSUME IInv
  PROVE  /\ \A p \in Dispatchers : /\ hand[p].event \in Events \cup {Nobody} /\ Nobody \notin Events
                                   /\ hand[p].event # Nobody => hand[p].event[1] \in Dates
                                                                /\ event[hand[p].event].state # "absent"
         /\ \A e \in Events : e[1] \in Dates
<1>1. \A p \in Dispatchers : hand[p].event \in Events \cup {Nobody}
  BY DEF IInv, TypeOK, Hands
<1>2. \A e \in Events : e[1] \in Dates
  BY DEF Events
<1>3. \A p \in Dispatchers : hand[p].event # Nobody => event[hand[p].event].state # "absent"
  BY DEF IInv, OutboxInv, Outstanding
<1> QED BY <1>1, <1>2, <1>3, NothingAssumption

\* Snapshots, reports and exceptions stay: the same reports are behind.
LEMMA SameGaps ==
  ASSUME UNCHANGED data
  PROVE  /\ Available' = Available
         /\ \A s \in Scopes : /\ Missing(s)' = Missing(s) /\ Gaps(s)' = Gaps(s)
                              /\ \A c : Shaped(s, c)' <=> Shaped(s, c)
         /\ \A s \in Scopes : versions'[s] = versions[s] => Awaited(s)' = Awaited(s) /\ Latest(s)' = Latest(s)
<1>1. Available' = Available
  BY DEF Available
<1>2. \A s \in Scopes : Missing(s)' = Missing(s) /\ Gaps(s)' = Gaps(s)
  BY <1>1 DEF Missing, Gaps, Baseline, Period
<1>3. \A s \in Scopes : \A c : Shaped(s, c)' <=> Shaped(s, c)
  BY <1>2 DEF Shaped, Period, Awaiting
<1>4. \A s \in Scopes : versions'[s] = versions[s] => Awaited(s)' = Awaited(s) /\ Latest(s)' = Latest(s)
  BY DEF Awaited, Latest
<1> QED BY <1>1, <1>2, <1>3, <1>4

\* Snapshots, reports, exceptions and what the slots carry stay: so does what was written of them.
LEMMA SameAwaited ==
  ASSUME AInv, UNCHANGED <<data, versions, missed, overlapped>>,
         \A w \in Workers, s \in Scopes : Carries(w, s)' => Carries(w, s) /\ work'[w].content = work[w].content
  PROVE  /\ \A s \in Scopes : \A d : Behind(s, d)' <=> Behind(s, d)
         /\ Stored' /\ Carried'
<1>1. \A s \in Scopes : \A d : Behind(s, d)' <=> Behind(s, d)
  BY SameGaps DEF Behind
<1>2. Stored'
  BY SameGaps DEF AInv, Stored
<1>3. Carried'
  <2> SUFFICES ASSUME NEW w \in Workers, NEW s \in Scopes, Carries(w, s)'
               PROVE  /\ Shaped(s, work[w].content)'
                      /\ s \in missed \cup overlapped \/ work'[w].content.missing \subseteq Missing(s)' \cup Awaited(s)'
    BY DEF Carried
  <2>1. Shaped(s, work[w].content)
        /\ (s \in missed \cup overlapped \/ work[w].content.missing \subseteq Missing(s) \cup Awaited(s))
    BY DEF AInv, Carried
  <2>2. work'[w].content = work[w].content
    OBVIOUS
  <2>3. Shaped(s, work[w].content)'
    BY <2>1, <2>2, SameGaps DEF Shaped, Period, Awaiting
  <2> QED BY <2>1, <2>2, <2>3, SameGaps
<1> QED BY <1>1, <1>2, <1>3

\* A step of the outbox: no event is closed, and no hand emptied, while a report
\* is behind that is not to be loaded again.
LEMMA OutboxAwaits ==
  ASSUME IInv, AInv, UNCHANGED <<data, jobs, work, versions, missed, overlapped>>,
         \A e \in Events : event'[e].state = "absent" <=> event[e].state = "absent",
         \A e \in Events : event'[e].state = "dispatched" /\ event[e].state # "dispatched" =>
           \A s \in Scopes : Behind(s, e[1]) => Loading(s, e[1]),
         \A p \in Dispatchers : hand'[p].event # Nobody /\ ~hand'[p].failing =>
           \A s \in Scopes : Behind(s, hand'[p].event[1]) => s \in hand'[p].todo \/ Loading(s, hand'[p].event[1])
  PROVE  AInv'
<1>1. \A w \in Workers, s \in Scopes : Carries(w, s)' <=> Carries(w, s)
  BY DEF Carries, ScopeOf
<1>2. (\A s \in Scopes : \A d : Behind(s, d)' <=> Behind(s, d)) /\ Stored' /\ Carried'
  BY <1>1, SameAwaited
<1>3. \A s \in Scopes : \A d : Loading(s, d)' <=> Loading(s, d)
  BY <1>1 DEF Loading, ToLoad
<1>4. Seen'
  BY SameGaps DEF AInv, Seen
<1>5. Answered'
  <2> SUFFICES ASSUME NEW s \in Scopes, NEW d \in Dates, Behind(s, d) PROVE Loading(s, d) \/ Underway(d)'
    BY <1>2, <1>3 DEF Answered
  <2>1. CASE Loading(s, d)
    BY <2>1
  <2>2. CASE ~Loading(s, d)
    <3>1. PICK e \in Events : e[1] = d /\ event[e].state \notin {"absent", "dispatched"}
      BY <2>2 DEF AInv, Answered, Underway
    <3>2. event'[e].state \notin {"absent", "dispatched"}
      BY <2>2, <3>1
    <3> QED BY <3>1, <3>2 DEF Underway
  <2> QED BY <2>1, <2>2
<1>6. SentLoads'
  BY <1>2, <1>3 DEF AInv, SentLoads, IsSent
<1>7. HandKnows'
  BY <1>2, <1>3 DEF HandKnows
<1> QED BY <1>2, <1>4, <1>5, <1>6, <1>7 DEF AInv

\* A step of queue and worker: what is behind is to be loaded, or was behind
\* and stays to be loaded if it was.
LEMMA WorkAwaits ==
  ASSUME IInv, AInv, UNCHANGED <<data, event, hand>>, Stored', Carried',
         \A s \in Scopes, e \in Events : IsSent(s, e)' <=> IsSent(s, e),
         \A s \in Scopes, d \in Dates : Behind(s, d)' =>
           Loading(s, d)' \/ (Behind(s, d) /\ (Loading(s, d) => Loading(s, d)'))
  PROVE  AInv'
<1>1. Seen'
  BY DEF AInv, Seen, Available
<1>2. Answered'
  BY DEF AInv, Answered, Underway
<1>3. SentLoads'
  BY Held DEF AInv, SentLoads
<1>4. HandKnows'
  BY Held DEF AInv, HandKnows
<1> QED BY <1>1, <1>2, <1>3, <1>4 DEF AInv

\* A date of the period that was there stays, one that comes in is no gap any more.
LEMMA GapsShrink ==
  ASSUME NEW d \in Dates, NEW v \in Values, NEW s \in Scopes,
         data \in [Dates -> Values \cup {NoData}], data' = [data EXCEPT ![d] = v]
  PROVE  /\ Available' = Available \cup {d}
         /\ Gaps(s)' = Gaps(s) \ {d}
         /\ d \in Period(s) => /\ \A c \in Dates \ {d} : c \in Missing(s) => c \in Missing(s)'
                               /\ d \in Available => Missing(s)' = Missing(s)
<1>1. NoData \notin Values /\ Dates \subseteq Int /\ First[s] \in Dates /\ Last[s] \in Dates
  BY PeriodAssumption, NothingAssumption
<1>2. data'[d] = v /\ \A c \in Dates \ {d} : data'[c] = data[c]
  OBVIOUS
<1>3. Available' = Available \cup {d}
  BY <1>1, <1>2 DEF Available
<1>4. Gaps(s)' = Gaps(s) \ {d}
  BY <1>3 DEF Gaps, Period
<1>5. ASSUME d \in Period(s) PROVE Baseline(s)' = Baseline(s)
  <2>1. First[s] <= d /\ d \in Int /\ First[s] \in Int
    <3>1. First[s] \in Int /\ Last[s] \in Int /\ d \in First[s]..Last[s]
      BY <1>1, <1>5 DEF Period
    <3> QED BY <3>1
  <2>2. Available \subseteq Dates
    BY DEF Available
  <2>3. \A c \in Dates : c < First[s] => (c \in Available' <=> c \in Available)
    BY <1>1, <1>3, <2>1
  <2> QED BY <1>1, <1>3, <2>2, <2>3 DEF Baseline
<1>6. Missing(s) = IF Gaps(s) = {} /\ Baseline(s) = {} THEN {First[s]} ELSE Gaps(s)
  BY DEF Missing, Gaps
<1>7. Missing(s)' = IF Gaps(s)' = {} /\ Baseline(s)' = {} THEN {First[s]} ELSE Gaps(s)'
  BY DEF Missing, Gaps, Period
<1>8. d \in Period(s) => \A c \in Dates \ {d} : c \in Missing(s) => c \in Missing(s)'
  BY <1>4, <1>5, <1>6, <1>7
<1>9. d \in Period(s) /\ d \in Available => Missing(s)' = Missing(s)
  <2>1. d \in Available => d \notin Gaps(s)
    BY DEF Gaps
  <2> QED BY <1>4, <1>5, <1>6, <1>7, <2>1
<1> QED BY <1>3, <1>4, <1>8, <1>9

LEMMA ContentShaped ==
  ASSUME NEW s \in Scopes
  PROVE  Shaped(s, Content(s)) /\ Content(s).missing = Missing(s)
<1>1. First[s] \in Period(s)
  <2>1. First[s] \in Int /\ Last[s] \in Int /\ First[s] <= Last[s]
    BY PeriodAssumption
  <2> QED BY <2>1 DEF Period
<1>2. Missing(s) \subseteq Period(s) /\ Gaps(s) \subseteq Missing(s)
  BY <1>1 DEF Missing, Gaps
<1>3. Content(s).missing = Missing(s) /\ (Missing(s) # {} => Content(s) = Awaiting(Missing(s)))
  BY DEF Content, Awaiting
<1> QED BY <1>2, <1>3 DEF Shaped

\* A scope not missed by an observation waits for what it waited for, but for the date of
\* the observation, which is then one it is affected by.
LEMMA SaveKeepsMissing ==
  ASSUME IInv, NEW d \in Dates, NEW v \in Values, Save(d, v), NEW s \in Scopes, s \notin missed'
  PROVE  /\ s \notin missed
         /\ \A c \in Dates \ {d} : c \in Missing(s) => c \in Missing(s)'
         /\ d \in Available => Missing(s)' = Missing(s)
         /\ Missing(s)' = Missing(s) \/ (event[<<d, v>>].state = "absent" /\ d \in Period(s) /\ versions[s] # <<>>)
<1> DEFINE e == <<d, v>>
<1>1. /\ data \in [Dates -> Values \cup {NoData}] /\ data' = [data EXCEPT ![d] = v]
      /\ missed' = missed \cup Unannounced(e) /\ e[1] = d
  BY DEF Save, IInv, TypeOK
<1> HIDE DEF e
<1>2. Content(s)' = Content(s) \/ (event[e].state = "absent" /\ s \in Affected(e))
  BY <1>1 DEF Unannounced
<1>3. CASE Content(s)' = Content(s)
  <2>1. Content(s).missing = Missing(s)
    BY ContentShaped
  <2>2. Content(s)'.missing = Missing(s)'
    BY DEF Content, Awaiting
  <2> QED BY <1>1, <1>3, <2>1, <2>2
<1>4. CASE event[e].state = "absent" /\ s \in Affected(e)
  <2>1. versions[s] # <<>> /\ d \in Period(s)
    BY <1>1, <1>4 DEF Affected
  <2> QED BY <1>1, <1>4, <2>1, GapsShrink DEF e
<1> QED BY <1>2, <1>3, <1>4

LEMMA SaveAwaits ==
  ASSUME IInv, DInv, AInv, NEW d \in Dates, NEW v \in Values, Save(d, v)
  PROVE  AInv'
<1> DEFINE e == <<d, v>>
<1>1. /\ e \in Events /\ e[1] = d /\ event \in [Events -> EventRows]
      /\ data \in [Dates -> Values \cup {NoData}] /\ data' = [data EXCEPT ![d] = v]
      /\ missed \subseteq missed' /\ UNCHANGED <<hand, jobs, work, versions, overlapped>>
  BY DEF Save, Events, IInv, TypeOK, reportVars
<1> HIDE DEF e
<1>2. /\ event'[e].state = IF event[e].state = "absent" THEN "pending" ELSE event[e].state
      /\ \A f \in Events \ {e} : event'[f] = event[f]
  <2>1. CASE event[e].state = "absent"
    BY <1>1, <2>1 DEF Save, EventRows, e
  <2>2. CASE event[e].state # "absent"
    BY <1>1, <2>2 DEF Save, e
  <2> QED BY <2>1, <2>2
<1>3. Available' = Available \cup {d} /\ \A s \in Scopes : Gaps(s)' = Gaps(s) \ {d}
  <2>1. Available' = Available \cup {d}
    BY <1>1, NothingAssumption DEF Available
  <2> QED BY <1>1, <2>1, GapsShrink
<1>4. \A s \in Scopes : Awaited(s)' = Awaited(s) /\ Latest(s)' = Latest(s)
  BY <1>1 DEF Awaited, Latest
<1>5. \A w \in Workers, s \in Scopes : Carries(w, s)' <=> Carries(w, s)
  BY <1>1 DEF Carries, ScopeOf
<1>6. \A s \in Scopes : \A c : Loading(s, c)' <=> Loading(s, c)
  BY <1>1, <1>5 DEF Loading, ToLoad
<1>7. ASSUME NEW s \in Scopes, s \notin missed'
      PROVE  /\ s \notin missed
             /\ \A c \in Dates \ {d} : c \in Missing(s) => c \in Missing(s)'
             /\ d \in Available => Missing(s)' = Missing(s)
             /\ Missing(s)' = Missing(s) \/ (event[e].state = "absent" /\ d \in Period(s) /\ versions[s] # <<>>)
  BY <1>7, SaveKeepsMissing DEF e
<1>8. \A s \in Scopes, c \in Dates : Behind(s, c)' => (c = d /\ event[e].state = "absent") \/ Behind(s, c)
  BY <1>1, <1>4, <1>7 DEF Behind
<1>9. d \in Available => \A s \in Scopes, c \in Dates : Behind(s, c)' => Behind(s, c)
  BY <1>1, <1>4, <1>7 DEF Behind
<1>10. d \notin Available => \A f \in Events : f[1] = d => event[f].state = "absent"
  BY DEF AInv, Seen
<1>11. Seen'
  <2> SUFFICES ASSUME NEW f \in Events, event'[f].state # "absent" PROVE f[1] \in Available'
    BY DEF Seen
  <2>1. CASE f = e
    BY <1>1, <1>3, <2>1
  <2>2. CASE f # e
    BY <1>2, <1>3, <2>2 DEF AInv, Seen
  <2> QED BY <2>1, <2>2
<1>12. \A s \in Scopes : \A c : Shaped(s, c) => Shaped(s, c)'
  BY <1>3 DEF Shaped, Period, Awaiting
<1>13. Stored'
  BY <1>1, <1>4, <1>12 DEF AInv, Stored
<1>14. Carried'
  <2> SUFFICES ASSUME NEW w \in Workers, NEW s \in Scopes, Carries(w, s)'
               PROVE  /\ Shaped(s, work[w].content)'
                      /\ \/ s \in missed' \cup overlapped
                         \/ work[w].content.missing \subseteq Missing(s)' \cup Awaited(s)'
    BY <1>1 DEF Carried
  <2>1. Shaped(s, work[w].content)
        /\ (s \in missed \cup overlapped \/ work[w].content.missing \subseteq Missing(s) \cup Awaited(s))
    BY <1>5 DEF AInv, Carried
  <2>2. Period(s) \subseteq Dates
    BY PeriodAssumption DEF Period
  <2>3. ASSUME s \notin missed' \cup overlapped, NEW c \in work[w].content.missing
        PROVE  c \in Missing(s)' \cup Awaited(s)'
    <3>1. c \in Period(s) /\ c \in Dates /\ c \in Missing(s) \cup Awaited(s)
      BY <1>7, <2>1, <2>2, <2>3 DEF Shaped
    <3>2. CASE c # d \/ Missing(s)' = Missing(s)
      BY <1>4, <1>7, <2>3, <3>1, <3>2
    <3>3. CASE c = d /\ Missing(s)' # Missing(s)
      <4>1. d \notin Available /\ d \in Period(s) /\ versions[s] # <<>>
        BY <1>7, <2>3, <3>3
      <4>2. d \in Latest(s).missing
        BY <4>1 DEF AInv, Stored, Shaped, Gaps
      <4> QED BY <1>4, <3>3, <4>1, <4>2 DEF Awaited
    <3> QED BY <3>2, <3>3
  <2>4. Shaped(s, work[w].content)'
    BY <1>1, <1>3, <2>1 DEF Shaped, Period, Awaiting
  <2> QED BY <1>1, <2>3, <2>4
<1>15. Answered'
  <2> SUFFICES ASSUME NEW s \in Scopes, NEW c \in Dates, Behind(s, c)' PROVE Loading(s, c) \/ Underway(c)'
    BY <1>6 DEF Answered
  <2>1. \A f \in Events : event[f].state \notin {"absent", "dispatched"} => event'[f].state \notin {"absent", "dispatched"}
    BY <1>2
  <2>2. CASE Behind(s, c)
    BY <2>1, <2>2 DEF AInv, Answered, Underway
  <2>3. CASE ~Behind(s, c)
    <3>1. c = d /\ event'[e].state = "pending"
      BY <1>1, <1>2, <1>8, <2>3
    <3> QED BY <1>1, <3>1 DEF Underway
  <2> QED BY <2>2, <2>3
<1>16. SentLoads'
  <2> SUFFICES ASSUME NEW s \in Scopes, NEW f \in Events, IsSent(s, f), Behind(s, f[1])' PROVE Loading(s, f[1])
    BY <1>1, <1>6 DEF SentLoads, IsSent
  <2>1. event[f].state # "absent"
    BY DEF DInv, NothingEarly
  <2>2. Behind(s, f[1])
    BY <1>8, <1>9, <1>10, <2>1, Held
  <2> QED BY <2>2 DEF AInv, SentLoads
<1>17. HandKnows'
  <2> SUFFICES ASSUME NEW p \in Dispatchers, hand[p].event # Nobody, ~hand[p].failing,
                      NEW s \in Scopes, Behind(s, hand[p].event[1])'
               PROVE  s \in hand[p].todo \/ Loading(s, hand[p].event[1])
    BY <1>1, <1>6 DEF HandKnows
  <2>1. PICK f \in Events : f = hand[p].event /\ f[1] \in Dates /\ event[f].state # "absent"
    BY Held
  <2>2. Behind(s, f[1])'
    BY <1>1, <2>1
  <2>3. Behind(s, f[1])
    BY <1>8, <1>9, <1>10, <2>1, <2>2
  <2> QED BY <2>1, <2>3 DEF AInv, HandKnows
<1> QED BY <1>11, <1>13, <1>14, <1>15, <1>16, <1>17 DEF AInv

LEMMA ClaimAwaits ==
  ASSUME IInv, AInv, NEW d \in Dispatchers, Claim(d)
  PROVE  AInv'
<1>1. /\ UNCHANGED <<data, jobs, work, versions, missed, overlapped>> /\ hand[d] = Free /\ hand \in [Dispatchers -> Hands]
      /\ hand' = [hand EXCEPT ![d].batch = {e \in Events : Claimable(e)}]
  BY DEF Claim, reportVars, slips, IInv, TypeOK
<1>2. \A e \in Events : /\ event'[e].state = "absent" <=> event[e].state = "absent"
                        /\ event'[e].state = "dispatched" => event[e].state = "dispatched"
  BY DEF Claim, Claimable
<1>3. \A p \in Dispatchers : /\ hand'[p].event = hand[p].event /\ hand'[p].todo = hand[p].todo
                             /\ hand'[p].failing = hand[p].failing
  BY <1>1 DEF Hands
<1> QED BY <1>1, <1>2, <1>3, OutboxAwaits DEF AInv, HandKnows

LEMMA LeaseAwaits ==
  ASSUME IInv, AInv, NEW e \in Events, LeaseExpires(e)
  PROVE  AInv'
<1>1. UNCHANGED <<data, jobs, work, versions, missed, overlapped, hand>>
  BY DEF LeaseExpires, reportVars, slips
<1>2. \A f \in Events : event'[f].state = event[f].state
  BY DEF LeaseExpires, IInv, TypeOK, EventRows
<1> QED BY <1>1, <1>2, OutboxAwaits DEF AInv, HandKnows

\* Every report that waits for the date of the event is on the list.
LEMMA TakeAwaits ==
  ASSUME IInv, AInv, NEW d \in Dispatchers, NEW e \in Events, Take(d, e)
  PROVE  AInv'
<1> DEFINE h == [Free EXCEPT !.batch = hand[d].batch \ {e}, !.event = e, !.todo = Affected(e)]
<1>1. /\ UNCHANGED <<data, jobs, work, versions, missed, overlapped, event>>
      /\ hand' = [hand EXCEPT ![d] = h] /\ hand \in [Dispatchers -> Hands]
  BY DEF Take, reportVars, slips, IInv, TypeOK
<1>2. h.event = e /\ h.todo = Affected(e)
  BY DEF Free
<1> HIDE DEF h
<1>3. hand'[d] = h /\ \A p \in Dispatchers \ {d} : hand'[p] = hand[p]
  BY <1>1
<1>4. \A s \in Scopes : Behind(s, e[1]) => s \in Affected(e)
  BY DEF Behind, Awaited, AInv, Stored, Shaped, Affected
<1>5. ASSUME NEW p \in Dispatchers, hand'[p].event # Nobody, ~hand'[p].failing,
             NEW s \in Scopes, Behind(s, hand'[p].event[1])
      PROVE  s \in hand'[p].todo \/ Loading(s, hand'[p].event[1])
  <2>1. CASE p = d
    BY <1>2, <1>3, <1>4, <1>5, <2>1
  <2>2. CASE p # d
    BY <1>3, <1>5, <2>2 DEF AInv, HandKnows
  <2> QED BY <2>1, <2>2
<1> QED BY <1>1, <1>5, OutboxAwaits

\* The event leaves the hand when nothing on its list is left.
LEMMA MarkAwaits ==
  ASSUME IInv, AInv, NEW d \in Dispatchers,
         MarkDispatched(d) \/ MarkDispatchFailed(d) \/ DispatchFaults(d) \/ AnswerLost(d)
  PROVE  AInv'
<1> DEFINE h == hand'[d]
<1>1. UNCHANGED <<data, jobs, work, versions, missed, overlapped>> /\ hand \in [Dispatchers -> Hands] /\ event \in [Events -> EventRows]
  BY DEF MarkDispatched, MarkDispatchFailed, DispatchFaults, AnswerLost, reportVars, slips, IInv, TypeOK
<1>2. (h.event = Nobody \/ h.failing) /\ \A p \in Dispatchers \ {d} : hand'[p] = hand[p]
  BY <1>1 DEF MarkDispatched, MarkDispatchFailed, DispatchFaults, AnswerLost, Free, Hands
<1> HIDE DEF h
<1>3. \A p \in Dispatchers : hand'[p].event # Nobody /\ ~hand'[p].failing => p # d
  BY <1>2 DEF h
<1>4. CASE event' = event
  BY <1>1, <1>2, <1>3, <1>4, OutboxAwaits DEF AInv, HandKnows
<1>5. CASE event' # event
  <2>1. PICK e \in Events, state \in {"failed", "dispatched"} :
          /\ e = hand[d].event /\ event' = [event EXCEPT ![e] = Updated(d, e, state)]
          /\ state = "dispatched" => ~hand[d].failing /\ hand[d].todo = {}
    <3>1. MarkDispatched(d) \/ MarkDispatchFailed(d) \/ AnswerLost(d)
      BY <1>5 DEF DispatchFaults
    <3>2. PICK state \in {"failed", "dispatched"} :
            /\ event' = [event EXCEPT ![hand[d].event] = Updated(d, hand[d].event, state)]
            /\ state = "dispatched" => ~hand[d].failing /\ hand[d].todo = {}
      BY <3>1 DEF MarkDispatched, MarkDispatchFailed, AnswerLost
    <3>3. hand[d].event \in Events
      BY <1>1, <1>5, <3>2
    <3> QED BY <3>2, <3>3
  <2>2. Owns(d, e)
    BY <1>1, <1>5, <2>1 DEF Updated
  <2>3. event'[e].state = state /\ event[e].state = "processing" /\ \A f \in Events \ {e} : event'[f] = event[f]
    BY <1>1, <2>1, <2>2 DEF Updated, Owns
  <2>4. state = "dispatched" => \A s \in Scopes : Behind(s, e[1]) => Loading(s, e[1])
    BY <2>1, Held DEF AInv, HandKnows
  <2>5. \A f \in Events : event'[f].state = "absent" <=> event[f].state = "absent"
    BY <2>3
  <2>6. \A f \in Events : event'[f].state = "dispatched" /\ event[f].state # "dispatched" =>
           \A s \in Scopes : Behind(s, f[1]) => Loading(s, f[1])
    BY <2>3, <2>4
  <2> QED BY <1>1, <1>2, <1>3, <2>5, <2>6, OutboxAwaits DEF AInv, HandKnows
<1> QED BY <1>4, <1>5

\* What is to be loaded stays on the queue when a job is added.
LEMMA AddedLoads ==
  ASSUME TypeOK, NEW id \in JobIds, jobs' = [jobs EXCEPT ![id] = Added(jobs[id])], UNCHANGED work
  PROVE  /\ \A s \in Scopes : \A d : Loading(s, d) => Loading(s, d)'
         /\ jobs[id].state = "none" => ToLoad(id)'
         /\ jobs[id].state # "none" => jobs' = jobs
         /\ \A i \in JobIds \ {id} : jobs'[i] = jobs[i]
<1>1. /\ jobs \in [JobIds -> QueueStates]
      /\ jobs'[id].state = IF jobs[id].state = "none" THEN "waiting" ELSE jobs[id].state
      /\ \A i \in JobIds \ {id} : jobs'[i] = jobs[i]
  BY DEF TypeOK, Added, QueueStates
<1>2. \A i \in JobIds : ToLoad(i) => ToLoad(i)'
  BY <1>1 DEF ToLoad
<1>3. \A s \in Scopes : \A d : Loading(s, d) => Loading(s, d)'
  BY <1>2 DEF Loading, Carries, ScopeOf
<1>4. jobs[id].state # "none" => jobs' = jobs
  BY <1>1 DEF Added
<1> QED BY <1>1, <1>3, <1>4 DEF ToLoad

LEMMA AddRebuildAwaits ==
  ASSUME IInv, AInv, NEW d \in Dispatchers, NEW s \in Scopes, AddRebuild(d, s)
  PROVE  AInv'
<1>1. PICK e \in Events : e = hand[d].event /\ e[1] \in Dates
  BY Held DEF AddRebuild
<1> DEFINE id == RebuildJob(s, e)
<1>2. /\ jobs' = [jobs EXCEPT ![id] = Added(jobs[id])] /\ hand' = [hand EXCEPT ![d].todo = hand[d].todo \ {s}]
      /\ UNCHANGED <<data, event, work, versions, missed, overlapped>> /\ ~hand[d].failing /\ hand \in [Dispatchers -> Hands]
  BY <1>1 DEF AddRebuild, eventVars, reportVars, slips, IInv, TypeOK
<1>3. id \in JobIds /\ id[1] = s
  BY Ids
<1>4. /\ \A t \in Scopes : \A c : Loading(t, c) => Loading(t, c)'
      /\ jobs[id].state = "none" => ToLoad(id)'
      /\ \A i \in JobIds \ {id} : jobs'[i] = jobs[i]
  BY <1>2, <1>3, AddedLoads DEF IInv
<1>5. \A w \in Workers, t \in Scopes : Carries(w, t)' <=> Carries(w, t)
  BY <1>2 DEF Carries, ScopeOf
<1>6. (\A t \in Scopes : \A c : Behind(t, c)' <=> Behind(t, c)) /\ Seen' /\ Stored' /\ Carried'
  BY <1>2, <1>5, SameAwaited DEF AInv, Seen, Available
<1>7. Answered'
  BY <1>2, <1>4, <1>6 DEF AInv, Answered, Underway
<1>8. Behind(s, e[1]) => Loading(s, e[1])'
  <2>1. CASE IsSent(s, e)
    BY <1>4, <2>1 DEF AInv, SentLoads
  <2>2. CASE ~IsSent(s, e)
    BY <1>3, <1>4, <2>2 DEF IsSent, Loading
  <2> QED BY <2>1, <2>2
<1>9. SentLoads'
  <2> SUFFICES ASSUME NEW t \in Scopes, NEW f \in Events, IsSent(t, f)', Behind(t, f[1]) PROVE Loading(t, f[1])'
    BY <1>6 DEF SentLoads
  <2>1. CASE RebuildJob(t, f) = id
    BY <1>8, <2>1 DEF RebuildJob
  <2>2. CASE RebuildJob(t, f) # id
    <3>1. IsSent(t, f)
      BY <1>4, <2>2, Ids DEF IsSent
    <3> QED BY <1>4, <3>1 DEF AInv, SentLoads
  <2> QED BY <2>1, <2>2
<1> HIDE DEF id
<1>10. HandKnows'
  <2> SUFFICES ASSUME NEW p \in Dispatchers, hand'[p].event # Nobody, ~hand'[p].failing,
                      NEW t \in Scopes, Behind(t, hand'[p].event[1])
               PROVE  t \in hand'[p].todo \/ Loading(t, hand[p].event[1])'
    BY <1>6 DEF HandKnows
  <2>1. hand'[p].event = hand[p].event /\ hand'[p].failing = hand[p].failing
        /\ hand'[p].todo = IF p = d THEN hand[p].todo \ {s} ELSE hand[p].todo
    BY <1>2 DEF Hands
  <2>2. PICK f \in Events : f = hand[p].event /\ f = hand'[p].event
    BY <2>1, Held
  <2>3. t \in hand[p].todo \/ Loading(t, f[1])
    BY <2>1, <2>2 DEF AInv, HandKnows
  <2>4. t \in hand'[p].todo \/ Loading(t, f[1])'
    <3>1. CASE p = d /\ t = s
      BY <1>1, <1>8, <2>1, <2>2, <3>1
    <3>2. CASE ~(p = d /\ t = s)
      BY <1>4, <2>1, <2>3, <3>2
    <3> QED BY <3>1, <3>2
  <2> QED BY <2>2, <2>4
<1> QED BY <1>6, <1>7, <1>9, <1>10 DEF AInv

LEMMA ScheduleAwaits ==
  ASSUME IInv, AInv, NEW s \in Scopes, Schedule(s)
  PROVE  AInv'
<1>1. /\ jobs' = [jobs EXCEPT ![Scheduled(s)] = Added(jobs[Scheduled(s)])] /\ Scheduled(s) \in JobIds
      /\ UNCHANGED <<data, event, hand, work, versions, missed, overlapped>>
  BY Ids DEF Schedule, eventVars, reportVars, slips
<1>2. /\ \A t \in Scopes : \A c : Loading(t, c) => Loading(t, c)'
      /\ \A i \in JobIds \ {Scheduled(s)} : jobs'[i] = jobs[i]
  BY <1>1, AddedLoads DEF IInv
<1>3. \A t \in Scopes, e \in Events : RebuildJob(t, e) # Scheduled(s)
  BY NothingAssumption DEF Scheduled, RebuildJob
<1>4. \A t \in Scopes, e \in Events : IsSent(t, e)' <=> IsSent(t, e)
  BY <1>2, <1>3, Ids DEF IsSent
<1>5. \A w \in Workers, t \in Scopes : Carries(w, t)' <=> Carries(w, t)
  BY <1>1 DEF Carries, ScopeOf
<1>6. (\A t \in Scopes : \A c : Behind(t, c)' <=> Behind(t, c)) /\ Stored' /\ Carried'
  BY <1>1, <1>5, SameAwaited
<1> QED BY <1>1, <1>2, <1>4, <1>6, WorkAwaits

\* The slot that takes a job has nothing in hand before and after.
LEMMA StartAwaits ==
  ASSUME IInv, AInv, NEW w \in Workers, NEW id \in JobIds, Start(w, id)
  PROVE  AInv'
<1>1. /\ jobs \in [JobIds -> QueueStates] /\ work \in [Workers -> Slots] /\ jobs[id].state = "waiting"
      /\ work[w].pc = "idle" /\ work[w].job = Nobody
      /\ jobs' = [jobs EXCEPT ![id].state = "active"]
      /\ work' = [work EXCEPT ![w] = [Idle EXCEPT !.pc = "load", !.job = id]]
      /\ UNCHANGED <<data, event, hand, versions, missed, overlapped>>
  BY DEF Start, IInv, TypeOK, eventVars, slips, WorkerInv, Holding
<1>2. jobs'[id].state = "active" /\ \A i \in JobIds \ {id} : jobs'[i] = jobs[i]
  BY <1>1 DEF QueueStates
<1>3. work'[w].pc = "load" /\ work'[w].job = id /\ \A v \in Workers \ {w} : work'[v] = work[v]
  BY <1>1 DEF Idle
<1>4. \A v \in Workers : work[v].job # id
  BY <1>1, NothingAssumption DEF IInv, WorkerInv, Holding
<1>5. \A v \in Workers, s \in Scopes :
        (Carries(v, s)' <=> Carries(v, s)) /\ (Carries(v, s) => work'[v].content = work[v].content)
  BY <1>1, <1>3 DEF Carries, ScopeOf
<1>6. \A i \in JobIds : ToLoad(i) => ToLoad(i)'
  <2> SUFFICES ASSUME NEW i \in JobIds, ToLoad(i) PROVE ToLoad(i)'
    OBVIOUS
  <2>1. CASE i = id
    BY <1>2, <1>3, <1>4, <2>1 DEF ToLoad
  <2>2. CASE i # id
    BY <1>2, <1>3, <2>2 DEF ToLoad
  <2> QED BY <2>1, <2>2
<1>7. \A s \in Scopes : \A d : Loading(s, d) => Loading(s, d)'
  BY <1>5, <1>6 DEF Loading
<1>8. \A s \in Scopes, e \in Events : IsSent(s, e)' <=> IsSent(s, e)
  BY <1>1, <1>2, Ids DEF IsSent
<1>9. (\A s \in Scopes : \A d : Behind(s, d)' <=> Behind(s, d)) /\ Stored' /\ Carried'
  BY <1>1, <1>5, SameAwaited
<1> QED BY <1>1, <1>7, <1>8, <1>9, WorkAwaits

\* What is loaded waits for nothing that is there.
LEMMA LoadEvidenceAwaits ==
  ASSUME IInv, AInv, NEW w \in Workers, LoadEvidence(w)
  PROVE  AInv'
<1>1. PICK s \in Scopes : s = ScopeOf(w) /\ work[w].pc = "load"
  BY AtWork DEF LoadEvidence
<1>2. /\ work'[w].pc = "lock" /\ work'[w].job = work[w].job
      /\ work'[w].content = Content(s) /\ \A v \in Workers \ {w} : work'[v] = work[v]
      /\ missed' = missed \ {s} /\ UNCHANGED <<data, event, hand, jobs, versions>>
  BY <1>1 DEF LoadEvidence, IInv, TypeOK, Slots, eventVars
<1>3. overlapped' = IF \E v \in Workers : Carries(v, s) THEN overlapped \cup {s} ELSE overlapped \ {s}
  BY <1>1 DEF LoadEvidence
<1>4. Shaped(s, Content(s)) /\ Content(s).missing = Missing(s)
  BY ContentShaped
<1>5. Carries(w, s)' /\ \A t \in Scopes : ~Carries(w, t) /\ (Carries(w, t)' => t = s)
  BY <1>1, <1>2 DEF Carries, ScopeOf
<1>6. \A v \in Workers \ {w}, t \in Scopes :
        (Carries(v, t)' <=> Carries(v, t)) /\ work'[v].content = work[v].content
  BY <1>2 DEF Carries, ScopeOf
<1>7. ASSUME NEW t \in Scopes, NEW d \in Dates, Behind(t, d)'
      PROVE  Loading(t, d)' \/ (Behind(t, d) /\ (Loading(t, d) => Loading(t, d)'))
  <2>1. d \in Awaited(t) /\ d \notin Missing(t)
    BY <1>2, <1>7, SameGaps DEF Behind
  <2>2. CASE t = s
    <3>1. d \notin work'[w].content.missing
      BY <1>2, <1>4, <2>1, <2>2
    <3> QED BY <1>5, <2>2, <3>1 DEF Loading
  <2>3. CASE t # s
    <3>1. Behind(t, d)
      BY <1>2, <1>3, <1>7, <2>1, <2>3 DEF Behind
    <3>2. ASSUME Loading(t, d) PROVE Loading(t, d)'
      <4>1. CASE \E i \in JobIds : i[1] = t /\ ToLoad(i)
        <5>1. PICK i \in JobIds : i[1] = t /\ ToLoad(i)
          BY <4>1
        <5>2. i # work[w].job
          BY <1>1, <2>3, <5>1 DEF ScopeOf
        <5>3. ToLoad(i)'
          BY <1>2, <5>1, <5>2 DEF ToLoad
        <5> QED BY <5>1, <5>3 DEF Loading
      <4>2. CASE \E v \in Workers : Carries(v, t) /\ d \notin work[v].content.missing
        BY <1>5, <1>6, <4>2 DEF Loading
      <4> QED BY <3>2, <4>1, <4>2 DEF Loading
    <3> QED BY <3>1, <3>2
  <2> QED BY <2>2, <2>3
<1>8. \A t \in Scopes, e \in Events : IsSent(t, e)' <=> IsSent(t, e)
  BY <1>2 DEF IsSent
<1>9. Stored'
  BY <1>2, SameGaps DEF AInv, Stored
<1>10. Carried'
  <2> SUFFICES ASSUME NEW v \in Workers, NEW t \in Scopes, Carries(v, t)'
               PROVE  /\ Shaped(t, work[v].content)'
                      /\ t \in missed' \cup overlapped' \/ work'[v].content.missing \subseteq Missing(t)' \cup Awaited(t)'
    BY DEF Carried
  <2>1. CASE v = w
    <3>1. t = s /\ work'[w].content = Content(s)
      BY <1>2, <1>5, <2>1
    <3>2. Shaped(s, work[w].content)'
      BY <1>2, <1>4, <3>1, SameGaps DEF Shaped, Period, Awaiting
    <3> QED BY <1>2, <1>4, <2>1, <3>1, <3>2, SameGaps
  <2>2. CASE v # w
    <3>1. Carries(v, t) /\ work'[v].content = work[v].content
      BY <1>6, <2>2
    <3>2. Shaped(t, work[v].content)
          /\ (t \in missed \cup overlapped \/ work[v].content.missing \subseteq Missing(t) \cup Awaited(t))
      BY <3>1 DEF AInv, Carried
    <3>3. t \in missed \cup overlapped => t \in missed' \cup overlapped'
      BY <1>2, <1>3, <3>1
    <3>4. Shaped(t, work[v].content)'
      BY <1>2, <3>1, <3>2, SameGaps DEF Shaped, Period, Awaiting
    <3> QED BY <1>2, <3>1, <3>2, <3>3, <3>4, SameGaps
  <2> QED BY <2>1, <2>2
<1> QED BY <1>2, <1>7, <1>8, <1>9, <1>10, WorkAwaits

LEMMA LockScopeAwaits ==
  ASSUME IInv, AInv, NEW w \in Workers, LockScope(w)
  PROVE  AInv'
<1>1. /\ work[w].pc = "lock" /\ work'[w].pc = "insert" /\ work'[w].job = work[w].job
      /\ work'[w].content = work[w].content /\ \A v \in Workers \ {w} : work'[v] = work[v]
      /\ UNCHANGED <<data, event, hand, jobs, versions, missed, overlapped>>
  BY DEF LockScope, IInv, TypeOK, Slots, eventVars, slips
<1>2. \A v \in Workers, s \in Scopes : (Carries(v, s)' <=> Carries(v, s)) /\ work'[v].content = work[v].content
  BY <1>1 DEF Carries, ScopeOf
<1>3. \A i \in JobIds : ToLoad(i) => ToLoad(i)'
  BY <1>1, AtWork DEF ToLoad
<1>4. \A s \in Scopes : \A d : Loading(s, d) => Loading(s, d)'
  BY <1>2, <1>3 DEF Loading
<1>5. \A s \in Scopes, e \in Events : IsSent(s, e)' <=> IsSent(s, e)
  BY <1>1 DEF IsSent
<1>6. (\A s \in Scopes : \A d : Behind(s, d)' <=> Behind(s, d)) /\ Stored' /\ Carried'
  BY <1>1, <1>2, SameAwaited
<1> QED BY <1>1, <1>4, <1>5, <1>6, WorkAwaits

\* The new version waits for no date that the old one did not wait for, and a
\* date that both wait for is to be loaded, or its event is on its way.
LEMMA InsertVersionAwaits ==
  ASSUME IInv, DInv, AInv, NEW w \in Workers, InsertVersion(w)
  PROVE  AInv'
<1>0. PICK s \in Scopes : s = ScopeOf(w)
  BY AtWork DEF InsertVersion
<1>1. /\ work[w].pc = "insert" /\ work'[w].pc = "finish" /\ work'[w].job = work[w].job
      /\ \A v \in Workers \ {w} : work'[v] = work[v]
      /\ versions'[s] # <<>> /\ Latest(s)' = work[w].content
      /\ \A t \in Scopes \ {s} : versions'[t] = versions[t]
      /\ UNCHANGED <<data, event, hand, jobs, missed, overlapped>>
  BY <1>0, Inserted
<1>2. Awaited(s)' = work[w].content.missing /\ \A t \in Scopes \ {s} : Awaited(t)' = Awaited(t)
  BY <1>1, SameGaps DEF Awaited
<1>3. Carries(w, s) /\ (\A t \in Scopes : ~Carries(w, t)') /\ \A t \in Scopes : Carries(w, t) => t = s
  BY <1>0, <1>1 DEF Carries, ScopeOf
<1>4. \A v \in Workers \ {w}, t \in Scopes :
        (Carries(v, t)' <=> Carries(v, t)) /\ work'[v].content = work[v].content
  BY <1>1 DEF Carries, ScopeOf
<1>5. Shaped(s, work[w].content)
      /\ (s \in missed \cup overlapped \/ work[w].content.missing \subseteq Missing(s) \cup Awaited(s))
  BY <1>3 DEF AInv, Carried
<1>6. \A t \in Scopes, d \in Dates : Behind(t, d)' => Behind(t, d)
  BY <1>1, <1>2, <1>5, SameGaps DEF Behind
<1>7. \A d \in Dates : Behind(s, d)' => d \in work[w].content.missing
  BY <1>2 DEF Behind
<1>8. \A i \in JobIds : ToLoad(i) => ToLoad(i)'
  BY <1>1, AtWork DEF ToLoad
<1>9. ASSUME NEW t \in Scopes, NEW d \in Dates, Behind(t, d)', Loading(t, d) PROVE Loading(t, d)'
  <2>1. CASE \E i \in JobIds : i[1] = t /\ ToLoad(i)
    BY <1>8, <2>1 DEF Loading
  <2>2. CASE \E v \in Workers : Carries(v, t) /\ d \notin work[v].content.missing
    <3>1. PICK v \in Workers : Carries(v, t) /\ d \notin work[v].content.missing
      BY <2>2
    <3>2. v # w
      BY <1>3, <1>7, <1>9, <3>1
    <3> QED BY <1>4, <3>1, <3>2 DEF Loading
  <2> QED BY <1>9, <2>1, <2>2 DEF Loading
<1>10. \A t \in Scopes, e \in Events : IsSent(t, e)' <=> IsSent(t, e)
  BY <1>1 DEF IsSent
<1>11. Stored'
  BY <1>1, <1>5, SameGaps DEF AInv, Stored
<1>12. Carried'
  <2> SUFFICES ASSUME NEW v \in Workers, NEW t \in Scopes, Carries(v, t)'
               PROVE  /\ Shaped(t, work[v].content)'
                      /\ t \in missed \cup overlapped \/ work'[v].content.missing \subseteq Missing(t)' \cup Awaited(t)'
    BY <1>1 DEF Carried
  <2>1. v # w /\ Carries(v, t) /\ work'[v].content = work[v].content
    BY <1>3, <1>4
  <2>2. Shaped(t, work[v].content)
        /\ (t \in missed \cup overlapped \/ work[v].content.missing \subseteq Missing(t) \cup Awaited(t))
    BY <2>1 DEF AInv, Carried
  <2>3. t = s => s \in overlapped
    BY <1>3, <2>1 DEF DInv, OneCarrier
  <2>4. Shaped(t, work[v].content)'
    BY <1>1, <2>1, <2>2, SameGaps DEF Shaped, Period, Awaiting
  <2> QED BY <1>1, <1>2, <2>1, <2>2, <2>3, <2>4, SameGaps
<1> QED BY <1>1, <1>6, <1>9, <1>10, <1>11, <1>12, WorkAwaits

\* The slot leaves its job, which is done, or to be loaded again, or has missed its scope.
LEMMA LeftAwaits ==
  ASSUME IInv, AInv, NEW w \in Workers, work[w].pc # "idle",
         NEW id \in JobIds, id = work[w].job, NEW q \in QueueStates,
         q.state = "waiting" \/ (q.state = "done" /\ work[w].pc = "finish") \/ (q.state = "failed" /\ id[1] \in missed'),
         jobs' = [jobs EXCEPT ![id] = q], work' = [work EXCEPT ![w] = Idle],
         missed \subseteq missed', UNCHANGED <<data, event, hand, versions, overlapped>>
  PROVE  AInv'
<1>1. /\ jobs \in [JobIds -> QueueStates] /\ jobs[id].state = "active"
      /\ jobs'[id] = q /\ \A i \in JobIds \ {id} : jobs'[i] = jobs[i]
      /\ work'[w].pc = "idle" /\ work'[w].job = Nobody
      /\ \A v \in Workers \ {w} : work'[v] = work[v] /\ work[v].job # id
  BY AtWork, Constructed DEF IInv, TypeOK
<1>2. /\ \A t \in Scopes : ~Carries(w, t)'
      /\ \A t \in Scopes : Carries(w, t) => t = id[1] /\ work[w].pc # "finish"
  BY <1>1 DEF Carries, ScopeOf
<1>3. \A v \in Workers \ {w}, t \in Scopes :
        (Carries(v, t)' <=> Carries(v, t)) /\ work'[v].content = work[v].content
  BY <1>1 DEF Carries, ScopeOf
<1>4. q.state = "waiting" => ToLoad(id)'
  BY <1>1 DEF ToLoad
<1>5. ASSUME NEW i \in JobIds, ToLoad(i), i[1] \notin missed' PROVE ToLoad(i)'
  <2>1. CASE i = id
    BY <1>1, <1>4, <1>5, <2>1 DEF ToLoad
  <2>2. CASE i # id
    BY <1>1, <1>5, <2>2, NothingAssumption DEF ToLoad
  <2> QED BY <2>1, <2>2
<1>6. ASSUME NEW s \in Scopes, NEW d \in Dates, s \notin missed', Loading(s, d) PROVE Loading(s, d)'
  <2>1. CASE \E i \in JobIds : i[1] = s /\ ToLoad(i)
    BY <1>5, <1>6, <2>1 DEF Loading
  <2>2. CASE \E v \in Workers : Carries(v, s) /\ d \notin work[v].content.missing
    <3>1. PICK v \in Workers : Carries(v, s) /\ d \notin work[v].content.missing
      BY <2>2
    <3>2. CASE v = w
      <4>1. q.state = "waiting" /\ id[1] = s
        BY <1>2, <1>6, <3>1, <3>2
      <4> QED BY <1>4, <4>1 DEF Loading
    <3>3. CASE v # w
      BY <1>3, <3>1, <3>3 DEF Loading
    <3> QED BY <3>2, <3>3
  <2> QED BY <1>6, <2>1, <2>2 DEF Loading
<1>7. \A s \in Scopes, e \in Events : IsSent(s, e)' <=> IsSent(s, e)
  BY <1>1, Ids DEF IsSent
<1>8. \A s \in Scopes, d \in Dates : Behind(s, d)' => s \notin missed' /\ Behind(s, d)
  BY SameGaps DEF Behind
<1>9. Stored'
  BY SameGaps DEF AInv, Stored
<1>10. Carried'
  <2> SUFFICES ASSUME NEW v \in Workers, NEW t \in Scopes, Carries(v, t)'
               PROVE  /\ Shaped(t, work[v].content)'
                      /\ t \in missed' \cup overlapped \/ work'[v].content.missing \subseteq Missing(t)' \cup Awaited(t)'
    BY DEF Carried
  <2>1. Carries(v, t) /\ work'[v].content = work[v].content
    BY <1>2, <1>3
  <2>2. Shaped(t, work[v].content)
        /\ (t \in missed \cup overlapped \/ work[v].content.missing \subseteq Missing(t) \cup Awaited(t))
    BY <2>1 DEF AInv, Carried
  <2>3. Shaped(t, work[v].content)'
    BY <2>1, <2>2, SameGaps DEF Shaped, Period, Awaiting
  <2> QED BY <2>1, <2>2, <2>3, SameGaps
<1> QED BY <1>6, <1>7, <1>8, <1>9, <1>10, WorkAwaits

LEMMA FinishAwaits ==
  ASSUME IInv, AInv, NEW w \in Workers, Finish(w)
  PROVE  AInv'
<1>0. PICK id \in JobIds : id = work[w].job
  BY AtWork DEF Finish
<1> DEFINE q == [jobs[id] EXCEPT !.state = "done"]
<1>1. q \in QueueStates /\ q.state = "done"
  BY DEF IInv, TypeOK, QueueStates
<1>2. /\ jobs' = [jobs EXCEPT ![id] = q] /\ work' = [work EXCEPT ![w] = Idle] /\ work[w].pc = "finish"
      /\ UNCHANGED <<data, event, hand, versions, missed, overlapped>>
  BY <1>0 DEF Finish, eventVars, slips, IInv, TypeOK
<1> HIDE DEF q
<1> QED BY <1>0, <1>1, <1>2, LeftAwaits

LEMMA GenerationFailsAwaits ==
  ASSUME IInv, AInv, NEW w \in Workers, GenerationFails(w)
  PROVE  AInv'
<1>1. PICK id \in JobIds, q \in QueueStates :
        /\ id = work[w].job /\ work[w].pc # "idle"
        /\ q.state = "waiting" \/ (q.state = "failed" /\ id[1] \in missed')
        /\ jobs' = [jobs EXCEPT ![id] = q] /\ work' = [work EXCEPT ![w] = Idle]
        /\ missed \subseteq missed' /\ UNCHANGED <<data, event, hand, versions, overlapped>>
  BY FailedJob
<1> QED BY <1>1, LeftAwaits

LEMMA StalledAwaits ==
  ASSUME IInv, AInv, NEW id \in JobIds, Stalled(id)
  PROVE  AInv'
<1>1. /\ jobs[id].state = "active" /\ \A w \in Workers : work[w].job # id
      /\ jobs'[id].state = "waiting" \/ (jobs'[id].state = "failed" /\ id[1] \in missed')
      /\ (\A i \in JobIds \ {id} : jobs'[i] = jobs[i]) /\ missed \subseteq missed'
      /\ UNCHANGED <<data, event, hand, work, versions, overlapped>>
  BY StalledJob
<1>2. \A w \in Workers, s \in Scopes : Carries(w, s)' <=> Carries(w, s)
  BY <1>1 DEF Carries, ScopeOf
<1>3. \A i \in JobIds : ToLoad(i) => ToLoad(i)' \/ i[1] \in missed'
  BY <1>1 DEF ToLoad
<1>4. \A s \in Scopes, d \in Dates : Loading(s, d) => Loading(s, d)' \/ s \in missed'
  BY <1>1, <1>2, <1>3 DEF Loading
<1>5. \A s \in Scopes, e \in Events : IsSent(s, e)' <=> IsSent(s, e)
  BY <1>1, Ids DEF IsSent
<1>6. \A s \in Scopes, d \in Dates : Behind(s, d)' => s \notin missed' /\ Behind(s, d)
  BY <1>1, SameGaps DEF Behind
<1>7. Stored'
  BY <1>1, SameGaps DEF AInv, Stored
<1>8. Carried'
  BY <1>1, <1>2, SameGaps DEF AInv, Carried
<1> QED BY <1>1, <1>4, <1>5, <1>6, <1>7, <1>8, WorkAwaits

LEMMA CrashAwaits ==
  ASSUME IInv, AInv, Crash
  PROVE  AInv'
<1>1. /\ UNCHANGED <<data, event, jobs, versions, missed, overlapped>>
      /\ \A w \in Workers : work'[w].pc = "idle" /\ work'[w].job = Nobody
      /\ \A p \in Dispatchers : hand'[p].event = Nobody
  BY Constructed DEF Crash, slips
<1>2. \A id \in JobIds : jobs[id].state = "active" \/ ToLoad(id) => ToLoad(id)'
  BY <1>1, NothingAssumption DEF ToLoad
<1>3. ASSUME NEW s \in Scopes, NEW d \in Dates, Loading(s, d) PROVE Loading(s, d)'
  <2>1. CASE \E i \in JobIds : i[1] = s /\ ToLoad(i)
    BY <1>2, <2>1 DEF Loading
  <2>2. CASE \E w \in Workers : Carries(w, s)
    <3>1. PICK w \in Workers : Carries(w, s)
      BY <2>2
    <3>2. work[w].job \in JobIds /\ jobs[work[w].job].state = "active" /\ work[w].job[1] = s
      BY <3>1, AtWork DEF Carries, ScopeOf
    <3> QED BY <1>2, <3>2 DEF Loading
  <2> QED BY <1>3, <2>1, <2>2 DEF Loading
<1>4. \A w \in Workers, s \in Scopes : ~Carries(w, s)'
  BY <1>1 DEF Carries
<1>5. (\A s \in Scopes : \A d : Behind(s, d)' <=> Behind(s, d)) /\ Stored' /\ Carried'
  BY <1>1, <1>4, SameAwaited
<1>6. Seen'
  BY <1>1, SameGaps DEF AInv, Seen
<1>7. Answered'
  BY <1>1, <1>3, <1>5 DEF AInv, Answered, Underway
<1>8. SentLoads'
  BY <1>1, <1>3, <1>5, Held DEF AInv, SentLoads, IsSent
<1>9. HandKnows'
  BY <1>1 DEF HandKnows
<1> QED BY <1>5, <1>6, <1>7, <1>8, <1>9 DEF AInv

LEMMA FirstAwaits ==
  ASSUME Init
  PROVE  AInv
<1>1. \A s \in Scopes : versions[s] = <<>> \/ Latest(s) = Content(s)
  BY InitialReports
<1>2. \A s \in Scopes : \A d : ~Behind(s, d)
  BY <1>1, ContentShaped DEF Behind, Awaited
<1>3. Stored
  BY <1>1, ContentShaped DEF Stored
<1>4. Seen
  BY DEF Init, Seen
<1>5. Carried
  BY Constructed DEF Init, Carried, Carries
<1>6. Answered /\ SentLoads /\ HandKnows
  BY <1>2 DEF Answered, SentLoads, HandKnows
<1> QED BY <1>3, <1>4, <1>5, <1>6 DEF AInv

LEMMA KeepsAwaiting == IInv /\ DInv /\ AInv /\ [Next]_vars => AInv'
<1> SUFFICES ASSUME IInv, DInv, AInv, [Next]_vars PROVE AInv'
  OBVIOUS
<1>1. ASSUME NEW d \in Dates, NEW v \in Values, Save(d, v) PROVE AInv'
  BY <1>1, SaveAwaits
<1>2. ASSUME NEW d \in Dispatchers, Claim(d) \/ Dispatch(d) \/ DispatchFaults(d) \/ AnswerLost(d) PROVE AInv'
  BY <1>2, ClaimAwaits, TakeAwaits, AddRebuildAwaits, MarkAwaits DEF Dispatch
<1>3. ASSUME NEW e \in Events, LeaseExpires(e) PROVE AInv'
  BY <1>3, LeaseAwaits
<1>4. ASSUME NEW s \in Scopes, Schedule(s) PROVE AInv'
  BY <1>4, ScheduleAwaits
<1>5. ASSUME NEW w \in Workers, Generate(w) \/ GenerationFails(w) \/ \E id \in JobIds : Start(w, id) PROVE AInv'
  BY <1>5, LoadEvidenceAwaits, LockScopeAwaits, InsertVersionAwaits, FinishAwaits,
     GenerationFailsAwaits, StartAwaits DEF Generate
<1>6. ASSUME NEW id \in JobIds, Stalled(id) PROVE AInv'
  BY <1>6, StalledAwaits
<1>7. CASE Crash
  BY <1>7, CrashAwaits
<1>8. CASE UNCHANGED vars
  BY <1>8, OutboxAwaits DEF vars, eventVars, reportVars, slips, AInv, HandKnows
<1> QED BY <1>1, <1>2, <1>3, <1>4, <1>5, <1>6, <1>7, <1>8 DEF Next

LEMMA QuietIsTold == IInv /\ DInv /\ AInv => CaughtUp
<1> SUFFICES ASSUME IInv, DInv, AInv, Quiet, NEW s \in Scopes, s \notin missed, versions[s] # <<>> PROVE Told(s)
  BY DEF CaughtUp
<1>1. \A id \in JobIds : ~ToLoad(id)
  BY DEF ToLoad, Quiet
<1>2. \A w \in Workers : ~Carries(w, s)
  BY AtWork DEF Carries, Quiet
<1>3. CASE ~OnlyAwaiting
  <2>1. ~Unsent(s)
    BY <1>3 DEF Unsent, Quiet, IInv, OutboxInv, Paid
  <2>2. Safe(s)
    BY <1>1, <1>3, <2>1 DEF DInv, Delivery, Pending
  <2> QED BY <1>2, <2>2 DEF Safe, Kept, Current, Told, Fresh
<1>4. CASE OnlyAwaiting /\ s \notin overlapped /\ Latest(s).missing # {}
  <2>1. Shaped(s, Latest(s)) /\ Period(s) \subseteq Dates
    BY PeriodAssumption DEF AInv, Stored, Period
  <2>2. Latest(s).missing \subseteq Missing(s)
    BY <1>1, <1>2, <1>4, <2>1 DEF AInv, Answered, Loading, Underway, Quiet, Behind, Awaited, Shaped
  <2>3. Missing(s) \in {Gaps(s), {First[s]}} /\ (Missing(s) = Gaps(s) \/ Gaps(s) = {})
    BY DEF Missing, Gaps
  <2>4. Latest(s).missing = Missing(s)
    BY <1>4, <2>1, <2>2, <2>3 DEF Shaped
  <2> QED BY <1>4, <2>1, <2>4 DEF Told, Fresh, Content, Shaped
<1> QED BY <1>3, <1>4 DEF Told, Fresh

\* Whatever slots, dispatchers, leases, crashes, faults and retries do: when outbox, queue and
\* worker are quiet, every report says what the snapshots say (of a mock account: waits for
\* nothing that is there), unless the scope was missed, by an observation without a rebuild or
\* a job that gave up; after an overlap of two slots, one of its versions says it.
THEOREM ReportsCaughtUp == Spec => []CaughtUp
<1>1. Init => DInv /\ AInv
  BY FirstDelivered, FirstAwaits
<1>2. IInv /\ DInv /\ AInv /\ [Next]_vars => DInv' /\ AInv'
  BY KeepsDelivering, KeepsAwaiting
<1>3. IInv /\ DInv /\ AInv => CaughtUp
  BY QuietIsTold
<1> QED BY <1>1, <1>2, <1>3, Invariance, PTL DEF Spec
=============================================================================
