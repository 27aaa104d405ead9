-------------------------- MODULE RollingSyncProofs --------------------------
(* Theorems about RollingSync for every set of accounts, calendar and bound.  *)
EXTENDS RollingSync, FiniteSetTheorems, TLAPS

QueueJobs == [state : {"none", "waiting", "active", "done", "failed"}, tries : 0..MaxAttempts, stored : BOOLEAN]
Ticks == [pc : {"idle", "read", "add", "ended", "rejected"}, day : Days, cursor : Accounts \cup {None},
          items : SUBSET Accounts, more : BOOLEAN, batch : SUBSET Jobs,
          seen : SUBSET Accounts, steady : SUBSET Accounts, dropped : SUBSET Jobs]

\* A job that waits, or may be queued, has an attempt left.
Tries == \A j \in Jobs : queue[j].state \in {"none", "waiting"} => queue[j].tries < MaxAttempts

\* The cursor has passed an account.
Behind(a) == tick.cursor # None /\ a <= tick.cursor

\* What was seen lies behind the cursor, the page being queued ahead of it.
Paging ==
  /\ tick.steady \subseteq eligible /\ tick.pc # "rejected" /\ tick.day <= today
  /\ tick.pc \in {"read", "add"} => \A a \in tick.seen : Behind(a)
  /\ tick.pc # "add" => tick.batch = {}
  /\ tick.pc = "add" => \A a \in tick.items : ~Behind(a)
  /\ tick.pc = "add" /\ tick.more => LastOf(tick.items) \in tick.items /\ \A a \in tick.items : a <= LastOf(tick.items)

\* The tick has got as far as an account; all its jobs are queued, refused or about to be queued.
Reached(a) ==
  \/ tick.pc = "ended"
  \/ tick.pc \in {"read", "add"} /\ Behind(a)
  \/ tick.pc = "add" /\ (tick.more => a <= LastOf(tick.items))
Handled(j) == j \in tick.dropped \/ j \in tick.batch \/ queue[j].state # "none"
Served(a) == \A d \in Dates(tick.day) : Handled(JobId(a, d, Mode(tick.day)))

Coverage == \A a \in tick.steady : Reached(a) => Served(a)

\* Only the first of the month after a date queues its second job, and that job asks
\* for the date on that day or later.
Final(a, d) == JobId(a, d, "previous_month_final")
Recheck ==
  /\ \A a \in Accounts, d \in Days :
       /\ queue[Final(a, d)].state # "none" \/ Final(a, d) \in tick.batch => \E f \in Firsts : f <= today /\ d \in Dates(f)
       /\ queue[Final(a, d)].stored => \A f \in Firsts : d \in Dates(f) => fetched[<<a, d>>] >= f
  /\ \A j \in Jobs : queue[j].state = "done" => queue[j].stored
  /\ \A x \in Accounts \X Days : fetched[x] <= today

IInv == TypeOK /\ Tries /\ Paging /\ Coverage /\ Recheck

-------------------------------------------------------------------------------
(* Pages *)

LEMMA Smallest ==
  ASSUME NEW S \in SUBSET Nat, S # {}
  PROVE  \E x \in S : \A y \in S : x <= y
<1> DEFINE less == {ss \in Nat \X Nat : ss[1] < ss[2]}
<1>1. IsWellFoundedOn(less, Nat)
  BY NatLessThanWellFounded DEF OpToRel
<1> HIDE DEF less
<1>2. PICK x \in S : \A y \in S : ~(<<y, x>> \in less)
  BY <1>1, WFMin
<1>3. \A y \in S : ~(y < x)
  BY <1>2 DEF less
<1> QED
  BY <1>3

\* A page that is not empty has a last account.
LEMMA LastIsLargest ==
  ASSUME NEW items \in SUBSET Accounts, items # {}
  PROVE  LastOf(items) \in items /\ \A b \in items : b <= LastOf(items)
<1> DEFINE above(a) == {b \in items : a < b}
           sizes == {Cardinality(above(a)) : a \in items}
<1>1. IsFiniteSet(items)
  BY AccountAssumption, FS_Subset
<1>2. \A a \in items : IsFiniteSet(above(a)) /\ Cardinality(above(a)) \in Nat
  <2> TAKE a \in items
  <2>1. above(a) \in SUBSET items
    OBVIOUS
  <2>2. IsFiniteSet(above(a))
    BY <1>1, <2>1, FS_Subset
  <2> QED
    BY <2>2, FS_CardinalityType
<1>3. PICK n \in sizes : \A k \in sizes : n <= k
  <2>1. sizes \in SUBSET Nat /\ sizes # {}
    BY <1>2
  <2> HIDE DEF sizes
  <2> QED
    BY <2>1, Smallest
<1>4. PICK m \in items : n = Cardinality(above(m))
  BY <1>3
<1>5. \A b \in items : ~(m < b)
  <2> SUFFICES ASSUME NEW b \in items, m < b PROVE FALSE
    OBVIOUS
  <2>1. above(b) \in SUBSET above(m) /\ b \in above(m) /\ b \notin above(b)
    <3>1. b \in Nat /\ m \in Nat /\ \A c \in items : c \in Nat
      BY AccountAssumption
    <3>2. \A c \in items : b < c => m < c
      BY <3>1
    <3>3. ~(b < b)
      BY <3>1
    <3> QED
      BY <3>2, <3>3
  <2>2. Cardinality(above(b)) < n
    <3>1. Cardinality(above(b)) <= Cardinality(above(m)) /\ Cardinality(above(m)) # Cardinality(above(b))
      BY <1>2, <2>1, FS_Subset
    <3> QED
      BY <1>2, <1>4, <3>1
  <2>3. n <= Cardinality(above(b))
    BY <1>3
  <2>4. n \in Nat /\ Cardinality(above(b)) \in Nat
    BY <1>2, <1>4
  <2> QED
    BY <2>2, <2>3, <2>4
<1>6. m \in items /\ \A b \in items : b <= m
  BY <1>5, AccountAssumption
<1> QED
  BY <1>6 DEF LastOf

\* What the rows of a page are: all of them or the first ones.
LEMMA PageOfRows ==
  ASSUME NEW rows \in SUBSET Accounts
  PROVE  /\ FirstOf(rows) \subseteq rows
         /\ HasMore(rows) => FirstOf(rows) # {}
         /\ ~HasMore(rows) => FirstOf(rows) = rows
         /\ \A a \in FirstOf(rows), b \in rows : b <= a => b \in FirstOf(rows)
<1> DEFINE below(a) == {b \in rows : b < a}
<1>1. IsFiniteSet(rows) /\ Cardinality(rows) \in Nat /\ rows \in SUBSET Nat
  BY AccountAssumption, FS_Subset, FS_CardinalityType
<1>2. \A a \in Nat : IsFiniteSet(below(a)) /\ Cardinality(below(a)) \in Nat
  <2> TAKE a \in Nat
  <2>1. below(a) \in SUBSET rows
    OBVIOUS
  <2>2. IsFiniteSet(below(a))
    BY <1>1, <2>1, FS_Subset
  <2> QED
    BY <2>2, FS_CardinalityType
<1>3. FirstOf(rows) = {a \in rows : Cardinality(below(a)) < PageSize}
  BY DEF FirstOf
<1>4. HasMore(rows) => FirstOf(rows) # {}
  <2> SUFFICES ASSUME Cardinality(rows) > PageSize PROVE FirstOf(rows) # {}
    BY DEF HasMore
  <2>1. rows # {}
    BY <1>1, FS_EmptySet, BoundAssumption
  <2>2. PICK a \in rows : \A b \in rows : a <= b
    BY <1>1, <2>1, Smallest
  <2>3. below(a) = {}
    <3>1. \A b \in rows : b \in Nat
      BY <1>1
    <3>2. \A b \in rows : ~(b < a)
      BY <2>2, <3>1
    <3> QED
      BY <3>2
  <2>4. Cardinality(below(a)) = 0
    BY <2>3, FS_EmptySet
  <2> QED
    BY <1>3, <2>4, BoundAssumption
<1>5. ~HasMore(rows) => FirstOf(rows) = rows
  <2> SUFFICES ASSUME ~(Cardinality(rows) > PageSize), NEW a \in rows PROVE Cardinality(below(a)) < PageSize
    BY <1>3 DEF HasMore
  <2>1. below(a) \in SUBSET rows /\ a \notin below(a)
    BY <1>1
  <2>2. Cardinality(below(a)) <= Cardinality(rows) /\ Cardinality(rows) # Cardinality(below(a))
    BY <1>1, <2>1, FS_Subset
  <2>3. a \in Nat /\ Cardinality(below(a)) \in Nat
    BY <1>1, <1>2
  <2> QED
    BY <1>1, <2>2, <2>3, BoundAssumption
<1>6. ASSUME NEW a \in FirstOf(rows), NEW b \in rows, b <= a
      PROVE  b \in FirstOf(rows)
  <2>1. a \in rows /\ Cardinality(below(a)) < PageSize /\ a \in Nat /\ b \in Nat
    BY <1>1, <1>3
  <2>2. below(b) \in SUBSET below(a)
    <3>1. \A c \in rows : c \in Nat
      BY <1>1
    <3>2. \A c \in rows : c < b => c < a
      BY <1>6, <2>1, <3>1
    <3> QED
      BY <3>2
  <2>3. Cardinality(below(b)) <= Cardinality(below(a))
    BY <1>2, <2>1, <2>2, FS_Subset
  <2>4. Cardinality(below(a)) \in Nat /\ Cardinality(below(b)) \in Nat
    BY <1>2, <2>1
  <2> HIDE DEF below
  <2>5. Cardinality(below(b)) < PageSize
    BY <2>1, <2>3, <2>4, BoundAssumption
  <2> QED
    BY <1>3, <2>5
<1> QED
  BY <1>3, <1>4, <1>5, <1>6

-------------------------------------------------------------------------------
(* Steps *)

LEMMA Initially == Init => IInv
<1> SUFFICES ASSUME Init PROVE IInv
  OBVIOUS
<1>1. 0 \in Days
  BY CalendarAssumption DEF Days
<1>2. tick \in Ticks /\ tick = NoTick
  BY <1>1 DEF Init, NoTick, Ticks
<1>3. queue \in [Jobs -> QueueJobs] /\ \A j \in Jobs : queue[j] = NoJob
  <2>1. NoJob \in QueueJobs
    BY BoundAssumption DEF NoJob, QueueJobs
  <2> QED
    BY <2>1 DEF Init
<1>4. fetched \in [Accounts \X Days -> Days \cup {Never}]
  BY DEF Init
<1>5. TypeOK
  BY <1>1, <1>2, <1>3, <1>4, BoundAssumption DEF Init, TypeOK, Ticks, QueueJobs
<1>6. Tries /\ Paging /\ Coverage
  <2>1. Tries
    BY <1>3, BoundAssumption DEF Tries, NoJob
  <2>2. Paging
    <3>1. tick.pc = "idle" /\ tick.day = 0 /\ tick.steady = {} /\ tick.batch = {} /\ today = 0
      BY <1>2 DEF NoTick, Init
    <3> QED
      BY <3>1 DEF Paging
  <2>3. Coverage
    BY <1>2 DEF Coverage, NoTick
  <2> QED
    BY <2>1, <2>2, <2>3
<1>7. Recheck
  <2>1. \A a \in Accounts, d \in Days : Final(a, d) \in Jobs
    BY DEF Final, JobId, Jobs, Modes
  <2> QED
    BY <1>2, <1>3, <2>1, CalendarAssumption DEF Init, Recheck, NoTick, NoJob
<1> QED
  BY <1>5, <1>6, <1>7 DEF IInv

LEMMA FinalIsJob == \A a \in Accounts, d \in Days : Final(a, d) \in Jobs /\ Final(a, d)[1] = a /\ Final(a, d)[2] = d
BY DEF Final, JobId, Jobs, Modes

\* The jobs of a tick are jobs.
LEMMA TickJobs ==
  ASSUME NEW now \in Days, NEW a \in Accounts, NEW d \in Dates(now)
  PROVE  JobId(a, d, Mode(now)) \in Jobs
BY DEF Dates, JobId, Mode, Jobs, Modes

\* A date lies in the month before one first of a month only.
LEMMA OneFirst ==
  ASSUME NEW d \in Days, NEW f \in Firsts, NEW g \in Firsts, d \in Dates(f), d \in Dates(g)
  PROVE  f = g
BY CalendarAssumption DEF Dates, Days

LEMMA NextDayKeeps == IInv /\ NextDay => IInv'
<1> SUFFICES ASSUME IInv, NextDay PROVE IInv'
  OBVIOUS
<1>1. today \in Days /\ tick.day \in Days /\ today' = today + 1 /\ today' \in Days
  BY CalendarAssumption DEF NextDay, IInv, TypeOK, Days
<1>2. UNCHANGED <<eligible, tick, queue, fetched, ticks, changes, faults>>
  BY DEF NextDay
<1>3. TypeOK' /\ Tries'
  BY <1>1, <1>2 DEF IInv, TypeOK, Tries
<1>4. Paging' /\ Coverage'
  BY <1>1, <1>2, CalendarAssumption DEF IInv, Paging, Coverage, Reached, Served, Handled, Behind, Days
<1>5. Recheck'
  <2>1. \A a \in Accounts, d \in Days :
          queue[Final(a, d)].state # "none" \/ Final(a, d) \in tick.batch => \E f \in Firsts : f <= today' /\ d \in Dates(f)
    <3> SUFFICES ASSUME NEW a \in Accounts, NEW d \in Days, queue[Final(a, d)].state # "none" \/ Final(a, d) \in tick.batch
                 PROVE  \E f \in Firsts : f <= today' /\ d \in Dates(f)
      OBVIOUS
    <3>1. PICK f \in Firsts : f <= today /\ d \in Dates(f)
      BY DEF IInv, Recheck
    <3>2. f <= today'
      BY <1>1, <3>1, CalendarAssumption DEF Days
    <3> QED
      BY <3>1, <3>2
  <2>2. \A x \in Accounts \X Days : fetched[x] <= today'
    <3> TAKE x \in Accounts \X Days
    <3>1. fetched[x] \in Int /\ fetched[x] <= today
      BY CalendarAssumption DEF IInv, TypeOK, Recheck, Days
    <3> QED
      BY <1>1, <3>1 DEF Days
  <2> QED
    BY <1>2, <2>1, <2>2 DEF IInv, Recheck
<1> QED
  BY <1>3, <1>4, <1>5 DEF IInv

LEMMA ChangeKeeps ==
  ASSUME IInv, NEW a \in Accounts, Change(a)
  PROVE  IInv'
<1>1. tick \in Ticks
  BY DEF IInv, TypeOK, Ticks
<1>2. /\ tick' \in Ticks /\ tick'.steady = tick.steady \ {a}
      /\ tick'.pc = tick.pc /\ tick'.day = tick.day /\ tick'.cursor = tick.cursor /\ tick'.items = tick.items
      /\ tick'.more = tick.more /\ tick'.batch = tick.batch /\ tick'.seen = tick.seen /\ tick'.dropped = tick.dropped
  BY <1>1 DEF Change, Ticks
<1>3. eligible' \subseteq Accounts /\ eligible \ {a} \subseteq eligible' /\ changes' \in 0..MaxChanges
  BY BoundAssumption DEF Change, IInv, TypeOK
<1>4. UNCHANGED <<today, queue, fetched, ticks, faults>>
  BY DEF Change
<1>5. TypeOK' /\ Tries'
  BY <1>2, <1>3, <1>4 DEF IInv, TypeOK, Tries, Ticks
<1>6. Paging'
  BY <1>2, <1>3, <1>4 DEF IInv, Paging, Behind
<1>7. Coverage'
  BY <1>2, <1>4 DEF IInv, Coverage, Reached, Served, Handled, Behind
<1>8. Recheck'
  BY <1>2, <1>4 DEF IInv, Recheck
<1> QED
  BY <1>5, <1>6, <1>7, <1>8 DEF IInv

LEMMA StartKeeps == IInv /\ Start => IInv'
<1> SUFFICES ASSUME IInv, Start PROVE IInv'
  OBVIOUS
<1>1. today \in Days /\ eligible \subseteq Accounts
  BY DEF IInv, TypeOK
<1>2. /\ tick' \in Ticks /\ tick'.pc = "read" /\ tick'.day = today /\ tick'.steady = eligible
      /\ tick'.cursor = None /\ tick'.batch = {} /\ tick'.seen = {}
  BY <1>1 DEF Start, NoTick, Ticks
<1>3. ticks' \in 0..MaxTicks /\ UNCHANGED <<today, eligible, queue, fetched, changes, faults>>
  BY BoundAssumption DEF Start, IInv, TypeOK
<1>4. TypeOK' /\ Tries'
  BY <1>2, <1>3 DEF IInv, TypeOK, Tries, Ticks
<1>5. Paging' /\ Coverage'
  BY <1>1, <1>2, <1>3 DEF IInv, Paging, Coverage, Reached, Behind, Days
<1>6. Recheck'
  BY <1>2, <1>3 DEF IInv, Recheck
<1> QED
  BY <1>4, <1>5, <1>6 DEF IInv

\* The page is new and names its last account, and every account that was authorised
\* all along is behind it, in it or after it.
LEMMA ReadPageKeeps == IInv /\ ReadPage => IInv'
<1> SUFFICES ASSUME IInv, ReadPage PROVE IInv'
  OBVIOUS
<1> DEFINE rows == Rows(tick.cursor)
           items == FirstOf(rows)
           last == LastOf(items)
<1>1. tick \in Ticks /\ tick.pc = "read" /\ tick.batch = {} /\ tick.cursor \in Accounts \cup {None}
  BY DEF ReadPage, IInv, TypeOK, Ticks, Paging
<1>2. rows \in SUBSET Accounts /\ rows = {a \in eligible : tick.cursor = None \/ a > tick.cursor}
  BY DEF Rows, IInv, TypeOK
<1>3. items \in SUBSET Accounts /\ \A a \in items : a \in rows /\ ~Behind(a)
  <2>1. items \subseteq rows
    BY <1>2, PageOfRows
  <2> HIDE DEF items
  <2> QED
    <3>1. \A a \in rows : a \in Nat /\ (tick.cursor = None \/ (tick.cursor \in Nat /\ a > tick.cursor))
      BY <1>1, <1>2, AccountAssumption
    <3> QED
      BY <1>2, <2>1, <3>1 DEF Behind
<1>4. HasMore(rows) => items # {} /\ last \in items /\ \A b \in items : b <= last
  <2>1. HasMore(rows) => items # {}
    BY <1>2, PageOfRows
  <2> HIDE DEF items
  <2> QED
    BY <1>3, <2>1, LastIsLargest
<1>5. Valid(items, HasMore(rows))
  <2>1. items \cap tick.seen = {}
    BY <1>1, <1>3 DEF IInv, Paging
  <2>2. HasMore(rows) => last # tick.cursor
    BY <1>1, <1>3, <1>4, AccountAssumption DEF Behind
  <2> QED
    BY <1>4, <2>1, <2>2 DEF Valid
<1>6. tick' = [tick EXCEPT !.pc = "add", !.items = items, !.more = HasMore(rows), !.batch = JobsOf(items, tick.day)]
  BY <1>5 DEF ReadPage
<1>7. JobsOf(items, tick.day) \in SUBSET Jobs
  BY <1>1, <1>3, TickJobs DEF JobsOf, Ticks
<1>8. HasMore(rows) \in BOOLEAN
  BY DEF HasMore
<1> DEFINE more == HasMore(rows)
<1> HIDE DEF rows, items, last, more
<1>9. tick' \in Ticks
  BY <1>1, <1>3, <1>6, <1>7, <1>8, Zenon DEF Ticks, more
<1>10. /\ tick'.pc = "add" /\ tick'.items = items /\ (tick'.more <=> more) /\ tick'.batch = JobsOf(items, tick.day)
       /\ tick'.day = tick.day /\ tick'.cursor = tick.cursor
       /\ tick'.seen = tick.seen /\ tick'.steady = tick.steady /\ tick'.dropped = tick.dropped
  BY <1>1, <1>6 DEF Ticks, more
<1>11. UNCHANGED <<today, eligible, queue, fetched, ticks, changes, faults>>
  BY DEF ReadPage
<1>12. TypeOK' /\ Tries'
  BY <1>9, <1>11 DEF IInv, TypeOK, Tries, Ticks
<1>13. Paging'
  BY <1>1, <1>3, <1>4, <1>10, <1>11 DEF IInv, Paging, Behind, last, more
<1>14. Coverage'
  <2> SUFFICES ASSUME NEW a \in tick.steady, Reached(a)' PROVE Served(a)'
    BY <1>10 DEF Coverage
  <2>1. a \in eligible /\ a \in Accounts
    BY DEF IInv, Paging, TypeOK
  <2>2. CASE Behind(a)
    <3>1. Served(a)
      BY <2>2, <1>1 DEF IInv, Coverage, Reached
    <3> QED
      BY <3>1, <1>1, <1>10, <1>11 DEF Served, Handled
  <2>3. CASE ~Behind(a)
    <3>1. a \in rows
      <4>1. a \in Nat /\ (tick.cursor # None => tick.cursor \in Nat)
        BY <2>1, <1>1, AccountAssumption
      <4>2. tick.cursor = None \/ a > tick.cursor
        BY <2>3, <4>1 DEF Behind
      <4> QED
        BY <2>1, <4>2, <1>2
    <3>2. more => a <= last
      BY <2>3, <1>10 DEF Reached, Behind, last
    <3>3. a \in items
      <4>1. CASE more
        <5>1. last \in items /\ a <= last
          BY <4>1, <3>2, <1>4 DEF more
        <5> QED
          BY <5>1, <3>1, <1>2, PageOfRows DEF items
      <4>2. CASE ~more
        BY <4>2, <3>1, <1>2, PageOfRows DEF items, more
      <4> QED
        BY <4>1, <4>2
    <3>4. \A d \in Dates(tick.day) : JobId(a, d, Mode(tick.day)) \in JobsOf(items, tick.day)
      BY <3>3 DEF JobsOf
    <3> QED
      BY <3>4, <1>10 DEF Served, Handled
  <2> QED
    BY <2>2, <2>3
<1>15. Recheck'
  <2>1. ASSUME NEW a \in Accounts, NEW d \in Days, Final(a, d) \in tick'.batch
        PROVE  \E f \in Firsts : f <= today /\ d \in Dates(f)
    <3>1. PICK b \in items, e \in Dates(tick.day) : Final(a, d) = JobId(b, e, Mode(tick.day))
      BY <2>1, <1>10 DEF JobsOf
    <3>2. d = e /\ Mode(tick.day) = "previous_month_final"
      BY <3>1 DEF Final, JobId
    <3>3. tick.day \in Firsts /\ tick.day <= today
      BY <3>2 DEF Mode, IInv, Paging
    <3> QED
      BY <3>1, <3>2, <3>3
  <2> QED
    BY <2>1, <1>11 DEF IInv, Recheck
<1> QED
  BY <1>12, <1>13, <1>14, <1>15 DEF IInv

\* A job leaves the batch into the queue, or is refused.
LEMMA AddKeeps ==
  ASSUME IInv, NEW j \in Jobs, Add(j) \/ AddFails(j)
  PROVE  IInv'
<1>1. tick \in Ticks /\ tick.pc = "add" /\ j \in tick.batch
  BY DEF Add, AddFails, IInv, TypeOK, Ticks
<1>2. /\ tick' \in Ticks /\ tick'.batch = tick.batch \ {j} /\ tick.dropped \subseteq tick'.dropped
      /\ tick'.pc = "add" /\ tick'.day = tick.day /\ tick'.cursor = tick.cursor /\ tick'.items = tick.items
      /\ tick'.more = tick.more /\ tick'.seen = tick.seen /\ tick'.steady = tick.steady
  <2>1. CASE Add(j)
    BY <1>1, <2>1 DEF Add, Ticks
  <2>2. CASE AddFails(j)
    BY <1>1, <2>2 DEF AddFails, Ticks
  <2> QED
    BY <2>1, <2>2
<1>3. queue \in [Jobs -> QueueJobs]
  BY DEF IInv, TypeOK, QueueJobs
<1>4. /\ queue' \in [Jobs -> QueueJobs]
      /\ \A k \in Jobs : /\ queue'[k].stored = queue[k].stored /\ queue'[k].tries = queue[k].tries
                         /\ queue[k].state # "none" => queue'[k].state = queue[k].state
                         /\ queue[k].state = "none" => queue'[k].state \in {"none", "waiting"} /\ (queue'[k].state = "waiting" => k = j)
  <2>1. CASE queue' = [queue EXCEPT ![j].state = "waiting"] /\ queue[j].state = "none"
    BY <2>1, <1>3 DEF QueueJobs
  <2>2. CASE queue' = queue
    BY <2>2, <1>3 DEF QueueJobs
  <2> QED
    BY <2>1, <2>2 DEF Add, AddFails
<1>5. j \in tick'.dropped \/ queue'[j].state # "none"
  <2>1. CASE Add(j)
    BY <2>1, <1>3 DEF Add, QueueJobs
  <2>2. CASE AddFails(j)
    BY <2>2, <1>1 DEF AddFails, Ticks
  <2> QED
    BY <2>1, <2>2
<1>6. faults' \in 0..MaxFaults /\ UNCHANGED <<today, eligible, fetched, ticks, changes>>
  BY BoundAssumption DEF Add, AddFails, IInv, TypeOK
<1>7. TypeOK'
  BY <1>2, <1>4, <1>6 DEF IInv, TypeOK, Ticks, QueueJobs
<1>8. Paging'
  BY <1>1, <1>2, <1>6 DEF IInv, Paging, Behind
<1>9. Coverage'
  <2>1. \A k \in Jobs : Handled(k) => Handled(k)'
    BY <1>2, <1>4, <1>5 DEF Handled
  <2>2. \A a \in tick.steady, d \in Dates(tick.day) : JobId(a, d, Mode(tick.day)) \in Jobs
    BY <1>1, TickJobs DEF Ticks
  <2>3. \A a \in tick.steady : Served(a) => Served(a)'
    BY <2>1, <2>2, <1>2 DEF Served
  <2>4. \A a \in tick.steady : Reached(a)' => Reached(a)
    BY <1>1, <1>2 DEF Reached, Behind
  <2> QED
    BY <2>3, <2>4, <1>2 DEF IInv, Coverage
<1>10. Tries'
  BY <1>4 DEF IInv, Tries
<1>11. Recheck'
  BY <1>1, <1>2, <1>4, <1>6, FinalIsJob DEF IInv, Recheck
<1> QED
  BY <1>7, <1>8, <1>9, <1>10, <1>11 DEF IInv

LEMMA NextPageKeeps == IInv /\ NextPage => IInv'
<1> SUFFICES ASSUME IInv, NextPage PROVE IInv'
  OBVIOUS
<1> DEFINE last == LastOf(tick.items)
<1>1. tick \in Ticks /\ tick.pc = "add" /\ tick.batch = {} /\ (tick.more => last \in tick.items /\ \A a \in tick.items : a <= last)
  BY DEF NextPage, IInv, TypeOK, Ticks, Paging
<1>2. tick.more => last \in Accounts
  BY <1>1 DEF Ticks
<1> HIDE DEF last
<1>3. tick' = [tick EXCEPT !.pc = IF tick.more THEN "read" ELSE "ended", !.cursor = IF tick.more THEN last ELSE @,
                           !.seen = @ \cup tick.items]
  BY DEF NextPage, last
<1>4. /\ tick' \in Ticks /\ tick'.batch = {} /\ tick'.dropped = tick.dropped /\ tick'.day = tick.day
      /\ tick'.steady = tick.steady /\ tick'.seen = tick.seen \cup tick.items
      /\ tick'.pc = IF tick.more THEN "read" ELSE "ended"
      /\ tick.more => tick'.cursor = last
  <2>1. CASE tick.more
    BY <2>1, <1>1, <1>2, <1>3 DEF Ticks
  <2>2. CASE ~tick.more
    BY <2>2, <1>1, <1>3 DEF Ticks
  <2> QED
    BY <2>1, <2>2
<1>5. UNCHANGED <<today, eligible, queue, fetched, ticks, changes, faults>>
  BY DEF NextPage
<1>6. TypeOK' /\ Tries'
  BY <1>4, <1>5 DEF IInv, TypeOK, Tries, Ticks
<1>7. Paging'
  <2>1. ASSUME tick.more, NEW a \in tick.seen \cup tick.items
        PROVE  last # None /\ a <= last
    <3>1. last \in Nat /\ a \in Nat /\ ~Behind(last) /\ (a \in tick.seen => Behind(a))
      BY <2>1, <1>1, <1>2, AccountAssumption DEF IInv, Paging, Ticks
    <3>2. tick.cursor # None => tick.cursor \in Nat
      BY <1>1, AccountAssumption DEF Ticks
    <3>3. CASE a \in tick.items
      BY <3>1, <3>3, <2>1, <1>1, AccountAssumption
    <3>4. CASE a \in tick.seen
      BY <3>1, <3>2, <3>4, AccountAssumption DEF Behind
    <3> QED
      BY <3>3, <3>4
  <2> QED
    BY <2>1, <1>4, <1>5 DEF IInv, Paging, Behind
<1>8. Coverage'
  <2> SUFFICES ASSUME NEW a \in tick.steady, Reached(a)' PROVE Served(a)'
    BY <1>4 DEF Coverage
  <2>1. Reached(a)
    BY <1>1, <1>4 DEF Reached, Behind, last
  <2>2. Served(a)
    BY <2>1 DEF IInv, Coverage
  <2> QED
    BY <2>2, <1>1, <1>4, <1>5 DEF Served, Handled
<1>9. Recheck'
  BY <1>4, <1>5 DEF IInv, Recheck
<1> QED
  BY <1>6, <1>7, <1>8, <1>9 DEF IInv

\* A job that is in the queue goes on, and has its metrics stored or not.
LEMMA WorkKeeps ==
  ASSUME IInv, NEW j \in Jobs, NEW r \in QueueJobs,
         queue' = [queue EXCEPT ![j] = r], queue[j].state # "none", r.state # "none",
         r.state = "waiting" => r.tries < MaxAttempts,
         r.state = "done" => r.stored,
         fetched' \in [Accounts \X Days -> Days \cup {Never}],
         \A x \in Accounts \X Days : fetched'[x] <= today /\ fetched[x] <= fetched'[x],
         r.stored => queue[j].stored \/ fetched'[<<j[1], j[2]>>] = today,
         faults' \in 0..MaxFaults,
         UNCHANGED <<today, eligible, tick, ticks, changes>>
  PROVE  IInv'
<1>1. queue' \in [Jobs -> QueueJobs] /\ queue'[j] = r /\ \A k \in Jobs \ {j} : queue'[k] = queue[k]
  BY DEF IInv, TypeOK, QueueJobs
<1>2. TypeOK'
  BY <1>1 DEF IInv, TypeOK, QueueJobs
<1>3. Tries' /\ Paging'
  BY <1>1 DEF IInv, Tries, Paging, Behind
<1>4. Coverage'
  <2>1. \A k \in Jobs : Handled(k) => Handled(k)'
    BY <1>1 DEF Handled
  <2>2. \A a \in tick.steady, d \in Dates(tick.day) : JobId(a, d, Mode(tick.day)) \in Jobs
    BY TickJobs DEF IInv, TypeOK
  <2>3. \A a \in tick.steady : Served(a) => Served(a)'
    BY <2>1, <2>2 DEF Served
  <2> QED
    BY <2>3 DEF IInv, Coverage, Reached, Behind
<1>5. Recheck'
  <2>1. ASSUME NEW a \in Accounts, NEW d \in Days
        PROVE  queue'[Final(a, d)].state # "none" \/ Final(a, d) \in tick.batch => \E f \in Firsts : f <= today /\ d \in Dates(f)
    <3>1. queue'[Final(a, d)].state # "none" => queue[Final(a, d)].state # "none"
      BY <1>1, FinalIsJob
    <3> QED
      BY <3>1 DEF IInv, Recheck
  <2>2. ASSUME NEW a \in Accounts, NEW d \in Days, queue'[Final(a, d)].stored, NEW f \in Firsts, d \in Dates(f)
        PROVE  fetched'[<<a, d>>] >= f
    <3>1. <<a, d>> \in Accounts \X Days /\ fetched[<<a, d>>] <= fetched'[<<a, d>>]
          /\ fetched[<<a, d>>] \in Int /\ fetched'[<<a, d>>] \in Int /\ f \in Int
      BY CalendarAssumption DEF IInv, TypeOK, Days
    <3>2. CASE queue[Final(a, d)].stored
      <4>1. fetched[<<a, d>>] >= f
        BY <2>2, <3>2 DEF IInv, Recheck
      <4> QED
        BY <3>1, <4>1
    <3>3. CASE ~queue[Final(a, d)].stored
      <4>1. Final(a, d) = j /\ r.stored
        BY <2>2, <3>3, <1>1, FinalIsJob
      <4>2. j[1] = a /\ j[2] = d /\ fetched'[<<a, d>>] = today
        BY <4>1, <3>3, FinalIsJob
      <4>3. PICK g \in Firsts : g <= today /\ d \in Dates(g)
        BY <4>1 DEF IInv, Recheck
      <4>4. g = f
        BY <2>2, <4>3, OneFirst
      <4> QED
        BY <4>2, <4>3, <4>4, <3>1
    <3> QED
      BY <3>2, <3>3
  <2>3. \A k \in Jobs : queue'[k].state = "done" => queue'[k].stored
    BY <1>1 DEF IInv, Recheck
  <2> QED
    BY <2>1, <2>2, <2>3 DEF Recheck
<1> QED
  BY <1>2, <1>3, <1>4, <1>5 DEF IInv

\* What becomes of a job whose attempt fails.
LEMMA Retried ==
  ASSUME NEW r \in QueueJobs
  PROVE  /\ AfterThrow(r) \in QueueJobs /\ AfterThrow(r).stored = r.stored
         /\ AfterThrow(r).state \in {"waiting", "failed"}
         /\ AfterThrow(r).state = "waiting" => AfterThrow(r).tries < MaxAttempts
BY DEF AfterThrow, QueueJobs

LEMMA WorkerKeeps ==
  ASSUME IInv, NEW j \in Jobs, Take(j) \/ Store(j) \/ Complete(j) \/ Fails(j)
  PROVE  IInv'
<1>1. queue[j] \in QueueJobs
  BY DEF IInv, TypeOK, QueueJobs
<1>2. \A x \in Accounts \X Days : fetched[x] <= today /\ fetched[x] \in Int
  BY CalendarAssumption DEF IInv, TypeOK, Recheck, Days
<1>3. fetched \in [Accounts \X Days -> Days \cup {Never}] /\ faults \in 0..MaxFaults /\ today \in Days
  BY DEF IInv, TypeOK
<1>4. CASE Take(j)
  <2> DEFINE r == [queue[j] EXCEPT !.state = "active", !.tries = @ + 1]
  <2>1. queue[j].state = "waiting" /\ queue[j].tries < MaxAttempts
    BY <1>4 DEF Take, IInv, Tries
  <2>2. r \in QueueJobs /\ r.state = "active" /\ r.stored = queue[j].stored
    <3>1. queue[j].tries \in 0..MaxAttempts /\ queue[j].tries + 1 \in 0..MaxAttempts
      BY <1>1, <2>1, BoundAssumption DEF QueueJobs
    <3> QED
      BY <1>1, <3>1 DEF QueueJobs
  <2>3. PICK q \in {r, AfterThrow(r)} : queue' = [queue EXCEPT ![j] = q]
    BY <1>4 DEF Take, Become
  <2> HIDE DEF r
  <2>4. q \in QueueJobs /\ q.state \in {"active", "waiting", "failed"} /\ q.stored = queue[j].stored
        /\ (q.state = "waiting" => q.tries < MaxAttempts)
    BY <2>2, <2>3, Retried
  <2>5. UNCHANGED <<today, eligible, tick, fetched, ticks, changes, faults>>
    BY <1>4 DEF Take
  <2>6. \A x \in Accounts \X Days : fetched'[x] <= today /\ fetched[x] <= fetched'[x]
    BY <1>2, <2>5
  <2> QED
    BY <1>3, <2>1, <2>3, <2>4, <2>5, <2>6, WorkKeeps
<1>5. CASE Store(j)
  <2> DEFINE q == [queue[j] EXCEPT !.stored = TRUE]
             x == <<j[1], j[2]>>
  <2>1. queue' = [queue EXCEPT ![j] = q] /\ queue[j].state = "active"
    BY <1>5 DEF Store, Become
  <2>2. q \in QueueJobs /\ q.state = "active"
    BY <1>1, <2>1 DEF QueueJobs
  <2>3. x \in Accounts \X Days
    BY DEF Jobs
  <2>4. fetched' = [fetched EXCEPT ![x] = today]
    BY <1>5 DEF Store
  <2> HIDE DEF x
  <2>5. fetched' \in [Accounts \X Days -> Days \cup {Never}] /\ fetched'[x] = today
    BY <1>3, <2>3, <2>4
  <2>6. \A y \in Accounts \X Days : fetched'[y] <= today /\ fetched[y] <= fetched'[y]
    BY <1>2, <1>3, <2>3, <2>4 DEF Days
  <2>7. UNCHANGED <<today, eligible, tick, ticks, changes, faults>>
    BY <1>5 DEF Store
  <2> HIDE DEF q
  <2>8. fetched'[<<j[1], j[2]>>] = today
    BY <2>5 DEF x
  <2> QED
    BY <1>3, <2>1, <2>2, <2>5, <2>6, <2>7, <2>8, WorkKeeps
<1>6. CASE Complete(j)
  <2> DEFINE q == [queue[j] EXCEPT !.state = "done"]
  <2>1. queue' = [queue EXCEPT ![j] = q] /\ queue[j].state = "active" /\ queue[j].stored
    BY <1>6 DEF Complete, Become
  <2>2. q \in QueueJobs /\ q.state = "done" /\ q.stored
    BY <1>1, <2>1 DEF QueueJobs
  <2>3. UNCHANGED <<today, eligible, tick, fetched, ticks, changes, faults>>
    BY <1>6 DEF Complete
  <2>4. \A x \in Accounts \X Days : fetched'[x] <= today /\ fetched[x] <= fetched'[x]
    BY <1>2, <2>3
  <2> HIDE DEF q
  <2> QED
    BY <1>3, <2>1, <2>2, <2>3, <2>4, WorkKeeps
<1>7. CASE Fails(j)
  <2>1. PICK q \in {AfterThrow(queue[j]), [queue[j] EXCEPT !.state = "failed"]} : queue' = [queue EXCEPT ![j] = q]
    BY <1>7 DEF Fails, Become
  <2>2. [queue[j] EXCEPT !.state = "failed"] \in QueueJobs /\ [queue[j] EXCEPT !.state = "failed"].state = "failed"
        /\ [queue[j] EXCEPT !.state = "failed"].stored = queue[j].stored
    BY <1>1 DEF QueueJobs
  <2>3. q \in QueueJobs /\ q.state \in {"waiting", "failed"} /\ q.stored = queue[j].stored
        /\ (q.state = "waiting" => q.tries < MaxAttempts)
    BY <1>1, <2>1, <2>2, Retried
  <2>4. queue[j].state = "active" /\ UNCHANGED <<today, eligible, tick, fetched, ticks, changes>> /\ faults' \in 0..MaxFaults
    BY <1>3, <1>7, BoundAssumption DEF Fails
  <2>5. \A x \in Accounts \X Days : fetched'[x] <= today /\ fetched[x] <= fetched'[x]
    BY <1>2, <2>4
  <2> QED
    BY <1>3, <2>1, <2>3, <2>4, <2>5, WorkKeeps
<1> QED
  BY <1>4, <1>5, <1>6, <1>7

LEMMA Inductive == IInv /\ [Next]_vars => IInv'
<1> SUFFICES ASSUME IInv, [Next]_vars PROVE IInv'
  OBVIOUS
<1>1. CASE UNCHANGED vars
  BY <1>1 DEF vars, IInv, TypeOK, Tries, Paging, Coverage, Recheck, Reached, Served, Handled, Behind
<1>2. CASE \E a \in Accounts : Change(a)
  BY <1>2, ChangeKeeps
<1>3. CASE \E j \in Jobs : Add(j) \/ AddFails(j) \/ Take(j) \/ Store(j) \/ Complete(j) \/ Fails(j)
  BY <1>3, AddKeeps, WorkerKeeps
<1> QED
  BY <1>1, <1>2, <1>3, NextDayKeeps, StartKeeps, ReadPageKeeps, NextPageKeeps DEF Next

\* The invariant of the pages, the queue and the dates asked for holds always.
THEOREM Invariance == Spec => []IInv
BY Initially, Inductive, PTL DEF Spec

\* Every variable keeps its type: no rolling job is tried more often than its limit.
THEOREM TypeCorrect == Spec => []TypeOK
<1>1. IInv => TypeOK
  BY DEF IInv
<1> QED
  BY <1>1, Invariance, PTL

\* Whatever accounts come and go while a tick reads its pages, every account that was
\* authorised all along gets a job for every date of the window, unless the queue
\* refused it (enqueueRollingSyncTick, sync.scheduler.ts).
THEOREM Covers == Spec => []TickCovers
<1>1. IInv => TickCovers
  BY DEF IInv, TickCovers, Coverage, Reached, Served, Handled, Paging
<1> QED
  BY <1>1, Invariance, PTL

\* No change of the accounts between two pages makes validatePage reject one.
THEOREM PagesAccepted == Spec => []NeverRejected
<1>1. IInv => NeverRejected
  BY DEF IInv, NeverRejected, Paging
<1> QED
  BY <1>1, Invariance, PTL

\* Once the jobs of the tick of the first of a month are done, every date of the month
\* before was asked for on that day or later.
THEOREM Rechecked == Spec => []MonthRechecked
<1>1. IInv => MonthRechecked
  <2> SUFFICES ASSUME IInv, tick.pc = "ended", tick.day \in Firsts, NEW a \in tick.steady, NEW d \in Dates(tick.day)
               PROVE  Refetched(a, d)
    BY DEF MonthRechecked
  <2>1. a \in Accounts /\ d \in Days /\ tick.batch = {}
    BY DEF IInv, TypeOK, Dates, Paging
  <2>2. JobId(a, d, Mode(tick.day)) = Final(a, d)
    BY DEF Mode, Final, JobId
  <2>3. Final(a, d) \in tick.dropped \/ queue[Final(a, d)].state # "none"
    BY <2>1, <2>2 DEF IInv, Coverage, Reached, Served, Handled
  <2>4. queue[Final(a, d)].state = "done" => fetched[<<a, d>>] >= tick.day
    BY <2>1, FinalIsJob DEF IInv, Recheck
  <2>5. queue[Final(a, d)].state \in {"none", "waiting", "active", "done", "failed"}
    BY <2>1, FinalIsJob DEF IInv, TypeOK
  <2> QED
    BY <2>2, <2>3, <2>4, <2>5 DEF Refetched
<1> QED
  BY <1>1, Invariance, PTL
=============================================================================
