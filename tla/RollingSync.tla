------------------------------ MODULE RollingSync ------------------------------
(* The rolling synchronisation of official accounts: a tick of the scheduler    *)
(* (sync.scheduler.ts) reads the authorised accounts page by page and queues a   *)
(* job for every account and every date of the window of that day               *)
(* (rolling-sync-window.ts); the sync worker asks the platform for that date.    *)
(* Accounts come and go while a tick runs, and a job id is only queued once.     *)
EXTENDS Integers, FiniteSets

CONSTANTS
  Accounts,     \* the accounts, by id: pages are read in the order of the ids
  LastDay,      \* bound: the last day, fewer days than a completed job is kept (35)
  Firsts,       \* the days that begin a month
  PageSize,     \* accounts of a page (100 in the code)
  None,         \* no cursor
  Never,        \* a date nobody asked the platform for
  MaxAttempts,  \* attempts of a rolling job (6 in the code)
  MaxTicks,     \* bound: ticks
  MaxChanges,   \* bound: accounts authorised or revoked
  MaxFaults     \* bound: failing calls, stalled jobs

Days == 0..LastDay

ASSUME AccountAssumption == Accounts \subseteq Nat /\ IsFiniteSet(Accounts) /\ None \notin Nat
ASSUME CalendarAssumption == LastDay \in Nat /\ Firsts \subseteq Days /\ Never \in Int /\ Never < 0
ASSUME BoundAssumption == /\ PageSize \in Nat \ {0} /\ MaxAttempts \in Nat \ {0} /\ MaxTicks \in Nat
                          /\ MaxChanges \in Nat /\ MaxFaults \in Nat

VARIABLES
  today,     \* the day in Shanghai
  eligible,  \* accounts that are official, not revoked, with a credential and capabilities
  tick,      \* the running invocation of enqueueRollingSyncTick, or the last one
  queue,     \* the sync queue: the job of every id, and whether its metrics are stored
  fetched,   \* the day the platform was last asked for a date of an account
  ticks, changes, faults

vars == <<today, eligible, tick, queue, fetched, ticks, changes, faults>>

-------------------------------------------------------------------------------
Modes == {"month_to_date", "previous_month_final"}

Jobs == Accounts \X Days \X Modes

Mode(now) == IF now \in Firsts THEN "previous_month_final" ELSE "month_to_date"

\* The days of the month so far, or of the month before on the first of a month.
Dates(now) == {d \in Days : d < now /\ \A f \in Firsts : f <= d \/ now <= f}

JobIdOfDate(a, d, m) == <<a, d, "month_to_date">>
JobId(a, d, m) == <<a, d, m>>

JobsOf(items, now) == {JobId(a, d, Mode(now)) : a \in items, d \in Dates(now)}

NoJob == [state |-> "none", tries |-> 0, stored |-> FALSE]

\* items and more: the page whose jobs are being queued; steady: the accounts
\* eligible all along; dropped: the jobs the queue refused.
NoTick == [pc |-> "idle", day |-> 0, cursor |-> None, items |-> {}, more |-> FALSE, batch |-> {},
           seen |-> {}, steady |-> {}, dropped |-> {}]

TypeOK ==
  /\ today \in Days /\ eligible \subseteq Accounts
  /\ tick \in [pc : {"idle", "read", "add", "ended", "rejected"}, day : Days, cursor : Accounts \cup {None},
               items : SUBSET Accounts, more : BOOLEAN, batch : SUBSET Jobs,
               seen : SUBSET Accounts, steady : SUBSET Accounts, dropped : SUBSET Jobs]
  /\ queue \in [Jobs -> [state : {"none", "waiting", "active", "done", "failed"},
                         tries : 0..MaxAttempts, stored : BOOLEAN]]
  /\ fetched \in [Accounts \X Days -> Days \cup {Never}]
  /\ ticks \in 0..MaxTicks /\ changes \in 0..MaxChanges /\ faults \in 0..MaxFaults

Init ==
  /\ today = 0 /\ eligible \in SUBSET Accounts
  /\ tick = NoTick
  /\ queue = [j \in Jobs |-> NoJob]
  /\ fetched = [x \in Accounts \X Days |-> Never]
  /\ ticks = 0 /\ changes = 0 /\ faults = 0

NextDay == today < LastDay /\ today' = today + 1 /\ UNCHANGED <<eligible, tick, queue, fetched, ticks, changes, faults>>

\* An account is authorised, revoked, or its credential expires.
Change(a) ==
  /\ changes < MaxChanges /\ changes' = changes + 1
  /\ eligible' = IF a \in eligible THEN eligible \ {a} ELSE eligible \cup {a}
  /\ tick' = [tick EXCEPT !.steady = @ \ {a}]
  /\ UNCHANGED <<today, queue, fetched, ticks, faults>>

-------------------------------------------------------------------------------
(* A tick *)

Start ==
  /\ tick.pc \notin {"read", "add"}
  /\ ticks < MaxTicks /\ ticks' = ticks + 1
  /\ tick' = [NoTick EXCEPT !.pc = "read", !.day = today, !.steady = eligible]
  /\ UNCHANGED <<today, eligible, queue, fetched, changes, faults>>

RowsFromCursor(cursor) == {a \in eligible : cursor = None \/ a >= cursor}
RowsByOffset(cursor) == {a \in eligible : Cardinality({b \in eligible : b < a}) >= Cardinality(tick.seen)}
Rows(cursor) == {a \in eligible : cursor = None \/ a > cursor}

FirstOf(rows) == {a \in rows : Cardinality({b \in rows : b < a}) < PageSize}

HasMore(rows) == Cardinality(rows) > PageSize

LastOf(items) == CHOOSE a \in items : \A b \in items : b <= a

\* A page must be new, and one that announces another must name its last account.
Valid(items, more) ==
  /\ items \cap tick.seen = {}
  /\ more => items # {} /\ LastOf(items) # tick.cursor /\ LastOf(items) \notin tick.seen

ReadPage ==
  /\ tick.pc = "read"
  /\ LET rows == Rows(tick.cursor)
         items == FirstOf(rows)
     IN tick' = IF Valid(items, HasMore(rows))
                THEN [tick EXCEPT !.pc = "add", !.items = items, !.more = HasMore(rows), !.batch = JobsOf(items, tick.day)]
                ELSE [tick EXCEPT !.pc = "rejected"]
  /\ UNCHANGED <<today, eligible, queue, fetched, ticks, changes, faults>>

\* A job id the queue still knows is not added again, whatever became of the job.
Add(j) ==
  /\ tick.pc = "add" /\ j \in tick.batch
  /\ tick' = [tick EXCEPT !.batch = @ \ {j}]
  /\ queue' = IF queue[j].state = "none" THEN [queue EXCEPT ![j].state = "waiting"] ELSE queue
  /\ UNCHANGED <<today, eligible, fetched, ticks, changes, faults>>

\* The failure is logged and the other jobs are queued all the same.
AddFails(j) ==
  /\ tick.pc = "add" /\ j \in tick.batch
  /\ faults < MaxFaults /\ faults' = faults + 1
  /\ tick' = [tick EXCEPT !.batch = @ \ {j}, !.dropped = @ \cup {j}]
  /\ UNCHANGED <<today, eligible, queue, fetched, ticks, changes>>

NextPage ==
  /\ tick.pc = "add" /\ tick.batch = {}
  /\ tick' = [tick EXCEPT !.pc = IF tick.more THEN "read" ELSE "ended",
                          !.cursor = IF tick.more THEN LastOf(tick.items) ELSE @,
                          !.seen = @ \cup tick.items]
  /\ UNCHANGED <<today, eligible, queue, fetched, ticks, changes, faults>>

-------------------------------------------------------------------------------
(* The sync worker on a rolling job *)

Become(j, r) == queue' = [queue EXCEPT ![j] = r]

AfterThrow(r) == [r EXCEPT !.state = IF r.tries < MaxAttempts THEN "waiting" ELSE "failed"]

\* runAccountSync asks first whether the account is still authorised.
Take(j) ==
  /\ queue[j].state = "waiting"
  /\ LET r == [queue[j] EXCEPT !.state = "active", !.tries = @ + 1]
     IN Become(j, IF j[1] \in eligible THEN r ELSE AfterThrow(r))
  /\ UNCHANGED <<today, eligible, tick, fetched, ticks, changes, faults>>

\* A run that finds the metrics of its job stored does not ask for them again.
Store(j) ==
  /\ queue[j].state = "active" /\ ~queue[j].stored
  /\ Become(j, [queue[j] EXCEPT !.stored = TRUE])
  /\ fetched' = [fetched EXCEPT ![<<j[1], j[2]>>] = today]
  /\ UNCHANGED <<today, eligible, tick, ticks, changes, faults>>

Complete(j) ==
  /\ queue[j].state = "active" /\ queue[j].stored
  /\ Become(j, [queue[j] EXCEPT !.state = "done"])
  /\ UNCHANGED <<today, eligible, tick, fetched, ticks, changes, faults>>

\* The platform refuses the authorisation (no further attempt), another call fails or the answer is not official.
Fails(j) ==
  /\ queue[j].state = "active"
  /\ faults < MaxFaults /\ faults' = faults + 1
  /\ Become(j, AfterThrow(queue[j])) \/ Become(j, [queue[j] EXCEPT !.state = "failed"])
  /\ UNCHANGED <<today, eligible, tick, fetched, ticks, changes>>

Next ==
  \/ NextDay \/ Start \/ ReadPage \/ NextPage
  \/ \E a \in Accounts : Change(a)
  \/ \E j \in Jobs : Add(j) \/ AddFails(j) \/ Take(j) \/ Store(j) \/ Complete(j) \/ Fails(j)

Spec == Init /\ [][Next]_vars

-------------------------------------------------------------------------------
(* Properties *)

\* A tick that returns has queued every date of its window for every account
\* that was authorised all along, however the accounts came and went between
\* two pages; only jobs the queue refused are missing.
TickCovers ==
  tick.pc = "ended" =>
    \A a \in tick.steady, d \in Dates(tick.day) :
      LET j == JobId(a, d, Mode(tick.day)) IN j \in tick.dropped \/ queue[j].state # "none"

\* The checks of validatePage never stop a tick: accounts that come and go
\* between two pages make no page repeat an account or a cursor.
NeverRejected == tick.pc # "rejected"

Refetched(a, d) ==
  LET j == JobId(a, d, Mode(tick.day))
  IN j \in tick.dropped \/ queue[j].state \in {"waiting", "active", "failed"} \/ fetched[<<a, d>>] >= tick.day

\* The tick of the first of a month has every date of the month before asked
\* for once more, whatever the daily ticks have asked for already.
MonthRechecked ==
  tick.pc = "ended" /\ tick.day \in Firsts => \A a \in tick.steady, d \in Dates(tick.day) : Refetched(a, d)

\* The design asks for the same of every tick. It fails: the job of a date keeps
\* its id from one day to the next, and a completed job is kept for 35 days.
DailyRefetch == tick.pc = "ended" => \A a \in tick.steady, d \in Dates(tick.day) : Refetched(a, d)

\* A later tick may try a failed job again. It fails: failed jobs keep their ids.
FailedIsRetried ==
  [][tick.pc = "add" /\ tick'.pc = "ended" =>
       \A a \in tick.steady, d \in Dates(tick.day) : queue[JobId(a, d, Mode(tick.day))].state # "failed"]_vars
=============================================================================
