---------------------------- MODULE MetricSeries ----------------------------
(***************************************************************************)
(* What one period shows of a cumulative counter of one note: the card,    *)
(* the trend and the daily rows of the dashboard (dashboard.service.ts)    *)
(* and the metric of a report (report.service.ts), all computed from the   *)
(* same active snapshots while imports, corrections and backfills add to   *)
(* them in any order.  Time is counted in instants, PerDay to a day; the   *)
(* code's instant is a millisecond.  MSInit, MSNext and MSSpec are named   *)
(* so that MetricProofs can extend MetricEvidence as well.                 *)
(***************************************************************************)
EXTENDS Integers, FiniteSetsExt

CONSTANTS
  PerDay,   \* instants of a day
  Earlier,  \* bound: instants of the day before the period
  DayCount, \* days of the period
  MaxValue  \* bound: the largest count observed

ASSUME PeriodAssumption == {PerDay, DayCount, MaxValue} \subseteq Nat \ {0} /\ Earlier \in 0..PerDay

Days == 1..DayCount
FirstOf(d) == d * PerDay
LastOf(d) == FirstOf(d + 1) - 1
DayOf(t) == t \div PerDay
Start == FirstOf(1)
End == LastOf(DayCount)
Instants == Start - Earlier..End
Never == End + 1

Absent == -2
NotProvided == -1
Nothing == -1  \* a null of the dashboard or of a report

VARIABLES
  captured,  \* the active snapshot of every instant
  opens,     \* when the metric was first defined
  cut,       \* when another definition of the same aggregation took over, or Never
  published, \* when the note was published
  imported   \* stored by an import, which marks a zero as such, and not by saveMetrics

chosen == <<opens, cut, published, imported>>
msVars == <<captured, chosen>>

MSTypeOK == /\ captured \in [Instants -> {Absent, NotProvided} \cup 0..MaxValue]
            /\ \A t \in Instants : captured[t] # Absent => t >= opens /\ t >= published
            /\ opens \in Instants /\ cut \in opens + 1..Never /\ published \in Instants /\ imported \in BOOLEAN

MSInit == /\ captured = [t \in Instants |-> Absent]
          /\ opens \in Instants /\ cut \in opens + 1..Never /\ published \in Instants /\ imported \in BOOLEAN

\* A capture of the time, or the next revision of one.
Observe(t, v) == /\ t >= opens /\ t >= published /\ captured' = [captured EXCEPT ![t] = v]
                 /\ UNCHANGED chosen

\* What saveMetrics stores is always a number.
Observable == IF imported THEN {NotProvided} \cup 0..MaxValue ELSE 0..MaxValue

MSNext == \E t \in Instants, v \in Observable : Observe(t, v)
MSSpec == MSInit /\ [][MSNext]_msVars

---------------------------------------------------------------------------
(* aggregateMetricSeries, cumulative_delta.                                *)

\* Mutant: a counter that stands still counts as reset.
GainStrict(before, after) == IF after > before THEN after - before ELSE after

Gain(before, after) == IF after >= before THEN after - before ELSE after

Before(T, t) == {u \in T : u < t}
Gains(T) == MapThenSumSet(LAMBDA t : IF Before(T, t) = {} THEN 0 ELSE Gain(captured[Max(Before(T, t))], captured[t]), T)
Aggregate(T) == IF Cardinality(T) < 2 THEN Nothing ELSE Gains(T)
FromZero(T) == IF T = {} THEN Nothing ELSE captured[Min(T)] + Gains(T)

---------------------------------------------------------------------------
(* The evidence: every definition that meets the period, its snapshots of  *)
(* the period and the last one before it.                                  *)

Segments == {seg \in {[from |-> opens, to |-> cut], [from |-> cut, to |-> Never]} :
               seg.from < seg.to /\ seg.from <= End /\ seg.to > Start}
LaterOf(a, b) == IF a > b THEN a ELSE b

WithBaseline(T) == LET earlier == {t \in T : t < Start} IN
                   (T \ earlier) \cup (IF earlier = {} THEN {} ELSE {Max(earlier)})
Snapshots(seg) == {t \in Instants : captured[t] # Absent /\ seg.from <= t /\ t < seg.to}
Usable(t) == captured[t] >= 0

---------------------------------------------------------------------------
(* seriesDeltas and aggregate of the dashboard.                            *)

UpTo(T, start) == {t \in T : t <= start}

\* Mutant: only what lies inside is summed.
InsideOnly(baseline, inside) == inside

Sequence(baseline, inside) == {baseline} \cup inside

SegmentDelta(seg, start, cutoff) ==
  LET items == {t \in WithBaseline(Snapshots(seg)) : t <= cutoff}
      from == LaterOf(seg.from, start)
      to == IF seg.to <= cutoff THEN seg.to - 1 ELSE cutoff
      baselines == UpTo(items, from)
      ends == {t \in items : from <= t /\ t <= to}
      inside == {t \in ends : t > from}
  IN IF ends = {} THEN Nothing
     ELSE IF baselines = {}
     THEN IF published < from \/ published > to \/ \E t \in inside : ~Usable(t) THEN Nothing
          ELSE FromZero(inside)
     ELSE LET sequence == Sequence(Max(baselines), inside) IN
          IF \/ seg.from > start /\ Max(baselines) # from
             \/ seg.to <= cutoff /\ Max(ends) # to
             \/ \E t \in sequence : ~Usable(t)
          THEN Nothing ELSE Aggregate(sequence)

\* Segments without a snapshot up to the cutoff have no group.
Value(start, cutoff) ==
  LET groups == {seg \in Segments : \E t \in WithBaseline(Snapshots(seg)) : t <= cutoff} IN
  IF groups = {} \/ \E seg \in groups : SegmentDelta(seg, start, cutoff) = Nothing THEN Nothing
  ELSE MapThenSumSet(LAMBDA seg : SegmentDelta(seg, start, cutoff), groups)

Daily(d) == Value(FirstOf(d), LastOf(d))

\* A week's or a month's card, and that of a month to date ('daily'): its last daily row.
Card == Value(Start, End)
DailyCard == Daily(DayCount)

TrendDays == {d \in Days : \E seg \in Segments : \E t \in Snapshots(seg) : DayOf(t) = d}
Trend(d) == Value(Start, LastOf(d))

---------------------------------------------------------------------------
(* loadCumulativeMetrics, findMissingFields and aggregateByMetric of the   *)
(* reports: the availability 'available' only, which the zeros of an       *)
(* import do not have.                                                     *)

Reportable(t) == captured[t] > 0 \/ (captured[t] = 0 /\ ~imported)
Available(seg) == WithBaseline({t \in Snapshots(seg) : Reportable(t)})
Intersects(seg, d) == seg.to > FirstOf(d) /\ seg.from < FirstOf(d + 1)
MissingDays == {d \in Days : \E seg \in Segments : Intersects(seg, d) /\ \A t \in Available(seg) : DayOf(t) # d}

\* Mutant: the end of a closed segment is not looked at.
CoversStart(seg, T) == seg.from > Start => Min(T) = seg.from

CoversEnds(seg, T) == /\ seg.from > Start => Min(T) = seg.from
                      /\ seg.to <= End => Max(T) = seg.to - 1

SegmentMetric(seg) ==
  LET from == LaterOf(seg.from, Start)
      before == {t \in Available(seg) : t <= from}
      ordered == (IF before = {} THEN {} ELSE {Max(before)}) \cup {t \in Available(seg) : from <= t /\ t < seg.to}
  IN IF ordered = {} \/ Min(ordered) > from \/ ~CoversEnds(seg, ordered) THEN Nothing ELSE Aggregate(ordered)

Complete == Segments # {} /\ MissingDays = {} /\ \A seg \in Segments : SegmentMetric(seg) # Nothing

\* The metrics a complete report stores: one for each definition.
Report == [seg \in Segments |-> SegmentMetric(seg)]

---------------------------------------------------------------------------
(* Properties.                                                             *)

Known == {t \in Instants : captured[t] # Absent}

\* The last count less the last one at or before the start, if any.
GrowthSince(start) ==
  LET held == UpTo(Known, LaterOf(opens, start))
  IN  captured[Max(Known)] - (IF held = {} THEN 0 ELSE captured[Max(held)])

\* The card of a period in which the counter never fell and one definition held is the
\* growth from the last count at or before its start, or from nothing for a note published
\* in it, to its last count, however the captures in between were added or corrected; the
\* card of a month to date is the growth of its last day.
CardIsGrowth ==
  cut > End /\ (\A t, u \in Known : t < u => captured[t] <= captured[u]) =>
    /\ Card # Nothing => Card = GrowthSince(Start)
    /\ DailyCard # Nothing => DailyCard = GrowthSince(FirstOf(DayCount))

\* The daily rows add up to the card, resets of the counter included, when every day has a
\* value, one definition holds and nothing was captured at the very start of a later day.
DaysAddUp ==
  /\ cut > End /\ opens <= Start
  /\ \A d \in Days : Daily(d) # Nothing
  /\ \A d \in Days \ {1} : captured[FirstOf(d)] = Absent
  => Card = MapThenSumSet(Daily, Days)

\* A complete report stores for each definition what the dashboard counts under it, and
\* together they are the card, across a change of definition too, as long as no capture is
\* one that only one of the two counts: not provided, or the zero of an import.
ReportAgrees ==
  Complete /\ (\A t \in Known : Reportable(t)) =>
    /\ \A seg \in Segments : Report[seg] = SegmentDelta(seg, Start, End)
    /\ Card = MapThenSumSet(LAMBDA seg : Report[seg], Segments)

\* A day whose count is a true zero has been synced (2026-08-02 plan, line 18); reports wait for an import's.
ZeroIsData == \A d \in MissingDays : \A t \in Instants : DayOf(t) = d => captured[t] # 0

\* The trend ends with the card (2026-08-03-task-9a-round3 plan, line 23); not so when a
\* definition ends after the last day captured.
TrendEndsAtCard == TrendDays # {} => Trend(Max(TrendDays)) = Card

\* The daily rows add up whatever is captured (not so at midnight, whose growth no day shows).
DaysAlwaysAddUp == cut > End /\ opens <= Start /\ (\A d \in Days : Daily(d) # Nothing) => Card = MapThenSumSet(Daily, Days)
=============================================================================
