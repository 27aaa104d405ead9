---------------------------- MODULE MetricProofs ----------------------------
(***************************************************************************)
(* Proofs about MetricEvidence and MetricSeries: how the snapshots of a    *)
(* metric are written and what one period shows of them.                   *)
(*                                                                         *)
(* MetricEvidence: what one transaction has done is a predicate on its     *)
(* record and on the committed rows; what two have done at the same time   *)
(* is a predicate on both records.                                         *)
(*                                                                         *)
(* MetricSeries: its invariants hold in every state that is type correct.  *)
(* Card, report and daily rows are sums over finite sets of the gains of a *)
(* series; the proofs take sums apart (SumWithout) and split a series at   *)
(* one of its counts (GainsSplit).                                         *)
(***************************************************************************)
EXTENDS MetricEvidence, MetricSeries, FiniteSetTheorems, SequenceTheorems, WellFoundedInduction, TLAPS

---------------------------------------------------------------------------
(* A transaction t of writer w over the definitions D and the rows R.      *)

KeyAt(t) == t.order[t.k]
ViewOf(t, D) == (D \ t.cut) \cup t.add
IdOf(w, t) == [platform |-> PlatformOf[w], key |-> KeyAt(t), source |-> Source(w), version |-> t.version, at |-> t.obs[t.m].at]
ChainOf(t, R, id) == R[id] \o t.puts[id]
Put(t, id, v) == [t EXCEPT !.puts[id] = Append(@, v)]
FromOf(w, t) == IF w \in Savers THEN Min({t.obs[i].at : i \in DOMAIN t.obs}) ELSE 0
KeyName(key) == <<"definition", <<key, "official">>>>
RowName(id) == <<"row", id>>
Touches(t, key, source) == \E d \in t.add \cup t.cut : d.key = key /\ d.source = source
Group(S, key, source) == {d \in S : d.key = key /\ d.source = source}
OpenOf(S, key, source) == {d \in Group(S, key, source) : d.to = Forever}
ClosedAt(S, time) == {[d EXCEPT !.to = time] : d \in S}

\* Where it stands in its two loops.
Position(w, t) ==
  IF t.pc = "idle" THEN t = NoTx
  ELSE /\ t.obs # <<>> /\ Len(t.order) = Len(Keys)
       /\ t.k \in 1..Len(t.order) /\ t.m \in 1..Len(t.obs)
       /\ t.pc \in {"define", "create"} => t.m = 1
       /\ w \in Savers => t.order = Keys
       /\ w \in Imports => Len(t.obs) = 1 /\ t.version = ImportVersion

\* A sync job holds the locks of the keys it has come to, and no other; each of
\* its row locks lies under the lock of its key.
Holding(w, t) ==
  /\ w \in Imports => t.locks = {} /\ t.shut = {}
  /\ w \in Savers /\ t.pc # "idle" =>
       /\ \A j \in 1..Len(Keys) : KeyName(Keys[j]) \in t.locks <=> (j < t.k \/ (j = t.k /\ t.pc # "define"))
       /\ \A id \in Identities : RowName(id) \in t.locks => KeyName(id.key) \in t.locks
       /\ t.pc = "write" => RowName(IdOf(w, t)) \in t.locks

\* What it has written is its own and, for a sync job, locked.
Putting(w, t) ==
  \A id \in Identities : t.puts[id] # <<>> =>
    /\ id.source = Source(w) /\ id.platform = PlatformOf[w] /\ id.version = t.version
    /\ w \in Savers => RowName(id) \in t.locks
    /\ w \in Imports => id.at = t.obs[1].at

\* Definitions it has added or closed; those of the key at hand come last.
Editing(w, t) ==
  /\ \A d \in t.add \cup t.cut :
       /\ d.source = Source(w)
       /\ w \in Savers => KeyName(d.key) \in t.locks /\ (t.pc = "create" => d.key # KeyAt(t))
       /\ w \in Imports => d.from = 0 /\ d.to = Forever
  /\ w \in Imports => t.cut = {}

\* Between look-up and creation the open definition stays the one to close.
Transition(w, t, D) ==
  w \in Savers /\ t.pc = "create" =>
    /\ t.shut = OpenOf(ViewOf(t, D), KeyAt(t), "official")
    /\ \A d \in t.shut : d.from < FromOf(w, t)

\* One metric's definitions: disjoint, the last one open, and without a gap.
Tile(S) ==
  \A d \in S :
    /\ d.from < d.to
    /\ \A e \in S : e # d => ~Overlap(d, e)
    /\ d.to # Forever => \E e \in S : e.key = d.key /\ e.source = d.source /\ e.from = d.to
    /\ \E e \in S : e.key = d.key /\ e.source = d.source /\ e.to = Forever

NoRepeat(s) == \A i \in 1..Len(s) - 1 : s[i] # s[i + 1]

\* What was read is still so, or the head has moved on.
Reading(w, t, R) ==
  t.pc = "write" =>
    LET chain == ChainOf(t, R, IdOf(w, t)) IN
      /\ t.seen <= Len(chain)
      /\ Len(chain) = t.seen /\ t.seen > 0 => chain[t.seen] # t.obs[t.m].val
      /\ w \in Savers => Len(chain) = t.seen

Local(w, t, D, R) ==
  /\ Position(w, t) /\ Holding(w, t) /\ Putting(w, t) /\ Editing(w, t) /\ Transition(w, t, D)
  /\ t.cut \subseteq D /\ Tile(ViewOf(t, D))
  /\ (\A id \in Identities : NoRepeat(ChainOf(t, R, id))) /\ Reading(w, t, R)

\* Two transactions at once.
Apart(t, u) ==
  /\ t.locks \cap u.locks = {}
  /\ \A id \in Identities : t.puts[id] = <<>> \/ u.puts[id] = <<>>
  /\ \A d \in t.add \cup t.cut, e \in u.add \cup u.cut : d.key # e.key \/ d.source # e.source

\* The transactions and the tables.
Evidence ==
  /\ \A w \in Writers : Local(w, tx[w], defs, rows)
  /\ \A v, w \in Writers : v # w => Apart(tx[v], tx[w])
  /\ Tile(defs) /\ \A id \in Identities : NoRepeat(rows[id])

---------------------------------------------------------------------------
(* The import command.                                                     *)

CliId(key, at) == [platform |-> PlatformOf[Cli], key |-> key, source |-> "self-scrape", version |-> ImportVersion, at |-> at]
Stored(line, R) == line.kind = "valid" => \A key \in AllKeys : Contains(R[CliId(key, line.at)], line.val)

\* The line at hand, and what is stored of it.
AtLine(c, t, R) ==
  /\ c.st = "lines" /\ c.line \in 1..Len(c.file) /\ c.file[c.line].kind = "valid"
  /\ t.obs = <<[at |-> c.file[c.line].at, val |-> c.file[c.line].val]>> /\ t.order = Keys
  /\ \A j \in 1..Len(Keys) : j < t.k \/ t.pc = "commit" =>
       Contains(ChainOf(t, R, CliId(Keys[j], c.file[c.line].at)), c.file[c.line].val)

CommandOf(c, t, R) ==
  /\ c.st = "lines" => \A i \in 1..Len(c.file) : i < c.line => Stored(c.file[i], R)
  /\ c.audit = "succeeded" => c.st = "over" /\ \A i \in 1..Len(c.file) : Stored(c.file[i], R)
  /\ c.st = "idle" => c.file = <<>>
  /\ Fatal(c.file) => c.st = "over" /\ ~c.wrote
  /\ t.pc # "idle" => AtLine(c, t, R)

Command == CommandOf(command, tx[Cli], rows)

---------------------------------------------------------------------------
(* The outbox events of the imports.                                       *)

EventIds == ({"run"} \X Nat) \cup ({"line"} \X UNION {[D -> Nat] : D \in SUBSET Identities})
Rows == [id : EventIds, platform : Platforms, at : Times, pending : BOOLEAN]

\* An event names a run that has begun or revisions that exist.
Dated(e, last, R) ==
  /\ e.id[1] = "run" => e.id[2] <= last
  /\ e.id[1] = "line" => DOMAIN e.id[2] # {} /\ \A id \in DOMAIN e.id[2] : e.id[2][id] <= Len(R[id])

EventsSound ==
  /\ \A e \in events : Dated(e, begun, rows)
  /\ \A w \in Writers : tx[w].run <= begun
  /\ \A v, w \in Writers : v # w /\ tx[v].pc # "idle" /\ tx[w].pc # "idle" => tx[v].run # tx[w].run
  /\ \A w \in Writers : tx[w].pc # "idle" => \A e \in events : e.id # <<"run", tx[w].run>>

Owed == \A at \in Times : built[at] = ImportHeads(at) \/ \E e \in events : e.pending /\ e.at = at

IInv ==
  /\ TypeOK /\ events \subseteq Rows /\ DOMAIN built = Times
  /\ Evidence /\ Command /\ EventsSound /\ Owed /\ SaversNeverCollide

---------------------------------------------------------------------------
(* Numbers and sequences.                                                  *)

\* Every non-empty set of natural numbers has a least element.  The theorems of
\* the library that say so take an operator; this one uses that the finite sets
\* are well-founded under inclusion.
LEMMA Least ==
  ASSUME NEW S \in SUBSET Nat, S # {}
  PROVE  \E m \in S : \A n \in S : m <= n
<1> DEFINE T == {0..n : n \in S}
<1>1. T \subseteq FiniteSubsetsOf(Nat)
  <2> SUFFICES ASSUME NEW n \in S PROVE 0..n \in FiniteSubsetsOf(Nat)
    OBVIOUS
  <2>1. IsFiniteSet(0..n)
    <3> n \in Int /\ 0 \in Int
      OBVIOUS
    <3> QED BY FS_Interval
  <2>2. 0..n \in SUBSET Nat
    OBVIOUS
  <2> QED BY <2>1, <2>2 DEF FiniteSubsetsOf
<1>2. T # {}
  OBVIOUS
<1>3. PICK x \in T : \A y \in T : ~(<<y, x>> \in StrictSubsetOrdering(Nat))
  <2> HIDE DEF T
  <2> QED BY <1>1, <1>2, WFMin, FS_StrictSubsetOrderingWellFounded
<1>4. PICK m \in S : x = 0..m
  BY <1>3
<1>5. \A n \in S : m <= n
  <2> TAKE n \in S
  <2>1. ~(<<0..n, 0..m>> \in StrictSubsetOrdering(Nat))
    BY <1>3, <1>4
  <2>2. SUFFICES ASSUME n < m PROVE FALSE
    OBVIOUS
  <2>3. 0..n \subseteq 0..m /\ 0..n # 0..m /\ m \in Nat
    BY <2>2
  <2> QED BY <2>1, <2>3 DEF StrictSubsetOrdering
<1> QED BY <1>5

LEMMA MinIsIn ==
  ASSUME NEW S \in SUBSET Nat, S # {}
  PROVE  Min(S) \in S
BY Least DEF Min

LEMMA ExtendChain ==
  ASSUME NEW r \in Seq(Values), NEW p \in Seq(Values), NEW v \in Values
  PROVE  r \o Append(p, v) = Append(r \o p, v)
<1>1. Append(p, v) \in Seq(Values) /\ Len(Append(p, v)) = Len(p) + 1
      /\ (\A i \in 1..Len(p) : Append(p, v)[i] = p[i]) /\ Append(p, v)[Len(p) + 1] = v
  BY AppendProperties
<1>2. r \o p \in Seq(Values) /\ Len(r \o p) = Len(r) + Len(p)
      /\ \A i \in 1..Len(r) + Len(p) : (r \o p)[i] = IF i <= Len(r) THEN r[i] ELSE p[i - Len(r)]
  BY ConcatProperties
<1>3. r \o Append(p, v) \in Seq(Values) /\ Len(r \o Append(p, v)) = Len(r) + Len(p) + 1
      /\ \A i \in 1..Len(r) + Len(p) + 1 : (r \o Append(p, v))[i] = IF i <= Len(r) THEN r[i] ELSE Append(p, v)[i - Len(r)]
  <2> DEFINE q == Append(p, v)
  <2>1. q \in Seq(Values) /\ Len(q) = Len(p) + 1
    BY <1>1
  <2> HIDE DEF q
  <2>2. /\ r \o q \in Seq(Values) /\ Len(r \o q) = Len(r) + Len(q)
        /\ \A i \in 1..Len(r) + Len(q) : (r \o q)[i] = IF i <= Len(r) THEN r[i] ELSE q[i - Len(r)]
    BY <2>1, ConcatProperties
  <2>3. Len(r) \in Nat /\ Len(p) \in Nat
    BY LenProperties
  <2>4. Len(r) + Len(q) = Len(r) + Len(p) + 1
    BY <2>1, <2>3
  <2> QED BY <2>2, <2>4 DEF q
<1>4. Append(r \o p, v) \in Seq(Values) /\ Len(Append(r \o p, v)) = Len(r) + Len(p) + 1
      /\ (\A i \in 1..Len(r) + Len(p) : Append(r \o p, v)[i] = (r \o p)[i]) /\ Append(r \o p, v)[Len(r) + Len(p) + 1] = v
  <2> DEFINE q == r \o p
  <2>1. q \in Seq(Values) /\ Len(q) = Len(r) + Len(p)
    BY <1>2
  <2> HIDE DEF q
  <2>2. Append(q, v) \in Seq(Values) /\ Len(Append(q, v)) = Len(q) + 1
        /\ (\A i \in 1..Len(q) : Append(q, v)[i] = q[i]) /\ Append(q, v)[Len(q) + 1] = v
    BY <2>1, AppendProperties
  <2> QED BY <2>1, <2>2 DEF q
<1>5. Len(r) \in Nat /\ Len(p) \in Nat
  BY LenProperties
<1>6. \A i \in 1..Len(r) + Len(p) + 1 : (r \o Append(p, v))[i] = Append(r \o p, v)[i]
  <2> TAKE i \in 1..Len(r) + Len(p) + 1
  <2>1. CASE i <= Len(r)
    BY <1>2, <1>3, <1>4, <1>5, <2>1
  <2>2. CASE i > Len(r) /\ i <= Len(r) + Len(p)
    <3>1. i - Len(r) \in 1..Len(p)
      BY <1>5, <2>2
    <3>2. (r \o Append(p, v))[i] = p[i - Len(r)]
      BY <1>1, <1>3, <1>5, <2>2, <3>1
    <3>3. (r \o p)[i] = p[i - Len(r)]
      BY <1>2, <1>5, <2>2
    <3> QED BY <1>4, <1>5, <2>2, <3>2, <3>3
  <2>3. CASE i = Len(r) + Len(p) + 1
    BY <1>1, <1>3, <1>4, <1>5, <2>3
  <2> QED BY <1>5, <2>1, <2>2, <2>3
<1> QED
  <2> DEFINE s == r \o Append(p, v)
             t == Append(r \o p, v)
  <2>1. s \in Seq(Values) /\ t \in Seq(Values) /\ Len(s) = Len(t) /\ \A i \in 1..Len(s) : s[i] = t[i]
    BY <1>3, <1>4, <1>6
  <2> HIDE DEF s, t
  <2>2. s = t
    BY <2>1, SeqEqual
  <2> QED BY <2>2 DEF s, t

LEMMA AppendNoRepeat ==
  ASSUME NEW s \in Seq(Values), NEW v \in Values, NoRepeat(s), Len(s) > 0 => s[Len(s)] # v
  PROVE  NoRepeat(Append(s, v))
<1>1. /\ Len(s) \in Nat /\ Len(Append(s, v)) = Len(s) + 1
      /\ (\A i \in 1..Len(s) : Append(s, v)[i] = s[i]) /\ Append(s, v)[Len(s) + 1] = v
  BY AppendProperties, LenProperties
<1>2. SUFFICES ASSUME NEW i \in 1..Len(s) PROVE Append(s, v)[i] # Append(s, v)[i + 1]
  BY <1>1 DEF NoRepeat
<1>3. CASE i = Len(s)
  BY <1>1, <1>3
<1>4. CASE i \in 1..Len(s) - 1
  BY <1>1, <1>4 DEF NoRepeat
<1> QED BY <1>1, <1>3, <1>4

LEMMA ContainsAppend ==
  ASSUME NEW s \in Seq(Values), NEW v \in Values
  PROVE  /\ Contains(Append(s, v), v)
         /\ \A x : Contains(s, x) => Contains(Append(s, v), x)
<1>1. /\ Len(s) \in Nat /\ Len(Append(s, v)) = Len(s) + 1
      /\ (\A i \in 1..Len(s) : Append(s, v)[i] = s[i]) /\ Append(s, v)[Len(s) + 1] = v
  BY AppendProperties, LenProperties
<1> QED BY <1>1 DEF Contains

LEMMA ContainsConcat ==
  ASSUME NEW s \in Seq(Values), NEW p \in Seq(Values), NEW x, Contains(s, x)
  PROVE  Contains(s \o p, x)
<1>1. /\ Len(s) \in Nat /\ Len(p) \in Nat /\ Len(s \o p) = Len(s) + Len(p)
      /\ \A i \in 1..Len(s) + Len(p) : (s \o p)[i] = IF i <= Len(s) THEN s[i] ELSE p[i - Len(s)]
  BY ConcatProperties, LenProperties
<1>2. PICK i \in 1..Len(s) : s[i] = x
  BY DEF Contains
<1> QED BY <1>1, <1>2 DEF Contains

---------------------------------------------------------------------------
(* Definitions that tile the time.                                         *)

\* The definitions of each metric tile it by themselves.
LEMMA TileByGroup ==
  ASSUME NEW S, \A d \in S : \E T : Tile(T) /\ Group(S, d.key, d.source) = Group(T, d.key, d.source)
  PROVE  Tile(S)
<1> SUFFICES ASSUME NEW d \in S
             PROVE  /\ d.from < d.to
                    /\ \A e \in S : e # d => ~Overlap(d, e)
                    /\ d.to # Forever => \E e \in S : e.key = d.key /\ e.source = d.source /\ e.from = d.to
                    /\ \E e \in S : e.key = d.key /\ e.source = d.source /\ e.to = Forever
  BY DEF Tile
<1>1. PICK T : Tile(T) /\ Group(S, d.key, d.source) = Group(T, d.key, d.source)
  OBVIOUS
<1>2. \A e : e \in S /\ e.key = d.key /\ e.source = d.source <=> e \in T /\ e.key = d.key /\ e.source = d.source
  BY <1>1 DEF Group
<1>3. d \in T
  BY <1>2
<1>4. \A e \in S : e # d => ~Overlap(d, e)
  BY <1>1, <1>2, <1>3 DEF Tile, Overlap
<1> QED BY <1>1, <1>2, <1>3, <1>4 DEF Tile

\* A new version closes the open one where it begins itself.
LEMMA TileTransition ==
  ASSUME NEW V \in SUBSET Definitions, Tile(V), NEW n \in Definitions, n.to = Forever,
         NEW shut, shut = OpenOf(V, n.key, n.source),
         \A d \in shut : d.from < n.from,
         NEW closed, closed = ClosedAt(shut, n.from)
  PROVE  /\ \A d \in (V \ shut) \cup closed : ~Overlap(d, n)
         /\ Tile((V \ shut) \cup closed \cup {n})
         /\ closed \subseteq Definitions
<1>0. Forever \in Nat /\ Horizon \in Nat /\ Forever = Horizon + 1
  BY BoundAssumption DEF Forever
<1>1. \A d \in V : d \in Definitions /\ d.from \in 0..Horizon /\ d.to \in 1..Forever /\ d.from < d.to
  BY DEF Tile, Definitions
<1>2. n.from \in 0..Horizon
  BY DEF Definitions
<1>3. \A d \in shut : d \in V /\ d.key = n.key /\ d.source = n.source /\ d.to = Forever
  BY DEF Group, OpenOf
<1>4. \A c \in closed : \E d \in shut : /\ c = [d EXCEPT !.to = n.from] /\ c.key = n.key /\ c.source = n.source
                                        /\ c.from = d.from /\ c.to = n.from /\ c.from < c.to /\ c \in Definitions
  <2> TAKE c \in closed
  <2>0. PICK d \in shut : c = [d EXCEPT !.to = n.from]
    BY DEF ClosedAt
  <2>1. d \in Definitions /\ d.from \in 0..Horizon /\ d.from < n.from /\ d.key = n.key /\ d.source = n.source
    BY <1>1, <1>3
  <2>2. n.from \in 1..Forever
    BY <1>0, <1>2, <2>1
  <2>3. /\ c.key = n.key /\ c.source = n.source /\ c.from = d.from /\ c.to = n.from /\ c.from < c.to
        /\ c \in Definitions
    BY <2>0, <2>1, <2>2 DEF Definitions
  <2> QED BY <2>0, <2>3
<1>5. closed \subseteq Definitions
  BY <1>4
\* Other definitions of the metric end before the open one begins.
<1>6. \A d \in V \ shut : d.key = n.key /\ d.source = n.source => d.to < n.from /\ \E e \in shut : d.to <= e.from
  <2> SUFFICES ASSUME NEW d \in V \ shut, d.key = n.key, d.source = n.source
               PROVE  d.to < n.from /\ \E e \in shut : d.to <= e.from
    OBVIOUS
  <2>1. d.to # Forever
    BY DEF Group, OpenOf
  <2>2. PICK e \in V : e.key = d.key /\ e.source = d.source /\ e.to = Forever
    BY DEF Tile
  <2>3. e \in shut
    BY <2>2 DEF Group, OpenOf
  <2>4. ~Overlap(d, e)
    BY <2>1, <2>2 DEF Tile
  <2>5. d.to <= e.from
    BY <1>0, <1>1, <2>2, <2>4 DEF Overlap
  <2>6. e.from < n.from
    BY <2>3
  <2> QED BY <1>1, <1>2, <2>2, <2>3, <2>5, <2>6
<1>7. \A d \in (V \ shut) \cup closed : d.key = n.key /\ d.source = n.source => d.to <= n.from
  BY <1>1, <1>2, <1>4, <1>6
<1>8. \A d \in (V \ shut) \cup closed : ~Overlap(d, n)
  <2>1. \A d \in (V \ shut) \cup closed : d.to \in Int
    BY <1>0, <1>1, <1>2, <1>4
  <2> QED BY <1>2, <1>7, <2>1 DEF Overlap
<1>9. \A d, e \in shut : d = e
  BY <1>0, <1>1, <1>3 DEF Tile, Overlap
<1>10. \A d \in V \ shut, c \in closed : ~Overlap(d, c) /\ ~Overlap(c, d)
  <2> SUFFICES ASSUME NEW d \in V \ shut, NEW c \in closed PROVE ~Overlap(d, c) /\ ~Overlap(c, d)
    OBVIOUS
  <2>1. CASE d.key = n.key /\ d.source = n.source
    <3>1. PICK e \in shut : d.to <= e.from
      BY <1>6, <2>1
    <3>2. c.from = e.from
      BY <1>4, <1>9
    <3> QED BY <1>1, <1>3, <1>4, <3>1, <3>2 DEF Overlap
  <2>2. CASE ~(d.key = n.key /\ d.source = n.source)
    BY <1>4, <2>2 DEF Overlap
  <2> QED BY <2>1, <2>2
<1>11. \A c, e \in closed : c = e
  BY <1>4, <1>9
<1> DEFINE W == (V \ shut) \cup closed \cup {n}
<1>12. \A d \in W : d.from < d.to
  BY <1>0, <1>1, <1>2, <1>4
<1>13. \A d, e \in W : e # d => ~Overlap(d, e)
  <2>1. \A d \in (V \ shut) \cup closed : ~Overlap(n, d)
    BY <1>8 DEF Overlap
  <2>2. \A d, e \in V \ shut : e # d => ~Overlap(d, e)
    BY DEF Tile
  <2> QED BY <1>8, <1>10, <1>11, <2>1, <2>2
<1>14. \A d \in W : \E e \in W : e.key = d.key /\ e.source = d.source /\ e.to = Forever
  <2> SUFFICES ASSUME NEW d \in W PROVE \E e \in W : e.key = d.key /\ e.source = d.source /\ e.to = Forever
    OBVIOUS
  <2>1. CASE d.key = n.key /\ d.source = n.source
    BY <2>1
  <2>2. CASE ~(d.key = n.key /\ d.source = n.source)
    <3>1. d \in V
      BY <1>4, <2>2
    <3>2. PICK e \in V : e.key = d.key /\ e.source = d.source /\ e.to = Forever
      BY <3>1 DEF Tile
    <3>3. e \notin shut
      BY <1>3, <2>2, <3>2
    <3> QED BY <3>2, <3>3
  <2> QED BY <2>1, <2>2
<1>15. \A d \in W : d.to # Forever => \E e \in W : e.key = d.key /\ e.source = d.source /\ e.from = d.to
  <2> SUFFICES ASSUME NEW d \in W, d.to # Forever
               PROVE  \E e \in W : e.key = d.key /\ e.source = d.source /\ e.from = d.to
    OBVIOUS
  <2>1. CASE d \in closed
    BY <1>4, <2>1
  <2>2. CASE d \in V
    <3>1. PICK e \in V : e.key = d.key /\ e.source = d.source /\ e.from = d.to
      BY <2>2 DEF Tile
    <3>2. CASE e \notin shut
      BY <3>1, <3>2
    <3>3. CASE e \in shut
      <4>1. [e EXCEPT !.to = n.from] \in closed
        BY <3>3 DEF ClosedAt
      <4>2. PICK c \in closed : c = [e EXCEPT !.to = n.from]
        BY <4>1
      <4>3. c.key = e.key /\ c.source = e.source /\ c.from = e.from
        BY <1>3, <1>4, <1>9, <3>3, <4>2
      <4> QED BY <3>1, <4>3
    <3> QED BY <3>2, <3>3
  <2> QED BY <2>1, <2>2
<1>16. Tile(W)
  BY <1>12, <1>13, <1>14, <1>15 DEF Tile
<1> QED BY <1>5, <1>8, <1>16

\* An import adds a metric that has no definition yet.
LEMMA TileFirst ==
  ASSUME NEW V \in SUBSET Definitions, Tile(V), NEW n \in Definitions, n.from = 0, n.to = Forever,
         \A d \in V : ~Overlap(d, n)
  PROVE  Tile(V \cup {n})
<1>0. Forever \in Nat /\ Horizon \in Nat /\ Forever = Horizon + 1
  BY BoundAssumption DEF Forever
<1>1. \A d \in V : d.from \in 0..Horizon /\ d.to \in 1..Forever /\ d.from < d.to
  BY DEF Tile, Definitions
<1>2. \A d \in V : d.key # n.key \/ d.source # n.source
  BY <1>0, <1>1 DEF Overlap
<1>3. \A d \in V \cup {n} : d.from < d.to
  BY <1>0, <1>1
<1>4. \A d, e \in V \cup {n} : e # d => ~Overlap(d, e)
  BY <1>2 DEF Tile, Overlap
<1>5. \A d \in V \cup {n} : d.to # Forever => \E e \in V \cup {n} : e.key = d.key /\ e.source = d.source /\ e.from = d.to
  BY DEF Tile
<1>6. \A d \in V \cup {n} : \E e \in V \cup {n} : e.key = d.key /\ e.source = d.source /\ e.to = Forever
  BY DEF Tile
<1> QED BY <1>3, <1>4, <1>5, <1>6 DEF Tile

---------------------------------------------------------------------------
(* Types of what a transaction is about.                                   *)

LEMMA WriterSources ==
  ASSUME NEW w \in Writers
  PROVE  /\ w \in Savers <=> Source(w) = "official"
         /\ w \in Imports <=> Source(w) = "self-scrape"
         /\ w \in Savers <=> w \notin Imports
         /\ Source(w) \in Sources /\ PlatformOf[w] \in Platforms
BY WriterAssumption DEF Writers, Source, Sources, Platforms

LEMMA TimeBounds == Horizon \in Nat /\ Horizon > 0 /\ Forever = Horizon + 1
BY BoundAssumption DEF Forever

LEMMA KeysAreDistinct ==
  /\ Len(Keys) \in Nat /\ Len(Keys) > 0
  /\ \A i \in 1..Len(Keys) : Keys[i] \in AllKeys
  /\ \A i, j \in 1..Len(Keys) : KeyName(Keys[i]) = KeyName(Keys[j]) => i = j
  /\ \A key \in AllKeys : \E i \in 1..Len(Keys) : Keys[i] = key
  /\ Keys \in Seq(AllKeys)
<1>1. Keys \in Seq(AllKeys) /\ Len(Keys) > 0 /\ IsInjective(Keys)
  BY KeyAssumption
<1>2. Len(Keys) \in Nat /\ DOMAIN Keys = 1..Len(Keys)
  BY <1>1, LenProperties
<1>3. \A i, j \in 1..Len(Keys) : KeyName(Keys[i]) = KeyName(Keys[j]) => i = j
  BY <1>1, <1>2 DEF IsInjective, KeyName
<1>4. \A key \in AllKeys : \E i \in 1..Len(Keys) : Keys[i] = key
  BY <1>2 DEF AllKeys
<1>5. \A i \in 1..Len(Keys) : Keys[i] \in AllKeys
  BY <1>2 DEF AllKeys
<1> QED BY <1>1, <1>2, <1>3, <1>4, <1>5

LEMMA AtHand ==
  ASSUME NEW w \in Writers, NEW t \in Transactions, Position(w, t), t.pc # "idle"
  PROVE  /\ t.k \in 1..Len(Keys) /\ t.m \in 1..Len(t.obs) /\ Len(t.order) = Len(Keys)
         /\ KeyAt(t) \in AllKeys /\ t.obs[t.m] \in Observations
         /\ IdOf(w, t) \in Identities /\ FromOf(w, t) \in 0..Horizon
         /\ w \in Savers => KeyAt(t) = Keys[t.k]
<1>1. t.k \in 1..Len(t.order) /\ Len(t.order) = Len(Keys) /\ t.m \in 1..Len(t.obs) /\ (w \in Savers => t.order = Keys)
  BY DEF Position
<1>2. t.order \in Seq(AllKeys) /\ t.obs \in Seq(Observations) /\ t.version \in Versions \cup {ImportVersion}
  BY DEF Transactions
<1>3. KeyAt(t) \in AllKeys
  BY <1>1, <1>2, ElementOfSeq DEF KeyAt
<1>4. \A i \in DOMAIN t.obs : t.obs[i] \in Observations
  BY <1>2, ElementOfSeq
<1>5. t.obs[t.m] \in Observations /\ DOMAIN t.obs = 1..Len(t.obs)
  BY <1>1, <1>2, <1>4, LenProperties
<1>6. IdOf(w, t) \in Identities
  BY <1>2, <1>3, <1>5, WriterSources DEF IdOf, Identities, Observations
<1>7. FromOf(w, t) \in 0..Horizon
  <2> DEFINE S == {t.obs[i].at : i \in DOMAIN t.obs}
  <2>1. S \subseteq Times
    BY <1>4 DEF Observations
  <2>2. S \subseteq 0..Horizon /\ S \subseteq Nat
    BY <2>1, TimeBounds DEF Times
  <2>3. S # {}
    BY <1>1, <1>5
  <2>4. Min(S) \in S
    <3> HIDE DEF S
    <3> QED BY <2>2, <2>3, MinIsIn
  <2> QED BY <2>2, <2>4, TimeBounds DEF FromOf
<1> QED BY <1>1, <1>3, <1>5, <1>6, <1>7 DEF KeyAt

\* The definitions of the model in terms of the record of the transaction.
LEMMA InTermsOfRecord ==
  ASSUME NEW w \in Writers
  PROVE  /\ Key(w) = KeyAt(tx[w]) /\ View(w) = ViewOf(tx[w], defs) /\ Identity(w) = IdOf(w, tx[w])
         /\ Observed(w) = tx[w].obs[tx[w].m]
         /\ \A id \in Identities : Chain(w, id) = ChainOf(tx[w], rows, id)
         /\ KeyLock(w) = <<"definition", <<KeyAt(tx[w]), Source(w)>>>> /\ RowLock(w) = RowName(IdOf(w, tx[w]))
         /\ New(w) = [platform |-> PlatformOf[w], key |-> KeyAt(tx[w]), source |-> Source(w), version |-> tx[w].version,
                      to |-> Forever, from |-> FromOf(w, tx[w])]
<1>1. Key(w) = KeyAt(tx[w])
  BY DEF Key, KeyAt
<1>2. View(w) = ViewOf(tx[w], defs)
  BY DEF View, ViewOf
<1>3. Identity(w) = IdOf(w, tx[w])
  BY <1>1 DEF Identity, IdOf, Observed
<1>4. Observed(w) = tx[w].obs[tx[w].m]
  BY DEF Observed
<1>5. \A id \in Identities : Chain(w, id) = ChainOf(tx[w], rows, id)
  BY DEF Chain, ChainOf
<1>6. KeyLock(w) = <<"definition", <<KeyAt(tx[w]), Source(w)>>>>
  BY <1>1 DEF KeyLock
<1>7. RowLock(w) = RowName(IdOf(w, tx[w]))
  BY <1>3 DEF RowLock, RowName
<1>8. New(w) = [platform |-> PlatformOf[w], key |-> KeyAt(tx[w]), source |-> Source(w), version |-> tx[w].version,
                to |-> Forever, from |-> FromOf(w, tx[w])]
  BY <1>1 DEF New, FromOf
<1> QED BY <1>1, <1>2, <1>3, <1>4, <1>5, <1>6, <1>7, <1>8

LEMMA NewIsDefinition ==
  ASSUME NEW w \in Writers, tx[w] \in Transactions, Position(w, tx[w]), tx[w].pc # "idle"
  PROVE  /\ New(w) \in Definitions /\ New(w).to = Forever /\ New(w).from = FromOf(w, tx[w])
         /\ New(w).key = KeyAt(tx[w]) /\ New(w).source = Source(w)
<1>1. /\ KeyAt(tx[w]) \in AllKeys /\ FromOf(w, tx[w]) \in 0..Horizon
      /\ tx[w].version \in Versions \cup {ImportVersion}
  BY AtHand DEF Transactions
<1> QED BY <1>1, InTermsOfRecord, WriterSources, TimeBounds DEF Definitions

---------------------------------------------------------------------------
(* Two transactions.                                                       *)

LEMMA ApartSymmetric ==
  ASSUME NEW t, NEW u, Apart(t, u)
  PROVE  Apart(u, t)
BY DEF Apart

LEMMA NoTxType ==
  /\ NoTx \in Transactions
  /\ NoTx.pc = "idle" /\ NoTx.locks = {} /\ NoTx.add = {} /\ NoTx.cut = {} /\ NoTx.shut = {}
  /\ \A id \in Identities : NoTx.puts[id] = <<>>
<1>1. <<>> \in Seq(Values) /\ <<>> \in Seq(Observations) /\ <<>> \in Seq(AllKeys)
  BY EmptySeq
<1>2. [id \in Identities |-> <<>>] \in [Identities -> Seq(Values)]
  BY <1>1
<1> DEFINE none == [id \in Identities |-> <<>>]
<1>3. none \in [Identities -> Seq(Values)] /\ \A id \in Identities : none[id] = <<>>
  BY <1>2
<1> HIDE DEF none
<1>4. NoTx = [pc |-> "idle", run |-> 0, version |-> ImportVersion, obs |-> <<>>, order |-> <<>>, k |-> 1, m |-> 1,
              seen |-> 0, locks |-> {}, shut |-> {}, add |-> {}, cut |-> {}, puts |-> none]
  BY DEF NoTx, none
<1>5. 0 \in 0..MaxTx
  BY BoundAssumption
<1> QED BY <1>1, <1>3, <1>4, <1>5 DEF Transactions

LEMMA ApartFromNone ==
  ASSUME NEW u
  PROVE  Apart(NoTx, u)
BY NoTxType DEF Apart

LEMMA ChainIsSeq ==
  ASSUME NEW t \in Transactions, NEW R \in [Identities -> Seq(Values)], NEW id \in Identities
  PROVE  /\ ChainOf(t, R, id) \in Seq(Values)
         /\ Len(ChainOf(t, R, id)) = Len(R[id]) + Len(t.puts[id])
         /\ Len(R[id]) \in Nat /\ Len(t.puts[id]) \in Nat
         /\ t.puts[id] = <<>> => ChainOf(t, R, id) = R[id]
<1>1. R[id] \in Seq(Values) /\ t.puts[id] \in Seq(Values)
  BY DEF Transactions
<1> QED BY <1>1, ConcatProperties, ConcatEmptySeq, LenProperties DEF ChainOf

\* Nothing begun: what holds of the tables holds of the transaction.
LEMMA IdleLocal ==
  ASSUME NEW w \in Writers, NEW D, NEW R \in [Identities -> Seq(Values)],
         Tile(D), \A id \in Identities : NoRepeat(R[id])
  PROVE  Local(w, NoTx, D, R)
<1>1. Position(w, NoTx) /\ Holding(w, NoTx) /\ Putting(w, NoTx) /\ Editing(w, NoTx) /\ Transition(w, NoTx, D) /\ Reading(w, NoTx, R)
  BY NoTxType DEF Position, Holding, Putting, Editing, Transition, Reading
<1>2. ViewOf(NoTx, D) = D
  BY NoTxType DEF ViewOf
<1>3. \A id \in Identities : NoRepeat(ChainOf(NoTx, R, id))
  BY NoTxType, ChainIsSeq
<1>4. NoTx.cut \subseteq D
  BY NoTxType
<1> QED BY <1>1, <1>2, <1>3, <1>4 DEF Local

---------------------------------------------------------------------------
(* What the steps of a transaction do to its record.  u is t after a step. *)

SameWork(t, u) ==
  /\ u.run = t.run /\ u.version = t.version /\ u.obs = t.obs /\ u.order = t.order
  /\ u.k = t.k /\ u.m = t.m /\ u.add = t.add /\ u.cut = t.cut /\ u.puts = t.puts

LEMMA SameWorkSame ==
  ASSUME NEW w, NEW t, NEW u, NEW D, NEW R, SameWork(t, u)
  PROVE  /\ KeyAt(u) = KeyAt(t) /\ ViewOf(u, D) = ViewOf(t, D) /\ IdOf(w, u) = IdOf(w, t) /\ FromOf(w, u) = FromOf(w, t)
         /\ \A id : ChainOf(u, R, id) = ChainOf(t, R, id)
<1>1. KeyAt(u) = KeyAt(t)
  BY DEF SameWork, KeyAt
<1>2. ViewOf(u, D) = ViewOf(t, D)
  BY DEF SameWork, ViewOf
<1>3. IdOf(w, u) = IdOf(w, t)
  BY <1>1 DEF SameWork, IdOf
<1>4. FromOf(w, u) = FromOf(w, t)
  BY DEF SameWork, FromOf
<1>5. \A id : ChainOf(u, R, id) = ChainOf(t, R, id)
  BY DEF SameWork, ChainOf
<1> QED BY <1>1, <1>2, <1>3, <1>4, <1>5

\* Define: the lock of the key, and the open definition to close if it is a new version.
LEMMA DefineKeeps ==
  ASSUME NEW w \in Writers, NEW t \in Transactions, NEW u \in Transactions, NEW D, NEW R,
         Local(w, t, D, R), t.pc = "define", u.pc \in {"create", "read"}, SameWork(t, u),
         u.locks = IF w \in Savers THEN t.locks \cup {KeyName(KeyAt(t))} ELSE t.locks,
         u.shut = IF w \in Savers THEN OpenOf(ViewOf(t, D), KeyAt(t), "official") ELSE {},
         u.pc = "create" => \A d \in u.shut : d.from < FromOf(w, t)
  PROVE  Local(w, u, D, R)
<1>1. /\ Position(w, t) /\ Holding(w, t) /\ Putting(w, t) /\ Editing(w, t)
      /\ t.cut \subseteq D /\ Tile(ViewOf(t, D)) /\ \A id \in Identities : NoRepeat(ChainOf(t, R, id))
  BY DEF Local
<1>2. /\ t.k \in 1..Len(Keys) /\ (w \in Savers => KeyAt(t) = Keys[t.k])
      /\ KeyAt(u) = KeyAt(t) /\ ViewOf(u, D) = ViewOf(t, D) /\ IdOf(w, u) = IdOf(w, t) /\ FromOf(w, u) = FromOf(w, t)
      /\ \A id : ChainOf(u, R, id) = ChainOf(t, R, id)
  <2>1. Position(w, t) /\ t.pc # "idle"
    BY <1>1
  <2>2. /\ t.k \in 1..Len(Keys) /\ (w \in Savers => KeyAt(t) = Keys[t.k]) /\ IdOf(w, t) \in Identities
    BY <2>1, AtHand
  <2>3. /\ KeyAt(u) = KeyAt(t) /\ ViewOf(u, D) = ViewOf(t, D) /\ IdOf(w, u) = IdOf(w, t) /\ FromOf(w, u) = FromOf(w, t)
        /\ \A id : ChainOf(u, R, id) = ChainOf(t, R, id)
    <3>1. SameWork(t, u)
      OBVIOUS
    <3> QED BY ONLY <3>1, SameWorkSame
  <2> QED BY <2>2, <2>3
<1>3. Position(w, u)
  BY <1>1 DEF Position, SameWork
<1>4. Holding(w, u)
  <2>1. w \in Imports => u.locks = {} /\ u.shut = {}
    BY <1>1, WriterSources DEF Holding
  <2>2. ASSUME w \in Savers PROVE \A j \in 1..Len(Keys) : KeyName(Keys[j]) \in u.locks <=> (j < t.k \/ j = t.k)
    <3>1. \A j \in 1..Len(Keys) : KeyName(Keys[j]) \in t.locks <=> j < t.k
      BY <1>1, <1>2, <2>2 DEF Holding
    <3>2. u.locks = t.locks \cup {KeyName(Keys[t.k])}
      BY <1>2, <2>2
    <3> QED BY <1>2, <3>1, <3>2, KeysAreDistinct
  <2>3. ASSUME w \in Savers PROVE \A id \in Identities : RowName(id) \in u.locks => KeyName(id.key) \in u.locks
    <3>1. \A id \in Identities : RowName(id) # KeyName(KeyAt(t))
      BY DEF RowName, KeyName
    <3> QED BY <1>1, <2>3, <3>1 DEF Holding
  <2> QED BY <1>3, <2>1, <2>2, <2>3 DEF Holding, SameWork
<1>5. Putting(w, u)
  BY <1>1 DEF Putting, SameWork
<1>6. Editing(w, u)
  <2>1. w \in Savers => \A d \in t.add \cup t.cut : KeyName(d.key) \in t.locks /\ d.key # KeyAt(t)
    <3>1. w \in Savers => KeyName(Keys[t.k]) \notin t.locks
      BY <1>1, <1>2 DEF Holding
    <3> QED BY <1>1, <1>2, <3>1 DEF Editing
  <2> QED BY <1>1, <1>2, <2>1 DEF Editing, SameWork
<1>7. Transition(w, u, D)
  BY <1>2 DEF Transition
<1>8. u.cut \subseteq D /\ Tile(ViewOf(u, D)) /\ (\A id \in Identities : NoRepeat(ChainOf(u, R, id))) /\ Reading(w, u, R)
  BY <1>1, <1>2 DEF SameWork, Reading
<1> QED BY <1>3, <1>4, <1>5, <1>6, <1>7, <1>8 DEF Local

\* Read: the lock of the row, and the head of its chain.
LEMMA ReadKeeps ==
  ASSUME NEW w \in Writers, NEW t \in Transactions, NEW u \in Transactions, NEW D, NEW R \in [Identities -> Seq(Values)],
         Local(w, t, D, R), t.pc = "read", u.pc \in {"read", "write"}, SameWork(t, u), u.shut = t.shut,
         u.locks = IF w \in Savers THEN t.locks \cup {RowName(IdOf(w, t))} ELSE t.locks,
         u.seen = Len(ChainOf(t, R, IdOf(w, t))),
         u.pc = "write" => ~(u.seen > 0 /\ Last(ChainOf(t, R, IdOf(w, t))) = t.obs[t.m].val)
  PROVE  Local(w, u, D, R)
<1>1. /\ Position(w, t) /\ Holding(w, t) /\ Putting(w, t) /\ Editing(w, t)
      /\ t.cut \subseteq D /\ Tile(ViewOf(t, D)) /\ \A id \in Identities : NoRepeat(ChainOf(t, R, id))
  BY DEF Local
<1>2. /\ t.k \in 1..Len(Keys) /\ (w \in Savers => KeyAt(t) = Keys[t.k]) /\ IdOf(w, t) \in Identities
      /\ KeyAt(u) = KeyAt(t) /\ ViewOf(u, D) = ViewOf(t, D) /\ IdOf(w, u) = IdOf(w, t) /\ FromOf(w, u) = FromOf(w, t)
      /\ \A id : ChainOf(u, R, id) = ChainOf(t, R, id)
  <2>1. Position(w, t) /\ t.pc # "idle"
    BY <1>1
  <2>2. /\ t.k \in 1..Len(Keys) /\ (w \in Savers => KeyAt(t) = Keys[t.k]) /\ IdOf(w, t) \in Identities
    BY <2>1, AtHand
  <2>3. /\ KeyAt(u) = KeyAt(t) /\ ViewOf(u, D) = ViewOf(t, D) /\ IdOf(w, u) = IdOf(w, t) /\ FromOf(w, u) = FromOf(w, t)
        /\ \A id : ChainOf(u, R, id) = ChainOf(t, R, id)
    <3>1. SameWork(t, u)
      OBVIOUS
    <3> QED BY ONLY <3>1, SameWorkSame
  <2> QED BY <2>2, <2>3
<1>3. Position(w, u)
  BY <1>1 DEF Position, SameWork
<1>4. Holding(w, u)
  <2>1. w \in Imports => u.locks = {} /\ u.shut = {}
    BY <1>1, WriterSources DEF Holding
  <2>2. ASSUME w \in Savers PROVE \A j \in 1..Len(Keys) : KeyName(Keys[j]) \in u.locks <=> (j < t.k \/ j = t.k)
    <3>1. \A j \in 1..Len(Keys) : KeyName(Keys[j]) \in t.locks <=> (j < t.k \/ j = t.k)
      BY <1>1, <1>2, <2>2 DEF Holding
    <3>2. \A j \in 1..Len(Keys) : KeyName(Keys[j]) # RowName(IdOf(w, t))
      BY DEF RowName, KeyName
    <3> QED BY <2>2, <3>1, <3>2
  <2>3. ASSUME w \in Savers PROVE \A id \in Identities : RowName(id) \in u.locks => KeyName(id.key) \in u.locks
    <3>1. KeyName(KeyAt(t)) \in t.locks
      BY <1>1, <1>2, <2>3 DEF Holding
    <3>2. \A id \in Identities : RowName(id) = RowName(IdOf(w, t)) => id = IdOf(w, t)
      BY DEF RowName
    <3>3. IdOf(w, t).key = KeyAt(t)
      BY DEF IdOf
    <3> QED BY <1>1, <2>3, <3>1, <3>2, <3>3 DEF Holding
  <2>4. w \in Savers => RowName(IdOf(w, u)) \in u.locks
    BY <1>2
  <2> QED BY <1>3, <2>1, <2>2, <2>3, <2>4 DEF Holding, SameWork
<1>5. Putting(w, u)
  BY <1>1 DEF Putting, SameWork
<1>6. Editing(w, u)
  BY <1>1 DEF Editing, SameWork
<1>7. Transition(w, u, D)
  BY DEF Transition
<1>8. u.cut \subseteq D /\ Tile(ViewOf(u, D)) /\ (\A id \in Identities : NoRepeat(ChainOf(u, R, id)))
  BY <1>1, <1>2 DEF SameWork
<1>9. Reading(w, u, R)
  <2>1. ChainOf(u, R, IdOf(w, u)) = ChainOf(t, R, IdOf(w, t)) /\ u.obs[u.m] = t.obs[t.m]
    BY <1>2 DEF SameWork
  <2>2. Len(ChainOf(t, R, IdOf(w, t))) \in Nat
    BY <1>2, ChainIsSeq, LenProperties
  <2> QED BY <2>1, <2>2 DEF Reading, Last
<1> QED BY <1>3, <1>4, <1>5, <1>6, <1>7, <1>8, <1>9 DEF Local

\* The next observation, the next key, or the end of both loops.
LEMMA Moved ==
  ASSUME NEW t \in Transactions, NEW k \in Nat, NEW m \in Nat, NEW pc \in {"define", "create", "read", "write", "commit"}
  PROVE  /\ [t EXCEPT !.k = k, !.m = m, !.pc = pc] \in Transactions
         /\ [t EXCEPT !.m = m, !.pc = pc] \in Transactions
BY DEF Transactions

LEMMA OnwardIs ==
  ASSUME NEW t \in Transactions, t.k \in 1..Len(t.order), t.m \in 1..Len(t.obs)
  PROVE  LET u == Onward(t) IN
           /\ u \in Transactions
           /\ u.run = t.run /\ u.version = t.version /\ u.obs = t.obs /\ u.order = t.order /\ u.seen = t.seen
           /\ u.locks = t.locks /\ u.shut = t.shut /\ u.add = t.add /\ u.cut = t.cut /\ u.puts = t.puts
           /\ \/ u.pc = "read" /\ u.k = t.k /\ u.m = t.m + 1 /\ u.m <= Len(t.obs)
              \/ u.pc = "define" /\ u.k = t.k + 1 /\ u.k <= Len(t.order) /\ u.m = 1 /\ t.m = Len(t.obs)
              \/ u.pc = "commit" /\ u.k = t.k /\ u.m = t.m /\ t.k = Len(t.order) /\ t.m = Len(t.obs)
<1>1. t.obs \in Seq(Observations) /\ t.order \in Seq(AllKeys) /\ t.k \in Nat /\ t.m \in Nat
  BY DEF Transactions
<1>2. Len(t.obs) \in Nat /\ Len(t.order) \in Nat
  BY <1>1, LenProperties
<1>3. CASE t.m < Len(t.obs)
  <2>1. Onward(t) = [t EXCEPT !.m = @ + 1, !.pc = "read"]
    BY <1>3 DEF Onward
  <2>2. [t EXCEPT !.m = @ + 1, !.pc = "read"] \in Transactions
    <3> DEFINE m == t.m + 1
    <3>1. m \in Nat
      BY <1>1
    <3> HIDE DEF m
    <3>2. [t EXCEPT !.m = m, !.pc = "read"] \in Transactions
      BY <3>1, Moved
    <3> QED BY <3>2 DEF m
  <2>3. PICK u \in Transactions : u = [t EXCEPT !.m = @ + 1, !.pc = "read"]
    BY <2>2
  <2>4. /\ u.run = t.run /\ u.version = t.version /\ u.obs = t.obs /\ u.order = t.order /\ u.seen = t.seen
        /\ u.locks = t.locks /\ u.shut = t.shut /\ u.add = t.add /\ u.cut = t.cut /\ u.puts = t.puts
        /\ u.pc = "read" /\ u.k = t.k /\ u.m = t.m + 1
    BY <2>3 DEF Transactions
  <2> QED BY <1>1, <1>2, <1>3, <2>1, <2>3, <2>4
<1>4. CASE ~(t.m < Len(t.obs)) /\ t.k < Len(t.order)
  <2>1. Onward(t) = [t EXCEPT !.k = @ + 1, !.m = 1, !.pc = "define"]
    BY <1>4 DEF Onward
  <2>2. [t EXCEPT !.k = @ + 1, !.m = 1, !.pc = "define"] \in Transactions
    <3> DEFINE k == t.k + 1
               m == 1
    <3>1. k \in Nat /\ m \in Nat
      BY <1>1
    <3> HIDE DEF k, m
    <3>2. [t EXCEPT !.k = k, !.m = m, !.pc = "define"] \in Transactions
      BY <3>1, Moved
    <3> QED BY <3>2 DEF k, m
  <2>3. PICK u \in Transactions : u = [t EXCEPT !.k = @ + 1, !.m = 1, !.pc = "define"]
    BY <2>2
  <2>4. /\ u.run = t.run /\ u.version = t.version /\ u.obs = t.obs /\ u.order = t.order /\ u.seen = t.seen
        /\ u.locks = t.locks /\ u.shut = t.shut /\ u.add = t.add /\ u.cut = t.cut /\ u.puts = t.puts
        /\ u.pc = "define" /\ u.k = t.k + 1 /\ u.m = 1
    BY <2>3 DEF Transactions
  <2> QED BY <1>1, <1>2, <1>4, <2>1, <2>3, <2>4
<1>5. CASE ~(t.m < Len(t.obs)) /\ ~(t.k < Len(t.order))
  <2>1. Onward(t) = [t EXCEPT !.pc = "commit"]
    BY <1>5 DEF Onward
  <2>2. [t EXCEPT !.pc = "commit"] \in Transactions
    BY <1>1, <1>2 DEF Transactions
  <2>3. PICK u \in Transactions : u = [t EXCEPT !.pc = "commit"]
    BY <2>2
  <2>4. /\ u.run = t.run /\ u.version = t.version /\ u.obs = t.obs /\ u.order = t.order /\ u.seen = t.seen
        /\ u.locks = t.locks /\ u.shut = t.shut /\ u.add = t.add /\ u.cut = t.cut /\ u.puts = t.puts
        /\ u.pc = "commit" /\ u.k = t.k /\ u.m = t.m
    BY <2>3 DEF Transactions
  <2> QED BY <1>1, <1>2, <1>5, <2>1, <2>3, <2>4
<1> QED BY <1>3, <1>4, <1>5

LEMMA OnwardKeeps ==
  ASSUME NEW w \in Writers, NEW t \in Transactions, NEW D, NEW R \in [Identities -> Seq(Values)],
         t.pc \in {"read", "write"},
         Position(w, t), Holding(w, t), Putting(w, t), Editing(w, t),
         t.cut \subseteq D, Tile(ViewOf(t, D)), \A id \in Identities : NoRepeat(ChainOf(t, R, id))
  PROVE  Onward(t) \in Transactions /\ Local(w, Onward(t), D, R)
<1> DEFINE u == Onward(t)
<1>1. /\ t.k \in 1..Len(t.order) /\ t.m \in 1..Len(t.obs) /\ Len(t.order) = Len(Keys) /\ Len(Keys) \in Nat
      /\ t.k \in 1..Len(Keys)
  BY KeysAreDistinct DEF Position
<1>2. /\ u \in Transactions
      /\ u.run = t.run /\ u.version = t.version /\ u.obs = t.obs /\ u.order = t.order /\ u.seen = t.seen
      /\ u.locks = t.locks /\ u.shut = t.shut /\ u.add = t.add /\ u.cut = t.cut /\ u.puts = t.puts
      /\ \/ u.pc = "read" /\ u.k = t.k /\ u.m = t.m + 1 /\ u.m <= Len(t.obs)
         \/ u.pc = "define" /\ u.k = t.k + 1 /\ u.k <= Len(t.order) /\ u.m = 1 /\ t.m = Len(t.obs)
         \/ u.pc = "commit" /\ u.k = t.k /\ u.m = t.m /\ t.k = Len(t.order) /\ t.m = Len(t.obs)
  BY <1>1, OnwardIs
<1> HIDE DEF u
<1>3. Position(w, u)
  <2>1. /\ t.obs # <<>> /\ (w \in Savers => t.order = Keys)
        /\ (w \in Imports => Len(t.obs) = 1 /\ t.version = ImportVersion)
    BY DEF Position
  <2>2. u.k \in 1..Len(u.order) /\ u.m \in 1..Len(u.obs)
    BY <1>1, <1>2
  <2>3. u.pc # "idle" /\ (u.pc \in {"define", "create"} => u.m = 1)
    BY <1>2
  <2> QED BY <1>1, <1>2, <2>1, <2>2, <2>3 DEF Position
<1>4. Holding(w, u)
  <2>1. w \in Imports => u.locks = {} /\ u.shut = {}
    BY <1>2 DEF Holding
  <2>2. ASSUME w \in Savers
        PROVE  \A j \in 1..Len(Keys) : KeyName(Keys[j]) \in u.locks <=> (j < u.k \/ (j = u.k /\ u.pc # "define"))
    <3>1. \A j \in 1..Len(Keys) : KeyName(Keys[j]) \in u.locks <=> (j < t.k \/ j = t.k)
      BY <1>2, <2>2 DEF Holding
    <3>2. SUFFICES ASSUME NEW j \in 1..Len(Keys)
                   PROVE  (j < t.k \/ j = t.k) <=> (j < u.k \/ (j = u.k /\ u.pc # "define"))
      BY <3>1
    <3> QED BY <1>1, <1>2
  <2>3. ASSUME w \in Savers PROVE \A id \in Identities : RowName(id) \in u.locks => KeyName(id.key) \in u.locks
    BY <1>2, <2>3 DEF Holding
  <2> QED BY <1>2, <2>1, <2>2, <2>3 DEF Holding
<1>5. Putting(w, u)
  BY <1>2 DEF Putting
<1>6. Editing(w, u)
  BY <1>2 DEF Editing
<1>7. Transition(w, u, D) /\ Reading(w, u, R)
  BY <1>2 DEF Transition, Reading
<1>8. u.cut \subseteq D /\ Tile(ViewOf(u, D)) /\ \A id \in Identities : NoRepeat(ChainOf(u, R, id))
  BY <1>2 DEF ViewOf, ChainOf
<1>9. Local(w, u, D, R)
  BY <1>3, <1>4, <1>5, <1>6, <1>7, <1>8 DEF Local
<1> QED BY <1>2, <1>9 DEF u

\* Create, sync job: close the open definition and add the new one.
LEMMA TransitionKeeps ==
  ASSUME NEW w \in Savers, NEW t \in Transactions, NEW u \in Transactions, NEW D \in SUBSET Definitions, NEW R,
         Local(w, t, D, R), t.pc = "create", u.pc = "read",
         u.run = t.run, u.version = t.version, u.obs = t.obs, u.order = t.order, u.k = t.k, u.m = t.m,
         u.locks = t.locks, u.shut = t.shut, u.puts = t.puts,
         NEW n \in Definitions, n.key = KeyAt(t), n.source = "official", n.to = Forever, n.from = FromOf(w, t),
         NEW closed, closed = ClosedAt(t.shut, n.from),
         u.cut = t.cut \cup t.shut, u.add = t.add \cup closed \cup {n}
  PROVE  /\ \A d \in (ViewOf(t, D) \ t.shut) \cup closed : ~Overlap(d, n)
         /\ Local(w, u, D, R)
         /\ closed \subseteq Definitions
         /\ \A d \in u.add \cup u.cut : d \in t.add \cup t.cut \/ (d.key = KeyAt(t) /\ d.source = "official")
<1>1. /\ Position(w, t) /\ Holding(w, t) /\ Putting(w, t) /\ Editing(w, t) /\ Transition(w, t, D)
      /\ t.cut \subseteq D /\ Tile(ViewOf(t, D)) /\ \A id \in Identities : NoRepeat(ChainOf(t, R, id))
  BY DEF Local
<1>2. w \in Writers /\ w \notin Imports /\ Source(w) = "official"
  BY WriterSources DEF Writers
<1>3. t.k \in 1..Len(Keys) /\ KeyAt(t) = Keys[t.k] /\ KeyAt(u) = KeyAt(t)
  <2>1. Position(w, t) /\ t.pc # "idle"
    BY <1>1
  <2>2. KeyAt(u) = KeyAt(t)
    BY DEF KeyAt
  <2> QED BY <1>2, <2>1, <2>2, AtHand
<1>4. t.shut = OpenOf(ViewOf(t, D), n.key, n.source) /\ \A d \in t.shut : d.from < n.from
  BY <1>1 DEF Transition
<1>5. ViewOf(t, D) \in SUBSET Definitions
  BY DEF ViewOf, Transactions
<1>6. /\ \A d \in (ViewOf(t, D) \ t.shut) \cup closed : ~Overlap(d, n)
      /\ Tile((ViewOf(t, D) \ t.shut) \cup closed \cup {n})
      /\ closed \subseteq Definitions
  <2> DEFINE V == ViewOf(t, D)
             shut == t.shut
  <2>1. /\ V \in SUBSET Definitions /\ Tile(V) /\ shut = OpenOf(V, n.key, n.source)
        /\ (\A d \in shut : d.from < n.from) /\ closed = ClosedAt(shut, n.from)
    BY <1>1, <1>4, <1>5
  <2> HIDE DEF V, shut
  <2>2. n \in Definitions /\ n.to = Forever
    OBVIOUS
  <2>3. /\ \A d \in (V \ shut) \cup closed : ~Overlap(d, n)
        /\ Tile((V \ shut) \cup closed \cup {n})
        /\ closed \subseteq Definitions
    BY ONLY <2>1, <2>2, TileTransition
  <2> QED BY <2>3 DEF V, shut
<1>7. \A d \in t.shut : d.key = KeyAt(t) /\ d.source = "official" /\ d \notin t.add /\ d \in D
  <2>1. \A d \in t.add : d.key # KeyAt(t)
    BY <1>1 DEF Editing
  <2> QED BY <1>4, <2>1 DEF Group, OpenOf, ViewOf
<1>8. \A d \in closed : d.key = KeyAt(t) /\ d.source = "official"
  <2> TAKE c \in closed
  <2>1. PICK d \in t.shut : c = [d EXCEPT !.to = n.from]
    BY DEF ClosedAt
  <2>2. d \in Definitions
    BY DEF Transactions
  <2> QED BY <1>7, <2>1, <2>2 DEF Definitions
<1>9. ViewOf(u, D) = (ViewOf(t, D) \ t.shut) \cup closed \cup {n}
  BY <1>7 DEF ViewOf
<1>10. Position(w, u)
  BY <1>1 DEF Position
<1>11. Holding(w, u)
  BY <1>1, <1>2 DEF Holding
<1>12. Putting(w, u)
  BY <1>1 DEF Putting
<1>13. \A d \in u.add \cup u.cut : d \in t.add \cup t.cut \/ (d.key = KeyAt(t) /\ d.source = "official")
  BY <1>7, <1>8
<1>14. Editing(w, u)
  <2>1. KeyName(KeyAt(t)) \in t.locks
    BY <1>1, <1>3 DEF Holding
  <2>2. \A d \in u.add \cup u.cut : d.source = "official" /\ KeyName(d.key) \in u.locks
    BY <1>1, <1>2, <1>13, <2>1 DEF Editing
  <2> QED BY <1>2, <2>2 DEF Editing
<1>15. Transition(w, u, D) /\ Reading(w, u, R)
  BY DEF Transition, Reading
<1>16. u.cut \subseteq D /\ Tile(ViewOf(u, D)) /\ \A id \in Identities : NoRepeat(ChainOf(u, R, id))
  <2>1. u.cut \subseteq D
    BY <1>1, <1>7
  <2>2. Tile(ViewOf(u, D))
    BY <1>6, <1>9
  <2>3. \A id \in Identities : ChainOf(u, R, id) = ChainOf(t, R, id)
    BY DEF ChainOf
  <2> QED BY <1>1, <2>1, <2>2, <2>3
<1>17. Local(w, u, D, R)
  BY <1>10, <1>11, <1>12, <1>14, <1>15, <1>16 DEF Local
<1> QED BY <1>6, <1>13, <1>17

\* Create, import: there is none, and nothing overlaps it.
LEMMA FirstKeeps ==
  ASSUME NEW w \in Imports, NEW t \in Transactions, NEW u \in Transactions, NEW D \in SUBSET Definitions, NEW R,
         Local(w, t, D, R), t.pc = "create", u.pc = "read",
         u.run = t.run, u.version = t.version, u.obs = t.obs, u.order = t.order, u.k = t.k, u.m = t.m,
         u.locks = t.locks, u.shut = t.shut, u.puts = t.puts, u.cut = t.cut,
         NEW n \in Definitions, n.source = "self-scrape", n.to = Forever, n.from = 0,
         \A d \in ViewOf(t, D) : ~Overlap(d, n), u.add = t.add \cup {n}
  PROVE  Local(w, u, D, R)
<1>1. /\ Position(w, t) /\ Holding(w, t) /\ Putting(w, t) /\ Editing(w, t) /\ Transition(w, t, D)
      /\ t.cut \subseteq D /\ Tile(ViewOf(t, D)) /\ \A id \in Identities : NoRepeat(ChainOf(t, R, id))
  BY DEF Local
<1>2. w \in Writers /\ w \notin Savers /\ Source(w) = "self-scrape"
  BY WriterSources DEF Writers
<1>3. ViewOf(t, D) \in SUBSET Definitions
  BY DEF ViewOf, Transactions
<1>4. ViewOf(u, D) = ViewOf(t, D) \cup {n}
  BY DEF ViewOf
<1>5. Tile(ViewOf(u, D))
  BY <1>1, <1>3, <1>4, TileFirst
<1>6. Position(w, u) /\ Putting(w, u)
  BY <1>1 DEF Position, Putting
<1>7. Holding(w, u)
  BY <1>1, <1>2 DEF Holding
<1>8. Editing(w, u)
  BY <1>1, <1>2 DEF Editing
<1>9. Transition(w, u, D) /\ Reading(w, u, R)
  BY DEF Transition, Reading
<1>10. \A id \in Identities : ChainOf(u, R, id) = ChainOf(t, R, id)
  BY DEF ChainOf
<1> QED BY <1>1, <1>5, <1>6, <1>7, <1>8, <1>9, <1>10 DEF Local

\* Write: the next revision, if the head is still what was read.
Appended(s, t, id, v, R) ==
  /\ s \in Transactions
  /\ s.pc = t.pc /\ s.run = t.run /\ s.version = t.version /\ s.obs = t.obs /\ s.order = t.order
  /\ s.k = t.k /\ s.m = t.m /\ s.seen = t.seen
  /\ s.locks = t.locks /\ s.shut = t.shut /\ s.add = t.add /\ s.cut = t.cut
  /\ s.puts[id] # <<>> /\ ChainOf(s, R, id) = Append(ChainOf(t, R, id), v)
  /\ \A i \in Identities : i # id => s.puts[i] = t.puts[i] /\ ChainOf(s, R, i) = ChainOf(t, R, i)

LEMMA AppendIs ==
  ASSUME NEW t \in Transactions, NEW id \in Identities, NEW v \in Values, NEW R \in [Identities -> Seq(Values)],
         NEW s, s = Put(t, id, v)
  PROVE  Appended(s, t, id, v, R)
<1>1. t.puts \in [Identities -> Seq(Values)] /\ t.puts[id] \in Seq(Values) /\ R[id] \in Seq(Values)
  BY DEF Transactions
<1> DEFINE q == Append(t.puts[id], v)
           p == [t.puts EXCEPT ![id] = q]
<1>2. q \in Seq(Values) /\ q # <<>>
  <2> DEFINE p0 == t.puts[id]
  <2>1. p0 \in Seq(Values) /\ v \in Values
    BY <1>1
  <2> HIDE DEF p0
  <2>2. Append(p0, v) \in Seq(Values) /\ Append(p0, v) # <<>>
    BY ONLY <2>1, AppendProperties
  <2> QED BY <2>2 DEF p0
<1>3. s = [t EXCEPT !.puts = p]
  BY DEF Transactions, Put
<1>4. R[id] \o q = Append(R[id] \o t.puts[id], v)
  BY <1>1, ExtendChain
<1> HIDE DEF q
<1>5. p \in [Identities -> Seq(Values)] /\ p[id] = q /\ \A i \in Identities : i # id => p[i] = t.puts[i]
  BY <1>1, <1>2
<1> HIDE DEF p
<1>6. /\ s \in Transactions
      /\ s.pc = t.pc /\ s.run = t.run /\ s.version = t.version /\ s.obs = t.obs /\ s.order = t.order
      /\ s.k = t.k /\ s.m = t.m /\ s.seen = t.seen
      /\ s.locks = t.locks /\ s.shut = t.shut /\ s.add = t.add /\ s.cut = t.cut /\ s.puts = p
  BY <1>3, <1>5 DEF Transactions
<1>7. ChainOf(s, R, id) = Append(ChainOf(t, R, id), v)
  BY <1>4, <1>5, <1>6 DEF ChainOf
<1>8. \A i \in Identities : i # id => s.puts[i] = t.puts[i] /\ ChainOf(s, R, i) = ChainOf(t, R, i)
  BY <1>5, <1>6 DEF ChainOf
<1> QED BY <1>2, <1>5, <1>6, <1>7, <1>8 DEF Appended

LEMMA AppendKeeps ==
  ASSUME NEW w \in Writers, NEW t \in Transactions, NEW D, NEW R \in [Identities -> Seq(Values)],
         Local(w, t, D, R), t.pc = "write", Len(ChainOf(t, R, IdOf(w, t))) = t.seen,
         NEW s, s = Put(t, IdOf(w, t), t.obs[t.m].val)
  PROVE  /\ Position(w, s) /\ Holding(w, s) /\ Putting(w, s) /\ Editing(w, s)
         /\ s.cut \subseteq D /\ Tile(ViewOf(s, D)) /\ \A id \in Identities : NoRepeat(ChainOf(s, R, id))
<1>1. /\ Position(w, t) /\ Holding(w, t) /\ Putting(w, t) /\ Editing(w, t) /\ Reading(w, t, R)
      /\ t.cut \subseteq D /\ Tile(ViewOf(t, D)) /\ \A id \in Identities : NoRepeat(ChainOf(t, R, id))
  BY DEF Local
<1> DEFINE me == IdOf(w, t)
           v == t.obs[t.m].val
<1>2. me \in Identities /\ v \in Values /\ t.m \in 1..Len(t.obs)
  <2>1. Position(w, t) /\ t.pc # "idle"
    BY <1>1
  <2> QED BY <2>1, AtHand DEF Observations
<1>3. me.source = Source(w) /\ me.platform = PlatformOf[w] /\ me.version = t.version /\ me.at = t.obs[t.m].at
  BY DEF IdOf
<1>4. Len(ChainOf(t, R, me)) = t.seen /\ (t.seen > 0 => ChainOf(t, R, me)[t.seen] # v)
  BY <1>1 DEF Reading
<1>5. w \in Savers => RowName(me) \in t.locks
  BY <1>1 DEF Holding
<1>6. IdOf(w, s) = me
  <2>1. s = [t EXCEPT !.puts[me] = Append(@, v)]
    BY DEF Put
  <2> QED BY <2>1 DEF IdOf, KeyAt, Transactions
<1>7. s = Put(t, me, v)
  OBVIOUS
<1> HIDE DEF me, v
<1>8. Appended(s, t, me, v, R)
  <2>1. t \in Transactions /\ R \in [Identities -> Seq(Values)] /\ me \in Identities /\ v \in Values
    BY <1>2
  <2> QED BY ONLY <1>7, <2>1, AppendIs
<1>9. Position(w, s)
  BY <1>1, <1>8 DEF Position, Appended
<1>10. Holding(w, s)
  BY <1>1, <1>5, <1>6, <1>8 DEF Holding, Appended
<1>11. Putting(w, s)
  <2> SUFFICES ASSUME NEW id \in Identities, s.puts[id] # <<>>
               PROVE  /\ id.source = Source(w) /\ id.platform = PlatformOf[w] /\ id.version = s.version
                      /\ w \in Savers => RowName(id) \in s.locks
                      /\ w \in Imports => id.at = s.obs[1].at
    BY DEF Putting
  <2>1. CASE id = me
    <3>1. w \in Imports => t.m = 1
      BY <1>1, <1>2 DEF Position
    <3> QED BY <1>3, <1>5, <1>8, <2>1, <3>1 DEF Appended
  <2>2. CASE id # me
    BY <1>1, <1>8, <2>2 DEF Putting, Appended
  <2> QED BY <2>1, <2>2
<1>12. Editing(w, s)
  BY <1>1, <1>8 DEF Editing, Appended
<1>13. NoRepeat(ChainOf(s, R, me))
  <2>1. ChainOf(t, R, me) \in Seq(Values)
    BY <1>2, ChainIsSeq
  <2>2. NoRepeat(ChainOf(t, R, me))
    BY <1>1, <1>2
  <2> DEFINE c == ChainOf(t, R, me)
  <2>3. c \in Seq(Values) /\ NoRepeat(c) /\ (Len(c) > 0 => c[Len(c)] # v)
    BY <1>4, <2>1, <2>2
  <2> HIDE DEF c
  <2>4. NoRepeat(Append(c, v))
    BY <1>2, <2>3, AppendNoRepeat
  <2> QED BY <1>8, <2>4 DEF c, Appended
<1>14. \A id \in Identities : NoRepeat(ChainOf(s, R, id))
  BY <1>1, <1>8, <1>13 DEF Appended
<1>15. s.cut \subseteq D /\ Tile(ViewOf(s, D))
  BY <1>1, <1>8 DEF ViewOf, Appended
<1> QED BY <1>9, <1>10, <1>11, <1>12, <1>14, <1>15

---------------------------------------------------------------------------
(* What the commit of another transaction does to one.                     *)

After(u, R) == [id \in Identities |-> ChainOf(u, R, id)]

\* The chain of an identity grows by what one of the two wrote of it.
LEMMA ChainsMeet ==
  ASSUME NEW t \in Transactions, NEW u \in Transactions, NEW R \in [Identities -> Seq(Values)], Apart(t, u),
         NEW id \in Identities
  PROVE  /\ u.puts[id] = <<>> => ChainOf(t, After(u, R), id) = ChainOf(t, R, id) /\ After(u, R)[id] = R[id]
         /\ u.puts[id] # <<>> => /\ ChainOf(t, After(u, R), id) = ChainOf(u, R, id)
                                 /\ ChainOf(t, R, id) = R[id]
                                 /\ Len(ChainOf(t, After(u, R), id)) > Len(ChainOf(t, R, id))
<1>1. After(u, R) \in [Identities -> Seq(Values)] /\ After(u, R)[id] = ChainOf(u, R, id)
  BY ChainIsSeq DEF After
<1>2. CASE u.puts[id] = <<>>
  BY <1>1, <1>2, ChainIsSeq DEF ChainOf
<1>3. CASE u.puts[id] # <<>>
  <2>1. t.puts[id] = <<>>
    BY <1>3 DEF Apart
  <2>2. ChainOf(t, After(u, R), id) = After(u, R)[id]
    BY <1>1, <2>1, ChainIsSeq
  <2>3. ChainOf(t, R, id) = R[id]
    BY <2>1, ChainIsSeq
  <2>4. Len(ChainOf(u, R, id)) = Len(R[id]) + Len(u.puts[id]) /\ Len(R[id]) \in Nat
    BY ChainIsSeq
  <2>5. u.puts[id] \in Seq(Values)
    BY DEF Transactions
  <2>6. Len(u.puts[id]) \in Nat \ {0}
    BY <1>3, <2>5, EmptySeq
  <2> QED BY <1>1, <1>3, <2>2, <2>3, <2>4, <2>6
<1> QED BY <1>2, <1>3

LEMMA CommitOfOther ==
  ASSUME NEW v \in Writers, NEW w \in Writers, v # w, NEW t \in Transactions, NEW u \in Transactions,
         NEW D \in SUBSET Definitions, NEW R \in [Identities -> Seq(Values)],
         Local(v, t, D, R), Local(w, u, D, R), Apart(t, u), Tile(D)
  PROVE  Local(v, t, ViewOf(u, D), After(u, R))
<1>1. /\ Position(v, t) /\ Holding(v, t) /\ Putting(v, t) /\ Editing(v, t) /\ Transition(v, t, D) /\ Reading(v, t, R)
      /\ t.cut \subseteq D /\ Tile(ViewOf(t, D)) /\ \A id \in Identities : NoRepeat(ChainOf(t, R, id))
  BY DEF Local
<1>2. /\ Holding(w, u) /\ Putting(w, u) /\ Editing(w, u)
      /\ u.cut \subseteq D /\ Tile(ViewOf(u, D)) /\ \A id \in Identities : NoRepeat(ChainOf(u, R, id))
  BY DEF Local
<1> DEFINE E == ViewOf(u, D)
<1>3. \A d \in t.add \cup t.cut, e \in u.add \cup u.cut : d.key # e.key \/ d.source # e.source
  BY DEF Apart
<1>4. t.cut \subseteq E
  BY <1>1, <1>3 DEF ViewOf
\* Each metric is as one of the two transactions left it.
<1>5. \A key, source : ~Touches(u, key, source) => Group(E, key, source) = Group(D, key, source)
                                                   /\ Group(ViewOf(t, E), key, source) = Group(ViewOf(t, D), key, source)
  BY DEF Touches, Group, ViewOf
<1>6. \A key, source : Touches(u, key, source) => Group(ViewOf(t, E), key, source) = Group(E, key, source)
  <2> SUFFICES ASSUME NEW key, NEW source, Touches(u, key, source)
               PROVE  Group(ViewOf(t, E), key, source) = Group(E, key, source)
    OBVIOUS
  <2>1. \A d \in t.add \cup t.cut : ~(d.key = key /\ d.source = source)
    BY <1>3 DEF Touches
  <2> QED BY <2>1 DEF Group, ViewOf
<1>7. Tile(ViewOf(t, E))
  <2> DEFINE S == ViewOf(t, E)
             S1 == ViewOf(t, D)
  <2>1. \A d \in S : \E T : Tile(T) /\ Group(S, d.key, d.source) = Group(T, d.key, d.source)
    <3> TAKE d \in S
    <3>1. CASE Touches(u, d.key, d.source)
      BY <1>2, <1>6, <3>1
    <3>2. CASE ~Touches(u, d.key, d.source)
      BY <1>1, <1>5, <3>2
    <3> QED BY <3>1, <3>2
  <2> HIDE DEF S
  <2>2. Tile(S)
    BY ONLY <2>1, TileByGroup
  <2> QED BY <2>2 DEF S
<1>8. Transition(v, t, E)
  <2> SUFFICES ASSUME v \in Savers, t.pc = "create"
               PROVE  OpenOf(ViewOf(t, E), KeyAt(t), "official") = OpenOf(ViewOf(t, D), KeyAt(t), "official")
    BY <1>1 DEF Transition
  <2>1. KeyName(KeyAt(t)) \in t.locks
    <3>1. Position(v, t) /\ t.pc # "idle"
      BY <1>1
    <3>2. t.k \in 1..Len(Keys) /\ KeyAt(t) = Keys[t.k]
      BY <3>1, AtHand
    <3> QED BY <1>1, <3>2 DEF Holding
  <2>2. KeyName(KeyAt(t)) \notin u.locks
    BY <2>1 DEF Apart
  <2>3. ~Touches(u, KeyAt(t), "official")
    <3>1. CASE w \in Savers
      BY <1>2, <2>2, <3>1 DEF Touches, Editing
    <3>2. CASE w \notin Savers
      BY <1>2, <3>2, WriterSources DEF Touches, Editing
    <3> QED BY <3>1, <3>2
  <2> QED BY <1>5, <2>3 DEF OpenOf
<1>9. \A id \in Identities : NoRepeat(ChainOf(t, After(u, R), id))
  <2> TAKE id \in Identities
  <2>1. CASE u.puts[id] = <<>>
    BY <1>1, <2>1, ChainsMeet
  <2>2. CASE u.puts[id] # <<>>
    BY <1>2, <2>2, ChainsMeet
  <2> QED BY <2>1, <2>2
<1>10. Reading(v, t, After(u, R))
  <2> SUFFICES ASSUME t.pc = "write"
               PROVE  LET chain == ChainOf(t, After(u, R), IdOf(v, t)) IN
                        /\ t.seen <= Len(chain)
                        /\ Len(chain) = t.seen /\ t.seen > 0 => chain[t.seen] # t.obs[t.m].val
                        /\ v \in Savers => Len(chain) = t.seen
    BY DEF Reading
  <2> DEFINE me == IdOf(v, t)
  <2>1. me \in Identities
    <3>1. Position(v, t) /\ t.pc # "idle"
      BY <1>1
    <3> QED BY <3>1, AtHand
  <2>2. CASE u.puts[me] = <<>>
    <3>1. ChainOf(t, After(u, R), me) = ChainOf(t, R, me)
      BY <2>1, <2>2, ChainsMeet
    <3> QED BY <1>1, <3>1 DEF Reading
  <2>3. CASE u.puts[me] # <<>>
    <3>1. me.source = Source(w)
      BY <1>2, <2>1, <2>3 DEF Putting
    <3>2. me.source = Source(v)
      BY DEF IdOf
    <3>3. v \notin Savers
      <4> SUFFICES ASSUME v \in Savers PROVE FALSE
        OBVIOUS
      <4>1. w \in Savers
        BY <3>1, <3>2, WriterSources
      <4>2. RowName(me) \in u.locks
        BY <1>2, <2>1, <2>3, <4>1 DEF Putting
      <4>3. RowName(me) \in t.locks
        BY <1>1 DEF Holding
      <4> QED BY <4>2, <4>3 DEF Apart
    <3>4. Len(ChainOf(t, After(u, R), me)) > Len(ChainOf(t, R, me))
      BY <2>1, <2>3, ChainsMeet
    <3>5. t.seen <= Len(ChainOf(t, R, me)) /\ t.seen \in Nat
      BY <1>1 DEF Reading, Transactions
    <3>6. Len(ChainOf(t, R, me)) \in Nat /\ Len(ChainOf(t, After(u, R), me)) \in Nat
      <4>1. After(u, R) \in [Identities -> Seq(Values)]
        BY ChainIsSeq DEF After
      <4> QED BY <2>1, <4>1, ChainIsSeq, LenProperties
    <3> QED BY <3>3, <3>4, <3>5, <3>6
  <2> QED BY <2>2, <2>3
<1> QED BY <1>1, <1>4, <1>7, <1>8, <1>9, <1>10 DEF Local

---------------------------------------------------------------------------
(* A statement of one transaction that neither ends it nor fails.          *)

\* The transaction of w is t now, and nobody else sees anything new.
LEMMA EvidenceStep ==
  ASSUME TypeOK, Evidence, NEW w \in Writers, NEW t \in Transactions, Local(w, t, defs, rows),
         \A v \in Others(w) : Apart(t, tx[v]), Goto(w, t), UNCHANGED <<defs, rows>>
  PROVE  /\ Evidence'
         /\ (tx \in [Writers -> Transactions] /\ \A v \in Writers : tx[v].cut \subseteq defs)'
         /\ tx'[w] = t /\ \A v \in Others(w) : tx'[v] = tx[v]
<1>1. tx'[w] = t /\ \A v \in Others(w) : tx'[v] = tx[v]
  BY DEF TypeOK, Goto, Others
<1>2. tx' \in [Writers -> Transactions]
  BY DEF TypeOK, Goto
<1>3. \A v \in Writers : Local(v, tx'[v], defs', rows')
  BY <1>1 DEF Evidence, Others
<1>4. \A u, v \in Writers : u # v => Apart(tx'[u], tx'[v])
  <2> TAKE u, v \in Writers
  <2>1. CASE u # w /\ v # w
    BY <1>1, <2>1 DEF Evidence, Others
  <2>2. CASE u = w
    BY <1>1, <2>2 DEF Others
  <2>3. CASE v = w /\ u # w
    BY <1>1, <2>3, ApartSymmetric DEF Others
  <2> QED BY <2>1, <2>2, <2>3
<1>5. Evidence'
  BY <1>3, <1>4 DEF Evidence
<1>6. \A v \in Writers : tx'[v].cut \subseteq defs'
  BY <1>3 DEF Local
<1> QED BY <1>1, <1>2, <1>5, <1>6

LEMMA OwedStays ==
  ASSUME Owed, UNCHANGED <<rows, events, built>>
  PROVE  Owed'
<1>1. \A at : ImportHeads(at)' = ImportHeads(at)
  BY DEF ImportHeads
<1> QED BY <1>1 DEF Owed

\* What the other parts of the invariant say of a transaction that goes on.
LEMMA GoKeeps ==
  ASSUME IInv, NEW w \in Writers, NEW t \in Transactions, tx[w].pc # "idle", t.pc # "idle", t.run = tx[w].run,
         Local(w, t, defs, rows), \A v \in Others(w) : Apart(t, tx[v]),
         w = Cli => AtLine(command, t, rows), Go(w, t), UNCHANGED faults
  PROVE  IInv'
<1>1. TypeOK /\ Evidence /\ Goto(w, t) /\ UNCHANGED <<defs, rows, fate, events, built, command, begun>>
  BY DEF IInv, Go
<1>2. /\ Evidence'
      /\ (tx \in [Writers -> Transactions] /\ \A v \in Writers : tx[v].cut \subseteq defs)'
      /\ tx'[w] = t /\ \A v \in Others(w) : tx'[v] = tx[v]
  BY <1>1, EvidenceStep
<1>3. TypeOK'
  BY <1>1, <1>2 DEF TypeOK
<1>4. Command'
  <2>1. CommandOf(command, tx'[Cli], rows)
    <3>1. CASE w = Cli
      BY <1>2, <3>1 DEF IInv, Command, CommandOf
    <3>2. CASE w # Cli
      <4>1. tx'[Cli] = tx[Cli]
        BY <1>2, <3>2 DEF Others, Writers, Imports
      <4> QED BY <4>1 DEF IInv, Command
    <3> QED BY <3>1, <3>2
  <2> QED BY <1>1, <2>1 DEF Command
<1>5. EventsSound'
  <2>1. \A v \in Writers : tx'[v].run = tx[v].run /\ (tx'[v].pc # "idle" <=> tx[v].pc # "idle")
    BY <1>2 DEF Others
  <2> QED BY <1>1, <2>1 DEF IInv, EventsSound
<1>6. Owed'
  BY <1>1, OwedStays DEF IInv
<1> QED BY <1>1, <1>2, <1>3, <1>4, <1>5, <1>6 DEF IInv, SaversNeverCollide

\* A transaction that fails leaves the tables; the import command ends with it.
LEMMA FailKeeps ==
  ASSUME IInv, NEW w \in Writers, NEW why \in {"rejected", "definition", "conflict", "deadlock", "lost"},
         w \in Savers => why \in {"rejected", "lost"}, Fail(w, why), faults' \in 0..MaxFaults
  PROVE  IInv'
<1>1. TypeOK /\ Evidence /\ Goto(w, NoTx) /\ UNCHANGED <<defs, rows, events, built, begun>>
  BY DEF IInv, Fail
<1>2. Local(w, NoTx, defs, rows)
  BY IdleLocal DEF IInv, TypeOK, Evidence
<1>3. \A v \in Others(w) : Apart(NoTx, tx[v])
  BY ApartFromNone
<1>4. NoTx \in Transactions /\ NoTx.pc = "idle"
  BY NoTxType
<1>5. /\ Evidence'
      /\ (tx \in [Writers -> Transactions] /\ \A v \in Writers : tx[v].cut \subseteq defs)'
      /\ tx'[w] = NoTx /\ \A v \in Others(w) : tx'[v] = tx[v]
  <2> DEFINE n == NoTx
  <2>1. TypeOK /\ Evidence /\ Goto(w, n) /\ UNCHANGED <<defs, rows>> /\ n \in Transactions
        /\ Local(w, n, defs, rows) /\ \A v \in Others(w) : Apart(n, tx[v])
    BY <1>1, <1>2, <1>3, <1>4
  <2> HIDE DEF n
  <2>2. /\ Evidence'
        /\ (tx \in [Writers -> Transactions] /\ \A v \in Writers : tx[v].cut \subseteq defs)'
        /\ tx'[w] = n /\ \A v \in Others(w) : tx'[v] = tx[v]
    BY <2>1, EvidenceStep
  <2> QED BY <2>2 DEF n
<1>6. fate' = [fate EXCEPT ![w] = why] /\ fate \in [Writers -> {"none", "committed", "rejected", "definition", "conflict", "deadlock", "lost"}]
  BY DEF Fail, IInv, TypeOK
<1>7. command' = IF w = Cli THEN [command EXCEPT !.st = "over", !.audit = "failed"] ELSE command
  BY DEF Fail
<1>8. TypeOK'
  <2>1. fate' \in [Writers -> {"none", "committed", "rejected", "definition", "conflict", "deadlock", "lost"}]
    BY <1>6
  <2>2. command' \in Commands
    BY <1>7 DEF IInv, TypeOK, Commands
  <2> QED BY <1>1, <1>5, <2>1, <2>2 DEF TypeOK
<1>9. Command'
  <2>1. CommandOf(command', tx'[Cli], rows)
    <3>1. CASE w = Cli
      <4>1. /\ command'.st = "over" /\ command'.audit = "failed" /\ command'.file = command.file
            /\ command'.line = command.line /\ command'.wrote = command.wrote
        BY <1>7, <3>1 DEF IInv, TypeOK
      <4>2. Fatal(command.file) => ~command.wrote
        BY DEF IInv, Command, CommandOf
      <4> QED BY <1>4, <1>5, <3>1, <4>1, <4>2 DEF CommandOf
    <3>2. CASE w # Cli
      <4>1. tx'[Cli] = tx[Cli] /\ command' = command
        BY <1>5, <1>7, <3>2 DEF Others, Writers, Imports
      <4> QED BY <4>1 DEF IInv, Command
    <3> QED BY <3>1, <3>2
  <2> QED BY <1>1, <2>1 DEF Command
<1>10. EventsSound'
  <2>1. tx'[w].pc = "idle" /\ tx'[w].run = 0 /\ \A v \in Others(w) : tx'[v] = tx[v]
    BY <1>5 DEF NoTx
  <2>2. EventsSound /\ begun \in Nat
    BY BoundAssumption DEF IInv, TypeOK
  <2>3. \A v \in Writers : tx'[v].pc # "idle" => v # w /\ tx'[v] = tx[v]
    BY <2>1 DEF Others
  <2>4. \A v \in Writers : tx'[v].run <= begun'
    <3> TAKE v \in Writers
    <3>1. CASE v = w
      BY <1>1, <2>1, <2>2, <3>1
    <3>2. CASE v # w
      BY <1>1, <2>1, <2>2, <3>2 DEF EventsSound, Others
    <3> QED BY <3>1, <3>2
  <2>5. \A e \in events' : Dated(e, begun', rows')
    BY <1>1, <2>2 DEF EventsSound
  <2>6. \A u, v \in Writers : u # v /\ tx'[u].pc # "idle" /\ tx'[v].pc # "idle" => tx'[u].run # tx'[v].run
    BY <2>2, <2>3 DEF EventsSound
  <2>7. \A v \in Writers : tx'[v].pc # "idle" => \A e \in events' : e.id # <<"run", tx'[v].run>>
    BY <1>1, <2>2, <2>3 DEF EventsSound
  <2> QED BY <2>4, <2>5, <2>6, <2>7 DEF EventsSound
<1>11. Owed'
  BY <1>1, OwedStays DEF IInv
<1>12. SaversNeverCollide'
  BY <1>6 DEF IInv, SaversNeverCollide, Writers
<1> QED BY <1>1, <1>5, <1>8, <1>9, <1>10, <1>11, <1>12 DEF IInv

---------------------------------------------------------------------------
(* The statements.                                                         *)

\* A look-up changes its locks and what it has found, not its work.
LEMMA LookedApart ==
  ASSUME NEW t, NEW u, NEW x, NEW N, SameWork(t, u), Apart(t, x), u.locks = t.locks \cup N, N \cap x.locks = {}
  PROVE  Apart(u, x)
BY DEF SameWork, Apart

LEMMA SameLine ==
  ASSUME NEW t, NEW u, NEW c, NEW R, SameWork(t, u), AtLine(c, t, R), u.pc # "commit"
  PROVE  AtLine(c, u, R)
<1>1. \A id : ChainOf(u, R, id) = ChainOf(t, R, id)
  BY DEF SameWork, ChainOf
<1> QED BY <1>1 DEF SameWork, AtLine

\* What IInv says of a transaction that has begun.
LEMMA Begun ==
  ASSUME IInv, NEW w \in Writers, tx[w].pc # "idle"
  PROVE  /\ tx[w] \in Transactions /\ defs \in SUBSET Definitions /\ rows \in [Identities -> Seq(Values)]
         /\ Local(w, tx[w], defs, rows) /\ \A v \in Others(w) : Apart(tx[w], tx[v])
         /\ w = Cli => AtLine(command, tx[w], rows)
         /\ Position(w, tx[w])
         /\ tx[w].locks \in SUBSET Locks /\ tx[w].shut \in SUBSET Definitions
BY DEF IInv, TypeOK, Evidence, Local, Command, CommandOf, Others, Transactions

LEMMA DefineStep ==
  ASSUME IInv, NEW w \in Writers, Define(w)
  PROVE  IInv'
<1> DEFINE t == tx[w]
           L == IF w \in Savers THEN t.locks \cup {KeyLock(w)} ELSE t.locks
           H == IF w \in Savers THEN OpenOf(View(w), Key(w), Source(w)) ELSE {}
           u(pc) == [[t EXCEPT !.locks = L, !.shut = H] EXCEPT !.pc = pc]
<1>1. t.pc = "define" /\ Blockers(w) = {} /\ UNCHANGED faults
  BY DEF Define
<1>2. \/ Go(w, u("read"))
      \/ Fail(w, "rejected")
      \/ ~Backward(w, H) /\ Go(w, u("create"))
  <2>1. OpenOf(View(w), Key(w), Source(w)) = {d \in View(w) : d.key = Key(w) /\ d.source = Source(w) /\ d.to = Forever}
    BY DEF OpenOf, Group
  <2>2. [t EXCEPT !.locks = L, !.shut = H].shut = H
    BY <1>1, Begun DEF Transactions
  <2> QED BY <2>1, <2>2 DEF Define
<1>3. /\ t \in Transactions /\ defs \in SUBSET Definitions /\ rows \in [Identities -> Seq(Values)]
      /\ Local(w, t, defs, rows) /\ \A v \in Others(w) : Apart(t, tx[v])
      /\ w = Cli => AtLine(command, t, rows)
      /\ Position(w, t) /\ t.locks \in SUBSET Locks
  BY <1>1, Begun
<1>4. /\ Key(w) = KeyAt(t) /\ View(w) = ViewOf(t, defs) /\ KeyLock(w) = <<"definition", <<KeyAt(t), Source(w)>>>>
      /\ New(w).from = FromOf(w, t) /\ KeyAt(t) \in AllKeys /\ (w \in Savers => Source(w) = "official") /\ Source(w) \in Sources
  <2>1. Key(w) = KeyAt(t) /\ View(w) = ViewOf(t, defs) /\ KeyLock(w) = <<"definition", <<KeyAt(t), Source(w)>>>>
    BY InTermsOfRecord
  <2>2. New(w).from = FromOf(w, t)
    BY <1>1, <1>3, NewIsDefinition
  <2>3. KeyAt(t) \in AllKeys
    BY <1>1, <1>3, AtHand
  <2> QED BY <2>1, <2>2, <2>3, WriterSources
<1>5. L \in SUBSET Locks /\ H \in SUBSET Definitions
  <2>1. View(w) \subseteq Definitions
    BY <1>3, <1>4 DEF ViewOf, Transactions
  <2>2. KeyLock(w) \in Locks
    BY <1>4 DEF Locks
  <2> QED BY <1>3, <2>1, <2>2 DEF OpenOf, Group
<1>6. ASSUME NEW pc \in {"create", "read"}, Go(w, u(pc)), pc = "create" => ~Backward(w, H)
      PROVE  IInv'
  <2> DEFINE s == u(pc)
  <2>1. s \in Transactions /\ SameWork(t, s) /\ s.locks = L /\ s.shut = H /\ s.pc = pc
    <3>1. t \in Transactions /\ L \in SUBSET Locks /\ H \in SUBSET Definitions
      BY <1>3, <1>5
    <3>2. pc \in {"define", "create", "read", "write", "commit"} /\ 0 \in Nat
      OBVIOUS
    <3> HIDE DEF t, L, H
    <3> QED BY <3>1, <3>2 DEF Transactions, SameWork
  <2>2. Go(w, s)
    BY <1>6
  <2> HIDE DEF s
  <2>3. Local(w, s, defs, rows)
    <3>1. s.locks = IF w \in Savers THEN t.locks \cup {KeyName(KeyAt(t))} ELSE t.locks
      BY <1>4, <2>1 DEF KeyName
    <3>2. s.shut = IF w \in Savers THEN OpenOf(ViewOf(t, defs), KeyAt(t), "official") ELSE {}
      BY <1>4, <2>1
    <3>3. s.pc = "create" => \A d \in s.shut : d.from < FromOf(w, t)
      <4> SUFFICES ASSUME pc = "create", NEW d \in H PROVE d.from < FromOf(w, t)
        BY <2>1
      <4>1. ~(FromOf(w, t) <= d.from)
        BY <1>4, <1>6 DEF Backward
      <4>2. d.from \in 0..Horizon
        BY <1>5 DEF Definitions
      <4>3. FromOf(w, t) \in 0..Horizon
        BY <1>1, <1>3, AtHand
      <4> QED BY <4>1, <4>2, <4>3, TimeBounds
    <3>4. t.pc = "define" /\ s.pc \in {"create", "read"} /\ Local(w, t, defs, rows) /\ SameWork(t, s) /\ t \in Transactions /\ s \in Transactions
      BY <1>1, <1>3, <2>1
    <3> HIDE DEF t
    <3> QED BY ONLY w \in Writers, <3>1, <3>2, <3>3, <3>4, DefineKeeps
  <2>4. \A v \in Others(w) : Apart(s, tx[v])
    <3> TAKE v \in Others(w)
    <3> DEFINE N == IF w \in Savers THEN {KeyLock(w)} ELSE {}
    <3>1. s.locks = t.locks \cup N
      BY <2>1
    <3>2. N \cap tx[v].locks = {}
      BY <1>1 DEF Blockers, HoldersOfLock
    <3> QED BY <1>3, <2>1, <3>1, <3>2, LookedApart
  <2>5. w = Cli => AtLine(command, s, rows)
    BY <1>3, <2>1, SameLine
  <2>6. tx[w].pc # "idle" /\ s.pc # "idle" /\ s.run = tx[w].run
    BY <1>1, <2>1 DEF SameWork
  <2> QED BY <1>1, <2>1, <2>2, <2>3, <2>4, <2>5, <2>6, GoKeeps
<1>7. CASE Fail(w, "rejected")
  <2>1. faults' \in 0..MaxFaults
    BY <1>1 DEF IInv, TypeOK
  <2> QED BY <1>7, <2>1, FailKeeps
<1> QED BY <1>2, <1>6, <1>7

LEMMA OnwardApart ==
  ASSUME NEW t \in Transactions, t.k \in 1..Len(t.order), t.m \in 1..Len(t.obs), NEW x, Apart(t, x)
  PROVE  Apart(Onward(t), x) /\ Onward(t).run = t.run /\ Onward(t).pc # "idle"
<1> DEFINE u == Onward(t)
<1>1. /\ u.run = t.run /\ u.locks = t.locks /\ u.add = t.add /\ u.cut = t.cut /\ u.puts = t.puts
      /\ u.pc \in {"read", "define", "commit"}
  BY OnwardIs
<1> HIDE DEF u
<1>2. Apart(u, x) /\ u.run = t.run /\ u.pc # "idle"
  BY <1>1 DEF Apart
<1> QED BY <1>2 DEF u

\* The import command goes on to the next key once the value of this one is stored.
LEMMA LineOnward ==
  ASSUME Cli \in Writers, NEW t \in Transactions, Position(Cli, t), t.pc # "idle", NEW c, NEW R, AtLine(c, t, R),
         Contains(ChainOf(t, R, IdOf(Cli, t)), t.obs[t.m].val)
  PROVE  AtLine(c, Onward(t), R)
<1> DEFINE u == Onward(t)
           line == c.file[c.line]
<1>1. t.k \in 1..Len(Keys) /\ t.m = 1 /\ Len(t.obs) = 1 /\ Len(t.order) = Len(Keys) /\ t.version = ImportVersion /\ Len(Keys) \in Nat
      /\ t.k \in 1..Len(t.order)
  <2>1. Cli \in Imports
    BY DEF Imports
  <2> QED BY <2>1, KeysAreDistinct DEF Position
<1>2. /\ u.version = t.version /\ u.obs = t.obs /\ u.order = t.order /\ u.puts = t.puts
      /\ \/ u.pc = "define" /\ u.k = t.k + 1
         \/ u.pc = "commit" /\ u.k = t.k /\ t.k = Len(t.order)
  <2>1. t.m \in 1..Len(t.obs)
    BY <1>1
  <2>2. /\ u.version = t.version /\ u.obs = t.obs /\ u.order = t.order /\ u.puts = t.puts
        /\ \/ u.pc = "read" /\ u.m = t.m + 1 /\ u.m <= Len(t.obs)
           \/ u.pc = "define" /\ u.k = t.k + 1
           \/ u.pc = "commit" /\ u.k = t.k /\ t.k = Len(t.order)
    BY <1>1, <2>1, OnwardIs
  <2> HIDE DEF u
  <2> QED BY <1>1, <2>2
<1> HIDE DEF u
<1>3. IdOf(Cli, t) = CliId(Keys[t.k], line.at) /\ t.obs[t.m].val = line.val
  <2>1. t.obs[1] = [at |-> line.at, val |-> line.val] /\ t.order = Keys
    BY DEF AtLine
  <2>2. Source(Cli) = "self-scrape"
    BY WriterSources DEF Imports
  <2> QED BY <1>1, <2>1, <2>2 DEF IdOf, CliId, KeyAt
<1>4. \A id : ChainOf(u, R, id) = ChainOf(t, R, id)
  BY <1>2 DEF ChainOf
<1>5. \A j \in 1..Len(Keys) : j < u.k \/ u.pc = "commit" => Contains(ChainOf(u, R, CliId(Keys[j], line.at)), line.val)
  <2> TAKE j \in 1..Len(Keys)
  <2> SUFFICES ASSUME j < u.k \/ u.pc = "commit" PROVE Contains(ChainOf(t, R, CliId(Keys[j], line.at)), line.val)
    BY <1>4
  <2>1. j < t.k \/ j = t.k
    BY <1>1, <1>2
  <2>2. CASE j = t.k
    BY <1>3, <2>2
  <2>3. CASE j < t.k
    BY <2>3 DEF AtLine
  <2> QED BY <2>1, <2>2, <2>3
<1>6. AtLine(c, u, R)
  BY <1>2, <1>5 DEF AtLine
<1> QED BY <1>6 DEF u

\* A key done or an observation passed over: on with the transaction s that has stored it.
LEMMA OnwardStep ==
  ASSUME IInv, NEW w \in Writers, tx[w].pc # "idle", NEW s \in Transactions, s.pc \in {"read", "write"}, s.run = tx[w].run,
         Position(w, s), Holding(w, s), Putting(w, s), Editing(w, s),
         s.cut \subseteq defs, Tile(ViewOf(s, defs)), \A id \in Identities : NoRepeat(ChainOf(s, rows, id)),
         \A v \in Others(w) : Apart(s, tx[v]),
         w = Cli => AtLine(command, s, rows) /\ Contains(ChainOf(s, rows, IdOf(Cli, s)), s.obs[s.m].val),
         Go(w, Onward(s)), UNCHANGED faults
  PROVE  IInv'
<1> DEFINE u == Onward(s)
<1>1. rows \in [Identities -> Seq(Values)]
  BY DEF IInv, TypeOK
<1>2. u \in Transactions /\ Local(w, u, defs, rows)
  BY <1>1, OnwardKeeps
<1>3. s.k \in 1..Len(s.order) /\ s.m \in 1..Len(s.obs)
  BY DEF Position
<1>4. u.run = tx[w].run /\ u.pc # "idle" /\ \A v \in Others(w) : Apart(u, tx[v])
  <2>1. \A x : Apart(s, x) => Apart(u, x) /\ u.run = s.run /\ u.pc # "idle"
    BY <1>3, OnwardApart
  <2>2. Apart(s, NoTx)
    BY ApartFromNone, ApartSymmetric
  <2> QED BY <2>1, <2>2
<1>5. w = Cli => AtLine(command, u, rows)
  <2> SUFFICES ASSUME w = Cli PROVE AtLine(command, u, rows)
    OBVIOUS
  <2>1. Cli \in Writers /\ Position(Cli, s) /\ s.pc # "idle"
    OBVIOUS
  <2> QED BY <2>1, LineOnward
<1> HIDE DEF u
<1>6. Go(w, u)
  BY DEF u
<1> QED BY <1>2, <1>4, <1>5, <1>6, GoKeeps

LEMMA ReadStep ==
  ASSUME IInv, NEW w \in Writers, Read(w)
  PROVE  IInv'
<1> DEFINE t == tx[w]
           L == IF w \in Savers THEN t.locks \cup {RowLock(w)} ELSE t.locks
           n == Len(Chain(w, Identity(w)))
           u == [t EXCEPT !.locks = L, !.seen = n]
           same == n > 0 /\ Last(Chain(w, Identity(w))) = Observed(w).val
<1>1. t.pc = "read" /\ Blockers(w) = {} /\ UNCHANGED faults
  BY DEF Read
<1>2. /\ t \in Transactions /\ defs \in SUBSET Definitions /\ rows \in [Identities -> Seq(Values)]
      /\ Local(w, t, defs, rows) /\ \A v \in Others(w) : Apart(t, tx[v])
      /\ w = Cli => AtLine(command, t, rows)
      /\ Position(w, t) /\ t.locks \in SUBSET Locks
  BY <1>1, Begun
<1>3. /\ Identity(w) = IdOf(w, t) /\ Observed(w) = t.obs[t.m] /\ RowLock(w) = RowName(IdOf(w, t))
      /\ \A id \in Identities : Chain(w, id) = ChainOf(t, rows, id)
  BY InTermsOfRecord
<1>4. IdOf(w, t) \in Identities
  BY <1>1, <1>2, AtHand
<1>5. L \in SUBSET Locks /\ n \in Nat
  <2>1. RowLock(w) \in Locks
    BY <1>3, <1>4 DEF RowName, Locks
  <2>2. n = Len(ChainOf(t, rows, IdOf(w, t)))
    BY <1>3, <1>4
  <2>3. ChainOf(t, rows, IdOf(w, t)) \in Seq(Values)
    BY <1>2, <1>4, ChainIsSeq
  <2> QED BY <1>2, <2>1, <2>2, <2>3, LenProperties
<1>6. u.seen = n
  <2>1. t \in Transactions
    BY <1>2
  <2> HIDE DEF t, L, n
  <2> QED BY <2>1 DEF Transactions
<1>7. \/ Fail(w, "rejected")
      \/ same /\ Go(w, Onward(u))
      \/ ~same /\ Go(w, [u EXCEPT !.pc = "write"])
  BY <1>6 DEF Read
<1>8. CASE Fail(w, "rejected")
  <2>1. faults' \in 0..MaxFaults
    BY <1>1 DEF IInv, TypeOK
  <2> QED BY <1>8, <2>1, FailKeeps
<1>9. ASSUME NEW s, s.pc \in {"read", "write"}, s \in Transactions, SameWork(t, s), s.shut = t.shut, s.locks = L, s.seen = n,
             s.pc = "write" => ~same
      PROVE  Local(w, s, defs, rows) /\ (\A v \in Others(w) : Apart(s, tx[v])) /\ (w = Cli => AtLine(command, s, rows))
  <2>1. Local(w, s, defs, rows)
    <3>1. s.locks = IF w \in Savers THEN t.locks \cup {RowName(IdOf(w, t))} ELSE t.locks
      BY <1>3, <1>9
    <3>2. s.seen = Len(ChainOf(t, rows, IdOf(w, t)))
      BY <1>3, <1>4, <1>9
    <3>3. s.pc = "write" => ~(s.seen > 0 /\ Last(ChainOf(t, rows, IdOf(w, t))) = t.obs[t.m].val)
      BY <1>3, <1>4, <1>9
    <3>4. t.pc = "read" /\ s.pc \in {"read", "write"} /\ Local(w, t, defs, rows) /\ SameWork(t, s) /\ t \in Transactions /\ s \in Transactions
          /\ s.shut = t.shut /\ rows \in [Identities -> Seq(Values)]
      BY <1>1, <1>2, <1>9
    <3> HIDE DEF t
    <3> QED BY ONLY w \in Writers, <3>1, <3>2, <3>3, <3>4, ReadKeeps
  <2>2. \A v \in Others(w) : Apart(s, tx[v])
    <3> TAKE v \in Others(w)
    <3> DEFINE N == IF w \in Savers THEN {RowLock(w)} ELSE {}
    <3>1. s.locks = t.locks \cup N
      BY <1>9
    <3>2. N \cap tx[v].locks = {}
      BY <1>1 DEF Blockers, HoldersOfLock
    <3> QED BY <1>2, <1>9, <3>1, <3>2, LookedApart
  <2>3. w = Cli => AtLine(command, s, rows)
    BY <1>2, <1>9, SameLine
  <2> QED BY <2>1, <2>2, <2>3
<1>10. CASE same /\ Go(w, Onward(u))
  <2>1. u \in Transactions /\ SameWork(t, u) /\ u.locks = L /\ u.shut = t.shut /\ u.seen = n /\ u.pc = "read"
    <3>1. t \in Transactions /\ L \in SUBSET Locks /\ n \in Nat /\ t.pc = "read"
      BY <1>1, <1>2, <1>5
    <3> HIDE DEF t, L, n
    <3> QED BY <3>1 DEF Transactions, SameWork
  <2>2. Go(w, Onward(u)) /\ Last(Chain(w, Identity(w))) = Observed(w).val /\ n > 0
    BY <1>10
  <2> HIDE DEF u
  <2>3. Local(w, u, defs, rows) /\ (\A v \in Others(w) : Apart(u, tx[v])) /\ (w = Cli => AtLine(command, u, rows))
    BY <1>9, <2>1
  <2>4. IdOf(w, u) = IdOf(w, t) /\ \A id : ChainOf(u, rows, id) = ChainOf(t, rows, id)
    BY <2>1, SameWorkSame
  <2>5. w = Cli => Contains(ChainOf(u, rows, IdOf(Cli, u)), u.obs[u.m].val)
    <3> DEFINE c == ChainOf(t, rows, IdOf(w, t))
    <3>1. c \in Seq(Values) /\ Len(c) > 0 /\ Last(c) = t.obs[t.m].val
      BY <1>2, <1>3, <1>4, <2>2, ChainIsSeq
    <3>2. Contains(c, Last(c))
      <4> HIDE DEF c
      <4>1. Len(c) \in DOMAIN c /\ c[Len(c)] = Last(c)
        BY <3>1, LenProperties DEF Last
      <4> QED BY <4>1 DEF Contains
    <3>3. u.obs = t.obs /\ u.m = t.m
      BY <2>1 DEF SameWork
    <3> QED BY <2>4, <3>1, <3>2, <3>3
  <2>6. u.run = t.run
    BY <2>1 DEF SameWork
  <2> QED BY <1>1, <2>1, <2>2, <2>3, <2>5, <2>6, OnwardStep DEF Local
<1>11. CASE ~same /\ Go(w, [u EXCEPT !.pc = "write"])
  <2> DEFINE s == [u EXCEPT !.pc = "write"]
  <2>1. s \in Transactions /\ SameWork(t, s) /\ s.locks = L /\ s.shut = t.shut /\ s.seen = n /\ s.pc = "write"
    <3>1. t \in Transactions /\ L \in SUBSET Locks /\ n \in Nat
      BY <1>2, <1>5
    <3> HIDE DEF t, L, n
    <3> QED BY <3>1 DEF Transactions, SameWork
  <2>2. Go(w, s) /\ ~same
    BY <1>11
  <2> HIDE DEF s
  <2>3. Local(w, s, defs, rows) /\ (\A v \in Others(w) : Apart(s, tx[v])) /\ (w = Cli => AtLine(command, s, rows))
    BY <1>9, <2>1, <2>2
  <2>4. s.run = t.run
    BY <2>1 DEF SameWork
  <2> QED BY <1>1, <2>1, <2>2, <2>3, <2>4, GoKeeps
<1> QED BY <1>7, <1>8, <1>10, <1>11

LEMMA WriteStep ==
  ASSUME IInv, NEW w \in Writers, Write(w)
  PROVE  IInv'
<1> DEFINE t == tx[w]
           id == IdOf(w, t)
           v == t.obs[t.m].val
           s == Put(t, id, v)
<1>1. t.pc = "write" /\ Blockers(w) = {} /\ UNCHANGED faults
  BY DEF Write
<1>2. /\ t \in Transactions /\ rows \in [Identities -> Seq(Values)]
      /\ Local(w, t, defs, rows) /\ \A x \in Others(w) : Apart(t, tx[x])
      /\ w = Cli => AtLine(command, t, rows)
      /\ Position(w, t)
  BY <1>1, Begun
<1>3. /\ Identity(w) = id /\ Observed(w) = t.obs[t.m] /\ \A i \in Identities : Chain(w, i) = ChainOf(t, rows, i)
  BY InTermsOfRecord
<1>4. id \in Identities /\ v \in Values
  BY <1>1, <1>2, AtHand DEF Observations
<1>5. \/ Len(ChainOf(t, rows, id)) # t.seen /\ Fail(w, "conflict")
      \/ Len(ChainOf(t, rows, id)) = t.seen /\ Go(w, Onward(s))
  BY <1>3, <1>4 DEF Write, Put
<1>6. CASE Len(ChainOf(t, rows, id)) # t.seen /\ Fail(w, "conflict")
  <2>1. faults' \in 0..MaxFaults
    BY <1>1 DEF IInv, TypeOK
  <2>2. w \notin Savers
    BY <1>1, <1>2, <1>6 DEF Local, Reading
  <2> QED BY <1>6, <2>1, <2>2, FailKeeps
<1>7. CASE Len(ChainOf(t, rows, id)) = t.seen /\ Go(w, Onward(s))
  <2>1. Appended(s, t, id, v, rows)
    <3>1. s = Put(t, id, v) /\ t \in Transactions /\ rows \in [Identities -> Seq(Values)] /\ id \in Identities /\ v \in Values
      BY <1>2, <1>4
    <3> HIDE DEF s, t, id, v
    <3> QED BY ONLY <3>1, AppendIs
  <2>2. /\ Position(w, s) /\ Holding(w, s) /\ Putting(w, s) /\ Editing(w, s)
        /\ s.cut \subseteq defs /\ Tile(ViewOf(s, defs)) /\ \A i \in Identities : NoRepeat(ChainOf(s, rows, i))
    <3>1. s = Put(t, IdOf(w, t), t.obs[t.m].val) /\ t \in Transactions /\ rows \in [Identities -> Seq(Values)]
          /\ Local(w, t, defs, rows) /\ t.pc = "write" /\ Len(ChainOf(t, rows, IdOf(w, t))) = t.seen
      BY <1>1, <1>2, <1>7
    <3> HIDE DEF s, t
    <3> QED BY ONLY w \in Writers, <3>1, AppendKeeps
  <2>3. Go(w, Onward(s))
    BY <1>7
  <2>4. IdOf(w, s) = id
    <3>1. s = [t EXCEPT !.puts[id] = Append(@, v)]
      BY DEF Put
    <3> QED BY <1>2, <2>1 DEF IdOf, KeyAt, Appended
  <2> HIDE DEF s
  <2>5. \A x \in Others(w) : Apart(s, tx[x])
    <3> TAKE x \in Others(w)
    <3>1. x \in Writers /\ tx[x].puts[id] = <<>>
      BY <1>1, <1>3, <1>4 DEF Blockers, HoldersOfRow, Written, Others
    <3>2. \A i \in Identities : s.puts[i] = <<>> \/ tx[x].puts[i] = <<>>
      BY <1>2, <2>1, <3>1 DEF Appended, Apart
    <3> QED BY <1>2, <2>1, <3>2 DEF Appended, Apart
  <2>6. w = Cli => AtLine(command, s, rows) /\ Contains(ChainOf(s, rows, IdOf(Cli, s)), s.obs[s.m].val)
    <3> SUFFICES ASSUME w = Cli
                 PROVE  AtLine(command, s, rows) /\ Contains(ChainOf(s, rows, id), v)
      BY <2>1, <2>4 DEF Appended
    <3>1. ChainOf(t, rows, id) \in Seq(Values)
      BY <1>2, <1>4, ChainIsSeq
    <3>2. Contains(ChainOf(s, rows, id), v) /\ \A x : Contains(ChainOf(t, rows, id), x) => Contains(ChainOf(s, rows, id), x)
      <4> DEFINE c == ChainOf(t, rows, id)
      <4>1. c \in Seq(Values) /\ v \in Values /\ ChainOf(s, rows, id) = Append(c, v)
        BY <1>4, <2>1, <3>1 DEF Appended
      <4> HIDE DEF c, v
      <4>2. Contains(Append(c, v), v) /\ \A x : Contains(c, x) => Contains(Append(c, v), x)
        BY ONLY <4>1, ContainsAppend
      <4> QED BY <4>1, <4>2 DEF c
    <3>3. \A i \in Identities : \A x : Contains(ChainOf(t, rows, i), x) => Contains(ChainOf(s, rows, i), x)
      BY <2>1, <3>2 DEF Appended
    <3>4. \A j \in 1..Len(Keys) : CliId(Keys[j], command.file[command.line].at) \in Identities
      <4>1. command.file[command.line].at \in Times
        <5>1. t.obs[1] = [at |-> command.file[command.line].at, val |-> command.file[command.line].val] /\ t.m = 1
          <6>1. AtLine(command, t, rows) /\ Position(Cli, t) /\ t.pc # "idle" /\ Cli \in Imports
            BY <1>1, <1>2 DEF Imports
          <6>2. t.m \in 1..Len(t.obs) /\ Len(t.obs) = 1
            BY <6>1 DEF Position
          <6>3. t.m = 1
            BY <6>2
          <6> QED BY <6>1, <6>3 DEF AtLine
        <5>2. t.obs[t.m] \in Observations
          BY <1>1, <1>2, AtHand
        <5> QED BY <5>1, <5>2 DEF Observations
      <4>2. PlatformOf[Cli] \in Platforms
        BY DEF Platforms, Writers, Imports
      <4> QED BY <4>1, <4>2, KeysAreDistinct DEF CliId, Identities, Sources
    <3>5. AtLine(command, s, rows)
      <4>1. AtLine(command, t, rows)
        BY <1>2
      <4> QED BY <2>1, <3>3, <3>4, <4>1 DEF AtLine, Appended
    <3> QED BY <3>2, <3>5
  <2>7. s \in Transactions /\ s.pc = t.pc /\ s.run = t.run
    BY <2>1 DEF Appended
  <2> QED BY <1>1, <2>2, <2>3, <2>5, <2>6, <2>7, OnwardStep
<1> QED BY <1>5, <1>6, <1>7

\* Create touches the metric at hand only, which no other transaction touches.
LEMMA CreateApart ==
  ASSUME IInv, NEW w \in Writers, tx[w].pc = "create", Blockers(w) = {}, NEW v \in Others(w), NEW e \in tx[v].add \cup tx[v].cut
  PROVE  e.key # KeyAt(tx[w]) \/ e.source # Source(w)
<1> SUFFICES ASSUME e.key = KeyAt(tx[w]), e.source = Source(w) PROVE FALSE
  OBVIOUS
<1>1. /\ v \in Writers /\ Editing(v, tx[v]) /\ Holding(w, tx[w]) /\ Position(w, tx[w])
      /\ tx[v] \in Transactions /\ tx[w] \in Transactions /\ Apart(tx[w], tx[v])
  BY DEF IInv, TypeOK, Evidence, Local, Others
<1>2. Source(v) = Source(w)
  BY <1>1 DEF Editing
<1>3. CASE w \in Savers
  <2>1. v \in Savers
    BY <1>1, <1>2, <1>3, WriterSources
  <2>2. KeyName(KeyAt(tx[w])) \in tx[v].locks
    BY <1>1, <2>1 DEF Editing
  <2>3. tx[w].k \in 1..Len(Keys) /\ KeyAt(tx[w]) = Keys[tx[w].k]
    BY <1>1, <1>3, AtHand
  <2>4. KeyName(KeyAt(tx[w])) \in tx[w].locks
    BY <1>1, <1>3, <2>3 DEF Holding
  <2> QED BY <1>1, <2>2, <2>4 DEF Apart
<1>4. CASE w \notin Savers
  <2>1. w \in Imports /\ v \in Imports
    BY <1>1, <1>2, <1>4, WriterSources
  <2>2. e \in tx[v].add /\ e.from = 0 /\ e.to = Forever
    BY <1>1, <2>1 DEF Editing
  <2>3. New(w).key = KeyAt(tx[w]) /\ New(w).source = Source(w) /\ New(w).to = Forever /\ New(w).from = 0
    <3>1. New(w).key = KeyAt(tx[w]) /\ New(w).source = Source(w) /\ New(w).to = Forever /\ New(w).from = FromOf(w, tx[w])
      BY <1>1, NewIsDefinition
    <3> QED BY <1>4, <3>1 DEF FromOf
  <2>4. Overlap(New(w), e)
    BY <2>2, <2>3, TimeBounds DEF Overlap
  <2> QED BY <2>2, <2>4 DEF Blockers, HoldersOfInterval
<1> QED BY <1>3, <1>4

LEMMA CreateStep ==
  ASSUME IInv, NEW w \in Writers, Create(w)
  PROVE  IInv'
<1> DEFINE t == tx[w]
           n == New(w)
           closed == ClosedAt(t.shut, n.from)
           V == ViewOf(t, defs)
           found == [t EXCEPT !.pc = "read"]
           u == [t EXCEPT !.pc = "read", !.cut = @ \cup t.shut, !.add = @ \cup closed \cup {n}]
<1>1. t.pc = "create" /\ Blockers(w) = {} /\ UNCHANGED faults
  BY DEF Create
<1>2. /\ t \in Transactions /\ defs \in SUBSET Definitions /\ rows \in [Identities -> Seq(Values)]
      /\ Local(w, t, defs, rows) /\ \A x \in Others(w) : Apart(t, tx[x])
      /\ w = Cli => AtLine(command, t, rows)
      /\ Position(w, t) /\ t.shut \in SUBSET Definitions
  BY <1>1, Begun
<1>3. n \in Definitions /\ n.to = Forever /\ n.from = FromOf(w, t) /\ n.key = KeyAt(t) /\ n.source = Source(w)
  BY <1>1, <1>2, NewIsDefinition
<1>4. \/ w \in Imports /\ Go(w, found)
      \/ (\E d \in (V \ t.shut) \cup closed : Overlap(d, n)) /\ Fail(w, "definition")
      \/ (\A d \in (V \ t.shut) \cup closed : ~Overlap(d, n)) /\ Go(w, u)
  <2>1. View(w) = V
    BY InTermsOfRecord
  <2> QED BY <2>1 DEF Create, ClosedAt
<1>5. closed \subseteq Definitions /\ (w \in Imports => closed = {} /\ t.shut = {} /\ n.from = 0)
  <2>1. CASE w \in Savers
    <3> SUFFICES ASSUME NEW c \in closed PROVE c \in Definitions
      BY <2>1, WriterSources
    <3>1. PICK d \in t.shut : c = [d EXCEPT !.to = n.from]
      BY DEF ClosedAt
    <3>2. d \in Definitions /\ d.from < n.from
      BY <1>1, <1>2, <1>3, <2>1 DEF Local, Transition
    <3>3. n.from \in 1..Forever
      BY <1>3, <3>2, TimeBounds DEF Definitions
    <3> HIDE DEF n
    <3> QED BY <3>1, <3>2, <3>3 DEF Definitions
  <2>2. CASE w \notin Savers
    <3>1. w \in Imports /\ t.shut = {}
      BY <1>2, <2>2, WriterSources DEF Local, Holding
    <3> QED BY <1>3, <2>2, <3>1 DEF ClosedAt, FromOf
  <2> QED BY <2>1, <2>2
<1>6. /\ u \in Transactions /\ u.pc = "read"
      /\ u.run = t.run /\ u.version = t.version /\ u.obs = t.obs /\ u.order = t.order /\ u.k = t.k /\ u.m = t.m
      /\ u.locks = t.locks /\ u.shut = t.shut /\ u.puts = t.puts
      /\ u.cut = t.cut \cup t.shut /\ u.add = t.add \cup closed \cup {n}
  <2>1. t \in Transactions /\ closed \subseteq Definitions /\ n \in Definitions
    BY <1>2, <1>3, <1>5
  <2> HIDE DEF t, closed, n
  <2> QED BY <2>1 DEF Transactions
<1> HIDE DEF u
<1>7. w \in Savers => /\ \A d \in (V \ t.shut) \cup closed : ~Overlap(d, n)
                      /\ Local(w, u, defs, rows)
  <2> SUFFICES ASSUME w \in Savers
               PROVE  (\A d \in (V \ t.shut) \cup closed : ~Overlap(d, n)) /\ Local(w, u, defs, rows)
    OBVIOUS
  <2>1. t \in Transactions /\ u \in Transactions /\ defs \in SUBSET Definitions /\ Local(w, t, defs, rows) /\ t.pc = "create"
    BY <1>1, <1>2, <1>6
  <2>2. n \in Definitions /\ n.key = KeyAt(t) /\ n.source = "official" /\ n.to = Forever /\ n.from = FromOf(w, t)
    BY <1>3, WriterSources
  <2>3. closed = ClosedAt(t.shut, n.from)
    OBVIOUS
  <2> HIDE DEF t, n, closed
  <2> QED BY ONLY w \in Savers, <1>6, <2>1, <2>2, <2>3, TransitionKeeps
<1>8. \A x \in Others(w) : Apart(u, tx[x])
  <2> TAKE x \in Others(w)
  <2>1. \A d \in closed \cup {n} \cup t.shut, e \in tx[x].add \cup tx[x].cut : d.key # e.key \/ d.source # e.source
    <3>1. \A d \in closed \cup {n} \cup t.shut : d.key = KeyAt(t) /\ d.source = Source(w)
      <4>1. \A d \in t.shut : d.key = KeyAt(t) /\ d.source = Source(w)
        <5>1. CASE w \in Savers
          <6>1. t.shut = OpenOf(V, KeyAt(t), "official")
            BY <1>1, <1>2, <5>1 DEF Local, Transition
          <6> QED BY <5>1, <6>1, WriterSources DEF OpenOf, Group
        <5>2. CASE w \notin Savers
          BY <1>5, <5>2, WriterSources
        <5> QED BY <5>1, <5>2
      <4>2. \A d \in closed : d.key = KeyAt(t) /\ d.source = Source(w)
        <5> TAKE c \in closed
        <5>1. PICK d \in t.shut : c = [d EXCEPT !.to = n.from]
          BY DEF ClosedAt
        <5>2. d \in Definitions
          BY <1>2
        <5> HIDE DEF n
        <5> QED BY <4>1, <5>1, <5>2 DEF Definitions
      <4> QED BY <1>3, <4>1, <4>2
    <3>2. \A e \in tx[x].add \cup tx[x].cut : e.key # KeyAt(t) \/ e.source # Source(w)
      BY <1>1, CreateApart
    <3> QED BY <3>1, <3>2
  <2>2. Apart(t, tx[x])
    BY <1>2
  <2>3. \A d \in u.add \cup u.cut : d \in t.add \cup t.cut \/ d \in closed \cup {n} \cup t.shut
    BY <1>6
  <2> QED BY <1>6, <2>1, <2>2, <2>3 DEF Apart
<1>9. CASE w \in Imports /\ Go(w, found)
  <2>1. found \in Transactions /\ SameWork(t, found) /\ found.locks = t.locks /\ found.shut = t.shut /\ found.pc = "read"
    BY <1>2 DEF Transactions, SameWork
  <2>2. Go(w, found)
    BY <1>9
  <2> HIDE DEF found
  <2>3. w \notin Savers
    BY <1>9, WriterSources
  <2>4. /\ Position(w, t) /\ Holding(w, t) /\ Putting(w, t) /\ Editing(w, t)
        /\ t.cut \subseteq defs /\ Tile(V) /\ \A i \in Identities : NoRepeat(ChainOf(t, rows, i))
    BY <1>2 DEF Local
  <2>5. Position(w, found)
    BY <1>1, <2>1, <2>4 DEF Position, SameWork
  <2>6. Holding(w, found) /\ Putting(w, found) /\ Editing(w, found)
    BY <2>1, <2>3, <2>4 DEF Holding, Putting, Editing, SameWork
  <2>7. Transition(w, found, defs) /\ Reading(w, found, rows)
    BY <2>1 DEF Transition, Reading
  <2>8. ViewOf(found, defs) = V /\ (\A i : ChainOf(found, rows, i) = ChainOf(t, rows, i)) /\ found.cut = t.cut
    BY <2>1 DEF ViewOf, ChainOf, SameWork
  <2>9. Local(w, found, defs, rows)
    BY <2>4, <2>5, <2>6, <2>7, <2>8 DEF Local
  <2>10. \A x \in Others(w) : Apart(found, tx[x])
    BY <1>2, <2>1 DEF Apart, SameWork
  <2>11. w = Cli => AtLine(command, found, rows)
    BY <1>2, <2>1, SameLine
  <2>12. tx[w].pc # "idle" /\ found.pc # "idle" /\ found.run = tx[w].run
    BY <1>1, <2>1 DEF SameWork
  <2> QED BY <1>1, <2>1, <2>2, <2>9, <2>10, <2>11, <2>12, GoKeeps
<1>10. CASE (\E d \in (V \ t.shut) \cup closed : Overlap(d, n)) /\ Fail(w, "definition")
  <2>1. faults' \in 0..MaxFaults
    BY <1>1 DEF IInv, TypeOK
  <2>2. w \notin Savers
    BY <1>7, <1>10
  <2> QED BY <1>10, <2>1, <2>2, FailKeeps
<1>11. CASE (\A d \in (V \ t.shut) \cup closed : ~Overlap(d, n)) /\ Go(w, u)
  <2>1. Local(w, u, defs, rows)
    <3>1. CASE w \in Savers
      BY <1>7, <3>1
    <3>2. CASE w \notin Savers
      <4>1. w \in Imports /\ closed = {} /\ t.shut = {} /\ n.from = 0
        BY <1>5, <3>2, WriterSources
      <4>2. u.cut = t.cut /\ u.add = t.add \cup {n} /\ \A d \in ViewOf(t, defs) : ~Overlap(d, n)
        BY <1>6, <1>11, <4>1
      <4>3. t \in Transactions /\ u \in Transactions /\ defs \in SUBSET Definitions /\ Local(w, t, defs, rows) /\ t.pc = "create"
        BY <1>1, <1>2, <1>6
      <4>4. n \in Definitions /\ n.source = "self-scrape" /\ n.to = Forever
        BY <1>3, <4>1, WriterSources
      <4> HIDE DEF t, n, closed
      <4> QED BY ONLY <1>6, <4>1, <4>2, <4>3, <4>4, FirstKeeps
    <3> QED BY <3>1, <3>2
  <2>2. w = Cli => AtLine(command, u, rows)
    <3>1. \A i : ChainOf(u, rows, i) = ChainOf(t, rows, i)
      BY <1>6 DEF ChainOf
    <3> QED BY <1>1, <1>2, <1>6, <3>1 DEF AtLine
  <2>3. tx[w].pc # "idle" /\ u.pc # "idle" /\ u.run = tx[w].run /\ u \in Transactions /\ Go(w, u)
    BY <1>1, <1>6, <1>11
  <2> QED BY <1>1, <1>8, <2>1, <2>2, <2>3, GoKeeps
<1> QED BY <1>4, <1>9, <1>10, <1>11

\* A sync job waits for another one only, which has come to the same key or beyond it.
LEMMA SaverWaits ==
  ASSUME IInv, NEW w \in Savers, NEW v \in Blockers(w)
  PROVE  /\ v \in Savers /\ v # w /\ tx[w].pc = "define" /\ tx[v].pc # "idle"
         /\ tx[w].k < tx[v].k \/ (tx[w].k = tx[v].k /\ tx[v].pc # "define")
<1>1. w \in Writers /\ Source(w) = "official"
  BY WriterSources DEF Writers
<1>2. v \in Writers /\ v # w /\ tx[w].pc \in {"define", "create", "read", "write"}
  BY DEF Blockers, HoldersOfLock, HoldersOfInterval, HoldersOfRow, Others
<1>3. /\ tx[w] \in Transactions /\ tx[v] \in Transactions /\ Apart(tx[w], tx[v])
      /\ Position(w, tx[w]) /\ Holding(w, tx[w])
      /\ Holding(v, tx[v]) /\ Putting(v, tx[v]) /\ Editing(v, tx[v]) /\ Position(v, tx[v])
  BY <1>1, <1>2 DEF IInv, TypeOK, Evidence, Local
<1>4. tx[w].pc # "idle" /\ tx[w].k \in 1..Len(Keys) /\ KeyAt(tx[w]) = Keys[tx[w].k] /\ IdOf(w, tx[w]) \in Identities
      /\ IdOf(w, tx[w]).key = KeyAt(tx[w])
  <2>1. tx[w].pc # "idle"
    BY <1>2
  <2>2. IdOf(w, tx[w]).key = KeyAt(tx[w])
    BY DEF IdOf
  <2> QED BY <1>1, <1>3, <2>1, <2>2, AtHand
<1>5. KeyLock(w) = KeyName(KeyAt(tx[w])) /\ RowLock(w) = RowName(IdOf(w, tx[w])) /\ Identity(w) = IdOf(w, tx[w])
  BY <1>1, InTermsOfRecord DEF KeyName
<1>6. KeyName(KeyAt(tx[w])) \in tx[v].locks => v \in Savers
  BY <1>2, <1>3, WriterSources DEF Holding
<1>7. CASE tx[w].pc = "define"
  <2>1. KeyName(Keys[tx[w].k]) \in tx[v].locks
    BY <1>4, <1>5, <1>7 DEF Blockers, HoldersOfLock
  <2>2. v \in Savers
    BY <1>4, <1>6, <2>1
  <2>3. tx[v].pc # "idle"
    BY <1>3, <2>1, NoTxType DEF Position
  <2> QED BY <1>2, <1>3, <1>4, <1>7, <2>1, <2>2, <2>3 DEF Holding
<1>8. CASE tx[w].pc # "define"
  <2>1. KeyName(KeyAt(tx[w])) \in tx[w].locks
    BY <1>3, <1>4, <1>8 DEF Holding
  <2>2. KeyName(KeyAt(tx[w])) \notin tx[v].locks
    BY <1>3, <2>1 DEF Apart
  <2>3. CASE tx[w].pc = "create"
    <3>1. PICK e \in tx[v].add : Overlap(New(w), e)
      BY <2>3 DEF Blockers, HoldersOfInterval
    <3>2. New(w).key = KeyAt(tx[w]) /\ New(w).source = "official"
      BY <1>1, <1>3, <1>4, NewIsDefinition
    <3>3. e.key = KeyAt(tx[w]) /\ e.source = "official"
      BY <3>1, <3>2 DEF Overlap
    <3>4. v \in Savers
      BY <1>2, <1>3, <3>3, WriterSources DEF Editing
    <3> QED BY <1>3, <2>2, <3>3, <3>4 DEF Editing
  <2>4. CASE tx[w].pc = "read"
    <3>1. RowName(IdOf(w, tx[w])) \in tx[v].locks
      BY <1>5, <2>4 DEF Blockers, HoldersOfLock
    <3>2. v \in Savers /\ tx[v].pc # "idle"
      BY <1>2, <1>3, <3>1, NoTxType, WriterSources DEF Holding, Position
    <3> QED BY <1>3, <1>4, <2>2, <3>1, <3>2 DEF Holding
  <2>5. CASE tx[w].pc = "write"
    <3>1. tx[v].puts[IdOf(w, tx[w])] # <<>>
      BY <1>5, <2>5 DEF Blockers, HoldersOfRow, Written
    <3>2. IdOf(w, tx[w]).source = "official"
      BY <1>1 DEF IdOf
    <3>3. v \in Savers
      BY <1>2, <1>3, <1>4, <3>1, <3>2, WriterSources DEF Putting
    <3>4. RowName(IdOf(w, tx[w])) \in tx[v].locks
      BY <1>3, <1>4, <3>1, <3>3 DEF Putting
    <3>5. RowName(IdOf(w, tx[w])) \in tx[w].locks
      BY <1>3, <1>4, <2>5 DEF Holding
    <3> QED BY <1>3, <3>4, <3>5 DEF Apart
  <2> QED BY <1>2, <1>8, <2>3, <2>4, <2>5
<1> QED BY <1>7, <1>8

LEMMA DeadlockStep ==
  ASSUME IInv, NEW w \in Writers, Deadlock(w)
  PROVE  IInv'
<1>1. PICK v \in Blockers(w) : w \in Blockers(v)
  BY DEF Deadlock
<1>2. Fail(w, "deadlock") /\ UNCHANGED faults
  BY DEF Deadlock
<1>3. w \notin Savers
  <2> SUFFICES ASSUME w \in Savers PROVE FALSE
    OBVIOUS
  <2>1. v \in Savers /\ tx[w].pc = "define" /\ (tx[w].k < tx[v].k \/ (tx[w].k = tx[v].k /\ tx[v].pc # "define"))
    BY <1>1, SaverWaits
  <2>2. tx[v].pc = "define" /\ (tx[v].k < tx[w].k \/ (tx[v].k = tx[w].k /\ tx[w].pc # "define"))
    BY <1>1, <2>1, SaverWaits
  <2>3. tx[v].k \in Nat /\ tx[w].k \in Nat
    BY <2>1 DEF IInv, TypeOK, Transactions, Writers
  <2> QED BY <2>1, <2>2, <2>3
<1>4. faults' \in 0..MaxFaults
  BY <1>2 DEF IInv, TypeOK
<1> QED BY <1>2, <1>3, <1>4, FailKeeps

LEMMA LoseStep ==
  ASSUME IInv, NEW w \in Writers, Lose(w)
  PROVE  IInv'
<1>1. Fail(w, "lost") /\ faults' \in 0..MaxFaults
  BY BoundAssumption DEF Lose, IInv, TypeOK
<1> QED BY <1>1, FailKeeps

---------------------------------------------------------------------------
(* Commit: what one transaction has done is what all see.                  *)

LEMMA CommitIs ==
  ASSUME IInv, NEW w \in Writers, Commit(w)
  PROVE  /\ tx[w].pc = "commit" /\ tx[w] \in Transactions /\ Local(w, tx[w], defs, rows)
         /\ defs \in SUBSET Definitions /\ rows \in [Identities -> Seq(Values)]
         /\ defs' = ViewOf(tx[w], defs) /\ rows' = After(tx[w], rows) /\ rows' \in [Identities -> Seq(Values)]
         /\ tx' \in [Writers -> Transactions] /\ tx'[w] = NoTx /\ \A v \in Others(w) : tx'[v] = tx[v]
<1>1. tx[w].pc = "commit" /\ defs' = View(w) /\ rows' = [id \in Identities |-> Chain(w, id)] /\ Goto(w, NoTx)
  BY DEF Commit
<1>2. /\ tx[w] \in Transactions /\ Local(w, tx[w], defs, rows)
      /\ defs \in SUBSET Definitions /\ rows \in [Identities -> Seq(Values)]
  BY <1>1, Begun
<1>3. View(w) = ViewOf(tx[w], defs) /\ \A id \in Identities : Chain(w, id) = ChainOf(tx[w], rows, id)
  BY InTermsOfRecord
<1>4. rows' = After(tx[w], rows)
  BY <1>1, <1>3 DEF After
<1>5. After(tx[w], rows) \in [Identities -> Seq(Values)]
  BY <1>2, ChainIsSeq DEF After
<1>6. tx \in [Writers -> Transactions] /\ NoTx \in Transactions
  BY NoTxType DEF IInv, TypeOK
<1>7. tx' \in [Writers -> Transactions] /\ tx'[w] = NoTx /\ \A v \in Others(w) : tx'[v] = tx[v]
  <2> DEFINE n == NoTx
  <2>1. n \in Transactions /\ tx' = [tx EXCEPT ![w] = n]
    BY <1>1, <1>6 DEF Goto
  <2> HIDE DEF n
  <2>2. tx' \in [Writers -> Transactions] /\ tx'[w] = n /\ \A v \in Others(w) : tx'[v] = tx[v]
    BY <1>6, <2>1 DEF Others
  <2> QED BY <2>2 DEF n
<1> QED BY <1>1, <1>2, <1>3, <1>4, <1>5, <1>7

LEMMA CommitEvidence ==
  ASSUME IInv, NEW w \in Writers, Commit(w)
  PROVE  Evidence' /\ defs' \subseteq Definitions /\ \A v \in Writers : tx'[v].cut \subseteq defs'
<1> DEFINE t == tx[w]
<1>1. /\ t \in Transactions /\ Local(w, t, defs, rows)
      /\ defs \in SUBSET Definitions /\ rows \in [Identities -> Seq(Values)]
      /\ defs' = ViewOf(t, defs) /\ rows' = After(t, rows) /\ rows' \in [Identities -> Seq(Values)]
      /\ tx'[w] = NoTx /\ \A v \in Others(w) : tx'[v] = tx[v]
  BY CommitIs
<1>2. Tile(defs') /\ \A id \in Identities : NoRepeat(rows'[id])
  BY <1>1 DEF Local, After
<1>3. \A v \in Writers : Local(v, tx'[v], defs', rows')
  <2> TAKE v \in Writers
  <2>1. CASE v = w
    <3> DEFINE D == defs'
               R == rows'
    <3>1. R \in [Identities -> Seq(Values)] /\ Tile(D) /\ (\A id \in Identities : NoRepeat(R[id])) /\ v \in Writers
      BY <1>1, <1>2
    <3> HIDE DEF D, R
    <3>2. Local(v, NoTx, D, R)
      BY ONLY <3>1, IdleLocal
    <3> QED BY <1>1, <2>1, <3>2 DEF D, R
  <2>2. CASE v # w
    <3> DEFINE u == tx[v]
               D == defs
               R == rows
    <3>1. tx'[v] = u
      BY <1>1, <2>2 DEF Others
    <3>2. /\ v \in Writers /\ w \in Writers /\ v # w /\ u \in Transactions /\ t \in Transactions
          /\ D \in SUBSET Definitions /\ R \in [Identities -> Seq(Values)]
          /\ Local(v, u, D, R) /\ Local(w, t, D, R) /\ Apart(u, t) /\ Tile(D)
      BY <1>1, <2>2 DEF IInv, Evidence, TypeOK
    <3> HIDE DEF u, t, D, R
    <3>3. Local(v, u, ViewOf(t, D), After(t, R))
      BY ONLY <3>2, CommitOfOther
    <3> QED BY <1>1, <3>1, <3>3 DEF D, R
  <2> QED BY <2>1, <2>2
<1>4. \A u, v \in Writers : u # v => Apart(tx'[u], tx'[v])
  <2> TAKE u, v \in Writers
  <2>1. CASE u # w /\ v # w
    BY <1>1, <2>1 DEF IInv, Evidence, Others
  <2>2. CASE u = w
    BY <1>1, <2>2, ApartFromNone
  <2>3. CASE v = w
    BY <1>1, <2>3, ApartFromNone, ApartSymmetric
  <2> QED BY <2>1, <2>2, <2>3
<1>5. Evidence'
  BY <1>2, <1>3, <1>4 DEF Evidence
<1>6. defs' \subseteq Definitions
  BY <1>1 DEF ViewOf, Transactions
<1>7. \A v \in Writers : tx'[v].cut \subseteq defs'
  BY <1>3 DEF Local
<1> QED BY <1>5, <1>6, <1>7

\* What is stored stays stored, and becomes so for everybody.
LEMMA StoredStays ==
  ASSUME NEW t \in Transactions, NEW R \in [Identities -> Seq(Values)], NEW id \in Identities, NEW x
  PROVE  /\ Contains(R[id], x) => Contains(After(t, R)[id], x)
         /\ \A u \in Transactions :
              Apart(u, t) /\ Contains(ChainOf(u, R, id), x) => Contains(ChainOf(u, After(t, R), id), x)
<1>1. R[id] \in Seq(Values) /\ t.puts[id] \in Seq(Values) /\ After(t, R)[id] = R[id] \o t.puts[id]
  BY DEF Transactions, After, ChainOf
<1>2. Contains(R[id], x) => Contains(After(t, R)[id], x)
  BY <1>1, ContainsConcat
<1>3. ASSUME NEW u \in Transactions, Apart(u, t), Contains(ChainOf(u, R, id), x)
      PROVE  Contains(ChainOf(u, After(t, R), id), x)
  <2>1. CASE t.puts[id] = <<>>
    BY <1>3, <2>1, ChainsMeet
  <2>2. CASE t.puts[id] # <<>>
    <3>1. ChainOf(u, After(t, R), id) = ChainOf(t, R, id) /\ ChainOf(u, R, id) = R[id]
      BY <1>3, <2>2, ChainsMeet
    <3> QED BY <1>1, <1>2, <1>3, <3>1 DEF ChainOf
  <2> QED BY <2>1, <2>2
<1> QED BY <1>2, <1>3

LEMMA LineIdentity ==
  ASSUME NEW file \in Files, NEW i \in 1..Len(file)
  PROVE  /\ file[i] \in [kind : {"valid", "invalid", "fatal"}, at : Times, val : Values]
         /\ \A key \in AllKeys : CliId(key, file[i].at) \in Identities
<1>1. file[i] \in [kind : {"valid", "invalid", "fatal"}, at : Times, val : Values]
  <2>1. file \in Seq([kind : {"valid", "invalid", "fatal"}, at : Times, val : Values])
    BY FileAssumption
  <2> QED BY <2>1, ElementOfSeq
<1>2. PlatformOf[Cli] \in Platforms
  BY DEF Platforms, Writers, Imports
<1> QED BY <1>1, <1>2 DEF CliId, Identities, Sources

LEMMA StoredGrows ==
  ASSUME NEW t \in Transactions, NEW R \in [Identities -> Seq(Values)], NEW file \in Files, NEW i \in 1..Len(file),
         Stored(file[i], R)
  PROVE  Stored(file[i], After(t, R))
BY StoredStays, LineIdentity DEF Stored

\* The file of a running command.
LEMMA FileAtHand ==
  ASSUME IInv, NEW i \in 1..Len(command.file)
  PROVE  command.file \in Files
<1>1. command.file \in Files \cup {<<>>}
  BY DEF IInv, TypeOK, Commands
<1>2. command.file # <<>>
  BY EmptySeq
<1> QED BY <1>1, <1>2

LEMMA CommitCommand ==
  ASSUME IInv, NEW w \in Writers, Commit(w)
  PROVE  Command' /\ command' \in Commands
<1> DEFINE t == tx[w]
           R == rows'
<1>1. /\ t.pc = "commit" /\ t \in Transactions /\ rows \in [Identities -> Seq(Values)]
      /\ R = After(t, rows) /\ tx'[w] = NoTx /\ \A v \in Others(w) : tx'[v] = tx[v]
  BY CommitIs
<1>2. CommandOf(command, tx[Cli], rows)
      /\ command \in Commands
  BY DEF IInv, Command, TypeOK
<1>3. \A i \in 1..Len(command.file) : Stored(command.file[i], rows) => Stored(command.file[i], R)
  BY <1>1, FileAtHand, StoredGrows
<1>4. command' = IF w = Cli THEN [command EXCEPT !.line = @ + 1, !.wrote = @ \/ Written(w) # {}] ELSE command
  BY DEF Commit
<1>5. CASE w = Cli
  <2>1. AtLine(command, t, rows)
    BY <1>1, <1>2, <1>5 DEF CommandOf
  <2>2. /\ command'.st = "lines" /\ command'.file = command.file /\ command'.line = command.line + 1
        /\ command'.audit = command.audit /\ command'.wrote \in BOOLEAN
        /\ command' \in Commands
    <3> DEFINE b == command.wrote \/ Written(w) # {}
    <3>1. b \in BOOLEAN
      OBVIOUS
    <3>2. command' = [command EXCEPT !.line = @ + 1, !.wrote = b]
      BY <1>4, <1>5
    <3>3. command.st = "lines"
      BY <2>1 DEF AtLine
    <3> DEFINE n == command.line + 1
               B == BOOLEAN
               S == {"idle", "lines", "over"}
               F == Files \cup {<<>>}
               A == {"none", "started", "succeeded", "failed"}
    <3>4. /\ command \in [st : S, file : F, line : Nat \ {0}, wrote : B, audit : A] /\ b \in B
          /\ command' = [command EXCEPT !.line = n, !.wrote = b]
      BY <1>2, <3>1, <3>2 DEF Commands
    <3>5. n \in Nat \ {0}
      BY <1>2 DEF Commands
    <3> HIDE DEF b, B, S, F, A, n
    <3>6. /\ command'.st = command.st /\ command'.file = command.file /\ command'.line = n
          /\ command'.audit = command.audit /\ command'.wrote = b
          /\ command' \in [st : S, file : F, line : Nat \ {0}, wrote : B, audit : A]
      BY <3>4, <3>5
    <3> QED BY <3>3, <3>4, <3>6 DEF b, B, S, F, A, n, Commands
  <2>3. Stored(command.file[command.line], R)
    <3> DEFINE line == command.file[command.line]
    <3>1. \A j \in 1..Len(Keys) : Contains(ChainOf(t, rows, CliId(Keys[j], line.at)), line.val)
      BY <1>1, <2>1 DEF AtLine
    <3>2. \A key \in AllKeys : CliId(key, line.at) \in Identities
      BY <2>1, FileAtHand, LineIdentity DEF AtLine
    <3>3. \A key \in AllKeys : Contains(ChainOf(t, rows, CliId(key, line.at)), line.val)
      BY <3>1, KeysAreDistinct
    <3>4. \A key \in AllKeys : R[CliId(key, line.at)] = ChainOf(t, rows, CliId(key, line.at))
      BY <1>1, <3>2 DEF After
    <3> QED BY <3>3, <3>4 DEF Stored
  <2>4. \A i \in 1..Len(command.file) : i < command.line + 1 => Stored(command.file[i], R)
    <3>1. command.line \in Nat
      BY <1>2 DEF Commands
    <3>2. \A i \in 1..Len(command.file) : i < command.line + 1 => i < command.line \/ i = command.line
      BY <3>1
    <3>3. \A i \in 1..Len(command.file) : i < command.line => Stored(command.file[i], rows)
      BY <1>2, <2>1 DEF CommandOf, AtLine
    <3> QED BY <1>3, <2>3, <3>2, <3>3
  <2>5. command.audit # "succeeded" /\ ~Fatal(command.file)
    BY <1>2, <2>1 DEF CommandOf, AtLine
  <2>6. CommandOf(command', tx'[Cli], R)
    BY <1>1, <1>5, <2>2, <2>4, <2>5, NoTxType DEF CommandOf
  <2> QED BY <2>2, <2>6 DEF Command
<1>6. CASE w # Cli
  <2>1. command' = command /\ tx'[Cli] = tx[Cli]
    BY <1>1, <1>4, <1>6 DEF Others, Writers, Imports
  <2>2. ASSUME tx[Cli].pc # "idle" PROVE AtLine(command, tx[Cli], R)
    <3> DEFINE line == command.file[command.line]
               u == tx[Cli]
    <3>1. AtLine(command, u, rows)
      BY <1>2, <2>2 DEF CommandOf
    <3>2. \A key \in AllKeys : CliId(key, line.at) \in Identities
      BY <3>1, FileAtHand, LineIdentity DEF AtLine
    <3>3. u \in Transactions /\ Apart(u, t)
      BY <1>6 DEF IInv, TypeOK, Evidence, Writers, Imports
    <3>4. \A id \in Identities : \A x : Contains(ChainOf(u, rows, id), x) => Contains(ChainOf(u, R, id), x)
      BY <1>1, <3>3, StoredStays
    <3> HIDE DEF u, R
    <3>5. AtLine(command, u, R)
      BY <3>1, <3>2, <3>4, KeysAreDistinct DEF AtLine
    <3> QED BY <3>5 DEF u
  <2>3. CommandOf(command, tx[Cli], R)
    BY <1>2, <1>3, <2>2 DEF CommandOf
  <2> QED BY <1>2, <2>1, <2>3 DEF Command
<1> QED BY <1>5, <1>6

\* An import that has written something adds an event that was not there.
LEMMA AddsEvent ==
  ASSUME IInv, NEW w \in Imports, tx[w].pc = "commit", Written(w) # {}
  PROVE  LET new == [id |-> EventId(w), platform |-> PlatformOf[w], at |-> tx[w].obs[1].at, pending |-> TRUE] IN
           /\ AddEvent(w) = events \cup {new} /\ new \in Rows
           /\ w # Cli => new.id = <<"run", tx[w].run>>
           /\ w = Cli => /\ new.id[1] = "line" /\ DOMAIN new.id[2] = Written(w)
                         /\ \A id \in Written(w) : new.id[2][id] = Len(rows[id]) + 1
<1> DEFINE t == tx[w]
           f == [id \in Written(w) |-> Len(rows[id]) + 1]
           new == [id |-> EventId(w), platform |-> PlatformOf[w], at |-> t.obs[1].at, pending |-> TRUE]
<1>1. w \in Writers /\ t \in Transactions /\ Position(w, t) /\ rows \in [Identities -> Seq(Values)] /\ events \subseteq Rows
  BY Begun DEF IInv, TypeOK, Evidence, Local, Writers
<1>2. t.obs[1].at \in Times
  <2>1. t.obs \in Seq(Observations) /\ Len(t.obs) = 1
    BY <1>1 DEF Position, Transactions
  <2>2. t.obs[1] \in Observations
    BY <2>1, ElementOfSeq
  <2> QED BY <2>2 DEF Observations
<1>3. \A id \in Written(w) : id \in Identities /\ Len(rows[id]) \in Nat
  BY <1>1, LenProperties DEF Written
<1>4. f \in [Written(w) -> Nat] /\ Written(w) \in SUBSET Identities
  BY <1>3
<1>5. EventId(w) \in EventIds
  <2>1. CASE w = Cli
    <3>1. EventId(w) = <<"line", f>>
      BY <2>1 DEF EventId
    <3>2. f \in UNION {[D -> Nat] : D \in SUBSET Identities}
      BY <1>4
    <3> HIDE DEF f
    <3> QED BY <3>1, <3>2 DEF EventIds
  <2>2. CASE w # Cli
    <3>1. EventId(w) = <<"run", t.run>> /\ t.run \in Nat
      BY <1>1, <2>2, BoundAssumption DEF EventId, Transactions
    <3> QED BY <3>1 DEF EventIds
  <2> QED BY <2>1, <2>2
<1>6. new \in Rows
  <2>1. PlatformOf[w] \in Platforms
    BY <1>1 DEF Platforms
  <2> QED BY <1>2, <1>5, <2>1 DEF Rows
<1>7. \A e \in events : e.id # EventId(w)
  <2> SUFFICES ASSUME NEW e \in events, e.id = EventId(w) PROVE FALSE
    OBVIOUS
  <2>1. Dated(e, begun, rows) /\ e.id # <<"run", t.run>>
    BY <1>1 DEF IInv, EventsSound
  <2>2. CASE w = Cli
    <3>1. e.id[1] = "line" /\ e.id[2] = f
      BY <2>2 DEF EventId
    <3>2. PICK id \in Written(w) : TRUE
      OBVIOUS
    <3>3. f[id] = Len(rows[id]) + 1 /\ Len(rows[id]) \in Nat /\ id \in DOMAIN f
      BY <1>3
    <3> HIDE DEF f
    <3> QED BY <2>1, <3>1, <3>3 DEF Dated
  <2>3. CASE w # Cli
    BY <2>1, <2>3 DEF EventId
  <2> QED BY <2>2, <2>3
<1>8. \A e \in events : [e EXCEPT !.pending = TRUE] # new
  <2> TAKE e \in events
  <2>1. [e EXCEPT !.pending = TRUE].id = e.id
    BY <1>1 DEF Rows
  <2>2. new.id = EventId(w)
    OBVIOUS
  <2> QED BY <1>7, <2>1, <2>2
<1>9. AddEvent(w) = events \cup {new}
  BY <1>8 DEF AddEvent
<1>10. w # Cli => new.id = <<"run", t.run>>
  BY DEF EventId
<1>11. w = Cli => new.id[1] = "line" /\ DOMAIN new.id[2] = Written(w) /\ \A id \in Written(w) : new.id[2][id] = Len(rows[id]) + 1
  BY DEF EventId
<1> QED BY <1>6, <1>9, <1>10, <1>11

LEMMA RowsGrow ==
  ASSUME IInv, NEW w \in Writers, Commit(w), NEW id \in Identities
  PROVE  /\ Len(rows'[id]) \in Nat /\ Len(rows[id]) \in Nat /\ Len(rows[id]) <= Len(rows'[id])
         /\ id \in Written(w) => Len(rows[id]) + 1 <= Len(rows'[id])
         /\ id \notin Written(w) => rows'[id] = rows[id]
<1>1. /\ tx[w] \in Transactions /\ rows \in [Identities -> Seq(Values)] /\ rows' = After(tx[w], rows)
      /\ rows' \in [Identities -> Seq(Values)]
  BY CommitIs
<1>2. rows'[id] = ChainOf(tx[w], rows, id)
  BY <1>1 DEF After
<1>3. /\ Len(ChainOf(tx[w], rows, id)) = Len(rows[id]) + Len(tx[w].puts[id])
      /\ Len(rows[id]) \in Nat /\ Len(tx[w].puts[id]) \in Nat
      /\ tx[w].puts[id] = <<>> => ChainOf(tx[w], rows, id) = rows[id]
  BY <1>1, ChainIsSeq
<1>4. tx[w].puts[id] \in Seq(Values)
  BY <1>1 DEF Transactions
<1>5. id \in Written(w) => Len(tx[w].puts[id]) # 0
  BY <1>4, EmptySeq DEF Written
<1>6. id \notin Written(w) => tx[w].puts[id] = <<>>
  BY DEF Written
<1>7. Len(rows'[id]) = Len(rows[id]) + Len(tx[w].puts[id])
  BY <1>2, <1>3
<1>8. id \notin Written(w) => rows'[id] = rows[id]
  BY <1>2, <1>3, <1>6
<1> DEFINE l == Len(rows[id])
           m == Len(rows'[id])
           p == Len(tx[w].puts[id])
<1>9. l \in Nat /\ p \in Nat /\ m = l + p /\ (id \in Written(w) => p # 0)
  BY <1>3, <1>5, <1>7
<1> HIDE DEF l, m, p
<1>10. m \in Nat /\ l \in Nat /\ l <= m /\ (id \in Written(w) => l + 1 <= m)
  BY <1>9
<1> QED BY <1>8, <1>10 DEF l, m

LEMMA CommitEvents ==
  ASSUME IInv, NEW w \in Writers, Commit(w)
  PROVE  EventsSound' /\ events' \subseteq Rows
<1> DEFINE t == tx[w]
           new == [id |-> EventId(w), platform |-> PlatformOf[w], at |-> t.obs[1].at, pending |-> TRUE]
<1>1. t.pc = "commit" /\ tx'[w] = NoTx /\ (\A v \in Others(w) : tx'[v] = tx[v]) /\ begun' = begun
  BY CommitIs DEF Commit
<1>2. EventsSound /\ events \subseteq Rows /\ begun \in Nat /\ \A v \in Writers : tx[v] \in Transactions
  BY BoundAssumption DEF IInv, TypeOK
<1>3. \A e \in events : Dated(e, begun, rows')
  <2> TAKE e \in events
  <2>1. Dated(e, begun, rows) /\ e.id \in EventIds
    BY <1>2 DEF EventsSound, Rows
  <2>2. ASSUME e.id[1] = "line" PROVE \A id \in DOMAIN e.id[2] : e.id[2][id] <= Len(rows'[id])
    <3>1. e.id[2] \in UNION {[D -> Nat] : D \in SUBSET Identities}
      BY <2>1, <2>2 DEF EventIds
    <3>2. PICK D \in SUBSET Identities : e.id[2] \in [D -> Nat]
      BY <3>1
    <3>3. \A id \in D : e.id[2][id] \in Nat /\ e.id[2][id] <= Len(rows[id])
      BY <2>1, <2>2, <3>2 DEF Dated
    <3>4. \A id \in D : Len(rows'[id]) \in Nat /\ Len(rows[id]) \in Nat /\ Len(rows[id]) <= Len(rows'[id])
      BY RowsGrow
    <3> QED BY <3>2, <3>3, <3>4
  <2> QED BY <2>1, <2>2 DEF Dated
<1>4. \/ events' = events
      \/ w \in Imports /\ Written(w) # {} /\ events' = events \cup {new} /\ new \in Rows /\ Dated(new, begun, rows')
         /\ \A v \in Others(w) : tx[v].pc # "idle" => new.id # <<"run", tx[v].run>>
  <2>1. CASE w \in Imports /\ Written(w) # {}
    <3>1. /\ AddEvent(w) = events \cup {new} /\ new \in Rows
          /\ w # Cli => new.id = <<"run", t.run>>
          /\ w = Cli => /\ new.id[1] = "line" /\ DOMAIN new.id[2] = Written(w)
                        /\ \A id \in Written(w) : new.id[2][id] = Len(rows[id]) + 1
      BY <1>1, <2>1, AddsEvent
    <3>2. events' = events \cup {new}
      BY <2>1, <3>1 DEF Commit
    <3> HIDE DEF new
    <3>3. CASE w = Cli
      <4>1. \A id \in Written(w) : Len(rows[id]) + 1 <= Len(rows'[id])
        BY RowsGrow DEF Written
      <4> QED BY <2>1, <3>1, <3>2, <3>3, <4>1 DEF Dated
    <3>4. CASE w # Cli
      <4>1. t.run <= begun /\ \A v \in Others(w) : tx[v].pc # "idle" => tx[v].run # t.run
        BY <1>1, <1>2 DEF EventsSound, Others
      <4>2. new.id = <<"run", t.run>>
        BY <3>1, <3>4
      <4>3. Dated(new, begun, rows')
        BY <4>1, <4>2 DEF Dated
      <4>4. \A v \in Others(w) : tx[v].pc # "idle" => new.id # <<"run", tx[v].run>>
        BY <4>1, <4>2
      <4> QED BY <2>1, <3>1, <3>2, <4>3, <4>4
    <3> QED BY <3>3, <3>4
  <2>2. CASE ~(w \in Imports /\ Written(w) # {})
    BY <2>2 DEF Commit, AddEvent
  <2> QED BY <2>1, <2>2
<1> HIDE DEF new
<1>5. \A v \in Writers : tx'[v].pc # "idle" => v # w /\ tx'[v] = tx[v]
  BY <1>1, NoTxType DEF Others
<1>6. \A v \in Writers : tx'[v].run <= begun'
  <2> TAKE v \in Writers
  <2>1. CASE v = w
    BY <1>1, <1>2, <2>1 DEF NoTx
  <2>2. CASE v # w
    BY <1>1, <1>2, <2>2 DEF EventsSound, Others
  <2> QED BY <2>1, <2>2
<1>7. \A e \in events' : Dated(e, begun', rows')
  BY <1>1, <1>3, <1>4
<1>8. \A u, v \in Writers : u # v /\ tx'[u].pc # "idle" /\ tx'[v].pc # "idle" => tx'[u].run # tx'[v].run
  BY <1>2, <1>5 DEF EventsSound
<1>9. \A v \in Writers : tx'[v].pc # "idle" => \A e \in events' : e.id # <<"run", tx'[v].run>>
  <2> SUFFICES ASSUME NEW v \in Writers, tx'[v].pc # "idle", NEW e \in events' PROVE e.id # <<"run", tx'[v].run>>
    OBVIOUS
  <2>1. v # w /\ tx'[v] = tx[v] /\ v \in Others(w)
    BY <1>5 DEF Others
  <2>2. CASE e \in events
    BY <1>2, <2>1, <2>2 DEF EventsSound
  <2>3. CASE e \notin events
    BY <1>4, <2>1, <2>3
  <2> QED BY <2>2, <2>3
<1>10. EventsSound'
  BY <1>6, <1>7, <1>8, <1>9 DEF EventsSound
<1>11. events' \subseteq Rows
  BY <1>2, <1>4
<1> QED BY <1>10, <1>11

\* The import evidence of a date changes with an event of that date only.
LEMMA CommitOwed ==
  ASSUME IInv, NEW w \in Writers, Commit(w)
  PROVE  Owed'
<1> DEFINE at0 == tx[w].obs[1].at
<1>1. /\ built' = built /\ tx[w].pc = "commit" /\ Putting(w, tx[w])
      /\ rows \in [Identities -> Seq(Values)] /\ rows' \in [Identities -> Seq(Values)]
  BY CommitIs DEF Commit, Local
<1>2. \A id \in Written(w) : id \in Identities /\ id.source = Source(w) /\ (w \in Imports => id.at = at0)
  BY <1>1 DEF Putting, Written
<1>3. events \subseteq events' /\ (w \in Imports /\ Written(w) # {} => \E e \in events' : e.pending /\ e.at = at0)
  <2>1. CASE w \in Imports /\ Written(w) # {}
    <3> DEFINE new == [id |-> EventId(w), platform |-> PlatformOf[w], at |-> at0, pending |-> TRUE]
    <3>1. AddEvent(w) = events \cup {new}
      BY <1>1, <2>1, AddsEvent
    <3>2. events' = events \cup {new} /\ new.pending /\ new.at = at0
      BY <2>1, <3>1 DEF Commit
    <3> HIDE DEF new
    <3> QED BY <2>1, <3>2
  <2>2. CASE ~(w \in Imports /\ Written(w) # {})
    BY <2>2 DEF Commit, AddEvent
  <2> QED BY <2>1, <2>2
<1>4. ASSUME NEW at \in Times, ~(w \in Imports /\ Written(w) # {} /\ at = at0)
      PROVE  ImportHeads(at)' = ImportHeads(at)
  <2>1. ASSUME NEW k \in AllKeys, NEW p \in {PlatformOf[v] : v \in Imports}
        PROVE  rows'[[platform |-> p, key |-> k, source |-> "self-scrape", version |-> ImportVersion, at |-> at]]
                 = rows[[platform |-> p, key |-> k, source |-> "self-scrape", version |-> ImportVersion, at |-> at]]
    <3> DEFINE id == [platform |-> p, key |-> k, source |-> "self-scrape", version |-> ImportVersion, at |-> at]
    <3>1. id \in Identities
      BY <1>4, <2>1 DEF Identities, Platforms, Sources, Writers
    <3>2. id.source = "self-scrape" /\ id.at = at
      OBVIOUS
    <3> HIDE DEF id
    <3>3. id \notin Written(w)
      <4> SUFFICES ASSUME id \in Written(w) PROVE FALSE
        OBVIOUS
      <4>1. Source(w) = "self-scrape" /\ (w \in Imports => at = at0)
        BY <1>2, <3>2
      <4>2. w \in Imports
        BY <4>1, WriterSources
      <4> QED BY <1>4, <4>1, <4>2
    <3>4. rows'[id] = rows[id]
      BY <3>1, <3>3, RowsGrow
    <3> QED BY <3>4 DEF id
  <2> QED BY <2>1 DEF ImportHeads
<1>5. \A at \in Times : built'[at] = ImportHeads(at)' \/ \E e \in events' : e.pending /\ e.at = at
  <2> TAKE at \in Times
  <2>1. CASE w \in Imports /\ Written(w) # {} /\ at = at0
    BY <1>3, <2>1
  <2>2. CASE ~(w \in Imports /\ Written(w) # {} /\ at = at0)
    <3>1. ImportHeads(at)' = ImportHeads(at)
      BY <1>4, <2>2
    <3>2. built[at] = ImportHeads(at) \/ \E e \in events : e.pending /\ e.at = at
      BY DEF IInv, Owed
    <3> QED BY <1>1, <1>3, <3>1, <3>2
  <2> QED BY <2>1, <2>2
<1> QED BY <1>5 DEF Owed

LEMMA CommitStep ==
  ASSUME IInv, NEW w \in Writers, Commit(w)
  PROVE  IInv'
<1>1. Evidence' /\ defs' \subseteq Definitions /\ \A v \in Writers : tx'[v].cut \subseteq defs'
  BY CommitEvidence
<1>2. Command' /\ command' \in Commands
  BY CommitCommand
<1>3. EventsSound' /\ events' \subseteq Rows /\ Owed'
  BY CommitEvents, CommitOwed
<1>4. rows' \in [Identities -> Seq(Values)] /\ tx' \in [Writers -> Transactions]
  BY CommitIs
<1>5. fate' = [fate EXCEPT ![w] = "committed"] /\ UNCHANGED <<built, begun, faults>>
  BY DEF Commit
<1>6. fate' \in [Writers -> {"none", "committed", "rejected", "definition", "conflict", "deadlock", "lost"}]
  BY <1>5 DEF IInv, TypeOK
<1>7. TypeOK'
  <2>1. begun' \in 0..MaxTx /\ faults' \in 0..MaxFaults
    BY <1>5 DEF IInv, TypeOK
  <2> QED BY <1>1, <1>2, <1>4, <1>6, <2>1 DEF TypeOK
<1>8. SaversNeverCollide'
  BY <1>5 DEF IInv, SaversNeverCollide, TypeOK, Writers
<1>9. DOMAIN built' = Times
  BY <1>5 DEF IInv
<1> QED BY <1>1, <1>2, <1>3, <1>7, <1>8, <1>9 DEF IInv

---------------------------------------------------------------------------
(* The other actions.                                                      *)

LEMMA BeginStep ==
  ASSUME IInv, NEW w \in Writers, NEW version \in Versions \cup {ImportVersion}, NEW obs \in Seq(Observations), obs # <<>>,
         NEW order \in Seq(AllKeys), Len(order) = Len(Keys), w \in Savers => order = Keys,
         w \in Imports => Len(obs) = 1 /\ version = ImportVersion,
         w = Cli => /\ command.st = "lines" /\ command.line \in 1..Len(command.file)
                    /\ command.file[command.line].kind = "valid" /\ order = Keys
                    /\ obs = <<[at |-> command.file[command.line].at, val |-> command.file[command.line].val]>>,
         Begin(w, version, obs, order)
  PROVE  IInv'
<1> DEFINE t == [NoTx EXCEPT !.pc = "define", !.run = begun + 1, !.version = version, !.obs = obs, !.order = order]
<1>1. /\ tx[w].pc = "idle" /\ begun < MaxTx /\ begun' = begun + 1 /\ Goto(w, t)
      /\ UNCHANGED <<defs, rows, fate, events, built, command, faults>>
  BY DEF Begin
<1>2. /\ TypeOK /\ Evidence /\ EventsSound /\ rows \in [Identities -> Seq(Values)] /\ begun \in Nat /\ begun + 1 \in 0..MaxTx
      /\ Tile(defs) /\ \A id \in Identities : NoRepeat(rows[id])
  BY <1>1, BoundAssumption DEF IInv, TypeOK, Evidence
<1>3. /\ t \in Transactions /\ t.pc = "define" /\ t.run = begun + 1 /\ t.version = version /\ t.obs = obs /\ t.order = order
      /\ t.k = 1 /\ t.m = 1 /\ t.locks = {} /\ t.shut = {} /\ t.add = {} /\ t.cut = {} /\ \A id \in Identities : t.puts[id] = <<>>
  <2> DEFINE run == begun + 1
             n == NoTx
             u == [n EXCEPT !.pc = "define", !.run = run, !.version = version, !.obs = obs, !.order = order]
  <2>1. n \in Transactions /\ run \in 0..MaxTx
    BY <1>2, NoTxType
  <2>2. n.k = 1 /\ n.m = 1 /\ n.locks = {} /\ n.shut = {} /\ n.add = {} /\ n.cut = {}
        /\ \A id \in Identities : n.puts[id] = <<>>
    BY NoTxType DEF NoTx
  <2>3. t = u
    OBVIOUS
  <2> HIDE DEF run, n, t
  <2>4. /\ u \in Transactions /\ u.pc = "define" /\ u.run = run /\ u.version = version /\ u.obs = obs /\ u.order = order
        /\ u.k = n.k /\ u.m = n.m /\ u.locks = n.locks /\ u.shut = n.shut /\ u.add = n.add /\ u.cut = n.cut
        /\ u.puts = n.puts
    BY <2>1 DEF Transactions
  <2> HIDE DEF u
  <2> QED BY <2>2, <2>3, <2>4 DEF run
<1> HIDE DEF t
<1>4. obs \in Seq(Observations) /\ Len(obs) \in Nat /\ 1 \in 1..Len(obs) /\ Len(Keys) \in Nat /\ 1 \in 1..Len(Keys)
  <2>1. Len(obs) \in Nat /\ Len(obs) # 0
    BY EmptySeq, LenProperties
  <2> QED BY <2>1, KeysAreDistinct
<1>5. Local(w, t, defs, rows)
  <2>1. Position(w, t)
    BY <1>3, <1>4 DEF Position
  <2>2. Holding(w, t)
    <3>1. \A j \in 1..Len(Keys) : ~(j < t.k)
      BY <1>3, <1>4
    <3> QED BY <1>3, <3>1 DEF Holding
  <2>3. Putting(w, t) /\ Editing(w, t) /\ Transition(w, t, defs) /\ Reading(w, t, rows)
    BY <1>3 DEF Putting, Editing, Transition, Reading
  <2>4. ViewOf(t, defs) = defs /\ t.cut \subseteq defs
    BY <1>3 DEF ViewOf
  <2>5. \A id \in Identities : ChainOf(t, rows, id) = rows[id]
    BY <1>2, <1>3, ChainIsSeq
  <2> QED BY <1>2, <2>1, <2>2, <2>3, <2>4, <2>5 DEF Local
<1>6. \A v \in Others(w) : Apart(t, tx[v])
  BY <1>3 DEF Apart
<1>7. /\ Evidence'
      /\ (tx \in [Writers -> Transactions] /\ \A v \in Writers : tx[v].cut \subseteq defs)'
      /\ tx'[w] = t /\ \A v \in Others(w) : tx'[v] = tx[v]
  BY <1>1, <1>2, <1>3, <1>5, <1>6, EvidenceStep
<1>8. TypeOK'
  BY <1>1, <1>2, <1>7 DEF TypeOK
<1>9. Command'
  <2>1. CommandOf(command, tx'[Cli], rows)
    <3>1. CASE w = Cli
      <4>1. \A j \in 1..Len(Keys) : ~(j < t.k)
        BY <1>3, <1>4
      <4>2. AtLine(command, t, rows)
        BY <1>3, <3>1, <4>1 DEF AtLine
      <4> QED BY <1>7, <3>1, <4>2 DEF IInv, Command, CommandOf
    <3>2. CASE w # Cli
      <4>1. tx'[Cli] = tx[Cli]
        BY <1>7, <3>2 DEF Others, Writers, Imports
      <4> QED BY <4>1 DEF IInv, Command
    <3> QED BY <3>1, <3>2
  <2> QED BY <1>1, <2>1 DEF Command
<1>10. EventsSound'
  <2>1. \A e \in events : Dated(e, begun, rows) /\ e.id \in EventIds
    BY <1>2 DEF IInv, EventsSound, Rows
  <2>2. \A e \in events : Dated(e, begun + 1, rows) /\ e.id # <<"run", begun + 1>>
    <3> TAKE e \in events
    <3>1. e.id[1] = "run" => e.id[2] \in Nat
      BY <2>1 DEF EventIds
    <3>2. e.id[1] = "run" => e.id[2] <= begun
      BY <2>1 DEF Dated
    <3>3. e.id[1] = "run" => e.id[2] <= begun + 1 /\ e.id[2] # begun + 1
      BY <1>2, <3>1, <3>2
    <3> QED BY <2>1, <3>3 DEF Dated
  <2>3. \A v \in Others(w) : tx'[v] = tx[v] /\ tx[v].run <= begun /\ tx[v].run \in Nat
    BY <1>2, <1>7, BoundAssumption DEF EventsSound, Others, TypeOK, Transactions
  <2>4. \A v \in Writers : tx'[v].run <= begun'
    <3> TAKE v \in Writers
    <3>1. CASE v = w
      BY <1>1, <1>2, <1>3, <1>7, <3>1
    <3>2. CASE v # w
      BY <1>1, <1>2, <2>3, <3>2 DEF Others
    <3> QED BY <3>1, <3>2
  <2>5. \A v \in Others(w) : tx'[v].run # tx'[w].run
    BY <1>2, <1>3, <1>7, <2>3
  <2>6. \A u, v \in Writers : u # v /\ tx'[u].pc # "idle" /\ tx'[v].pc # "idle" => tx'[u].run # tx'[v].run
    BY <1>2, <2>3, <2>5 DEF EventsSound, Others
  <2>7. \A v \in Writers : tx'[v].pc # "idle" => \A e \in events' : e.id # <<"run", tx'[v].run>>
    <3> TAKE v \in Writers
    <3>1. CASE v = w
      BY <1>1, <1>3, <1>7, <2>2, <3>1
    <3>2. CASE v # w
      BY <1>1, <1>2, <2>3, <3>2 DEF EventsSound, Others
    <3> QED BY <3>1, <3>2
  <2>8. \A e \in events' : Dated(e, begun', rows')
    BY <1>1, <2>2
  <2> QED BY <2>4, <2>6, <2>7, <2>8 DEF EventsSound
<1>11. Owed'
  BY <1>1, OwedStays DEF IInv
<1> QED BY <1>1, <1>7, <1>8, <1>9, <1>10, <1>11 DEF IInv, SaversNeverCollide

LEMMA BeginSaveStep ==
  ASSUME IInv, NEW w \in Savers, BeginSave(w)
  PROVE  IInv'
<1>1. PICK version \in Versions, obs \in Saves : Begin(w, version, obs, Keys)
  BY DEF BeginSave
<1>2. w \in Writers /\ w \notin Imports /\ w # Cli
  BY WriterAssumption DEF Writers, Imports
<1>3. obs \in Seq(Observations) /\ obs # <<>> /\ version \in Versions \cup {ImportVersion} /\ Keys \in Seq(AllKeys)
  BY SaveAssumption, KeyAssumption
<1> QED BY <1>1, <1>2, <1>3, BeginStep

LEMMA OneObservation ==
  ASSUME NEW at \in Times, NEW val \in Values
  PROVE  /\ <<[at |-> at, val |-> val]>> \in Seq(Observations) /\ <<[at |-> at, val |-> val]>> # <<>>
         /\ Len(<<[at |-> at, val |-> val]>>) = 1
BY DEF Observations

LEMMA BeginImportStep ==
  ASSUME IInv, NEW w \in Collectors, BeginImport(w)
  PROVE  IInv'
<1>1. PICK order \in {Keys, Reverse(Keys)}, at \in Times, val \in Values :
             Begin(w, ImportVersion, <<[at |-> at, val |-> val]>>, order)
  BY DEF BeginImport
<1>2. w \in Writers /\ w \notin Savers /\ w # Cli
  BY WriterAssumption DEF Writers, Imports
<1>3. order \in Seq(AllKeys) /\ Len(order) = Len(Keys)
  <2>1. Keys \in Seq(AllKeys) /\ Len(Keys) \in Nat
    BY KeysAreDistinct
  <2>2. Reverse(Keys) = [i \in 1..Len(Keys) |-> Keys[Len(Keys) - i + 1]]
    BY DEF Reverse
  <2>3. \A i \in 1..Len(Keys) : Keys[Len(Keys) - i + 1] \in AllKeys
    BY <2>1, ElementOfSeq
  <2>4. Reverse(Keys) \in Seq(AllKeys) /\ Len(Reverse(Keys)) = Len(Keys)
    BY <2>1, <2>2, <2>3
  <2> QED BY <1>1, <2>1, <2>4
<1> DEFINE obs == <<[at |-> at, val |-> val]>>
<1>4. obs \in Seq(Observations) /\ obs # <<>> /\ Len(obs) = 1 /\ Begin(w, ImportVersion, obs, order)
  BY <1>1, OneObservation
<1> HIDE DEF obs
<1> QED BY <1>2, <1>3, <1>4, BeginStep

LEMMA BeginLineStep ==
  ASSUME IInv, BeginLine
  PROVE  IInv'
<1> DEFINE line == command.file[command.line]
           obs == <<[at |-> line.at, val |-> line.val]>>
<1>1. command.st = "lines" /\ command.line <= Len(command.file) /\ line.kind = "valid" /\ Begin(Cli, ImportVersion, obs, Keys)
  BY DEF BeginLine
<1>2. Cli \in Writers /\ Cli \notin Savers
  BY WriterAssumption DEF Writers, Imports
<1>3. command.line \in 1..Len(command.file)
  <2>1. command.line \in Nat \ {0} /\ command.file \in Files \cup {<<>>}
    BY DEF IInv, TypeOK, Commands
  <2>2. \A file \in Files : Len(file) \in Nat
    BY FileAssumption, LenProperties
  <2>3. Len(command.file) \in Nat
    BY <2>1, <2>2
  <2> QED BY <1>1, <2>1, <2>3
<1>4. line.at \in Times /\ line.val \in Values
  BY <1>3, FileAtHand, LineIdentity
<1>5. obs \in Seq(Observations) /\ obs # <<>> /\ Len(obs) = 1
  BY <1>4, OneObservation
<1>6. Keys \in Seq(AllKeys)
  BY KeyAssumption
<1>7. obs = <<[at |-> command.file[command.line].at, val |-> command.file[command.line].val]>>
  OBVIOUS
<1> HIDE DEF obs
<1> QED BY <1>1, <1>2, <1>3, <1>5, <1>6, <1>7, BeginStep

LEMMA RebuildStep ==
  ASSUME IInv, NEW e \in events, Rebuild(e)
  PROVE  IInv'
<1> DEFINE done == [e EXCEPT !.pending = FALSE]
<1>1. /\ e.pending /\ events' = (events \ {e}) \cup {done} /\ built' = [built EXCEPT ![e.at] = ImportHeads(e.at)]
      /\ UNCHANGED <<defs, rows, tx, fate, command, begun, faults>>
  BY DEF Rebuild
<1>2. e \in Rows /\ events \subseteq Rows /\ EventsSound /\ Owed /\ DOMAIN built = Times
  BY DEF IInv
<1>3. done \in Rows /\ done.id = e.id
  BY <1>2 DEF Rows
<1> HIDE DEF done
<1>4. events' \subseteq Rows /\ \A f \in events' : \E g \in events : f.id = g.id
  BY <1>1, <1>2, <1>3
<1>5. EventsSound'
  <2>1. \A f \in events' : Dated(f, begun, rows)
    BY <1>2, <1>4 DEF EventsSound, Dated
  <2>2. \A w \in Writers : tx[w].pc # "idle" => \A f \in events' : f.id # <<"run", tx[w].run>>
    BY <1>2, <1>4 DEF EventsSound
  <2> QED BY <1>1, <1>2, <2>1, <2>2 DEF EventsSound
<1>6. \A at : ImportHeads(at)' = ImportHeads(at)
  BY <1>1 DEF ImportHeads
<1>7. \A at \in Times : built'[at] = ImportHeads(at) \/ \E f \in events' : f.pending /\ f.at = at
  <2> TAKE at \in Times
  <2>1. CASE at = e.at
    <3>1. built'[at] = ImportHeads(at)
      BY <1>1, <1>2, <2>1
    <3> QED BY <3>1
  <2>2. CASE at # e.at
    <3>1. built'[at] = built[at]
      BY <1>1, <2>2
    <3>2. CASE \E f \in events : f.pending /\ f.at = at
      BY <1>1, <2>2, <3>2
    <3>3. CASE built[at] = ImportHeads(at)
      BY <3>1, <3>3
    <3> QED BY <1>2, <3>2, <3>3 DEF Owed
  <2> QED BY <2>1, <2>2
<1>8. Owed'
  BY <1>6, <1>7 DEF Owed
<1>9. TypeOK' /\ Evidence' /\ Command' /\ SaversNeverCollide' /\ DOMAIN built' = Times
  BY <1>1, <1>2 DEF IInv, TypeOK, Evidence, Command, SaversNeverCollide
<1> QED BY <1>4, <1>5, <1>8, <1>9 DEF IInv

\* What is left of IInv when only the command changes.
LEMMA CommandStep ==
  ASSUME IInv, UNCHANGED <<defs, rows, tx, fate, events, built, begun, faults>>, CommandOf(command', tx[Cli], rows),
         command' \in Commands
  PROVE  IInv'
<1>1. Owed'
  BY OwedStays DEF IInv
<1>2. Evidence' /\ EventsSound' /\ SaversNeverCollide' /\ Command'
  BY DEF IInv, Evidence, EventsSound, SaversNeverCollide, Command
<1>3. TypeOK'
  BY DEF IInv, TypeOK
<1> QED BY <1>1, <1>2, <1>3 DEF IInv

\* No transaction of the command is open but at a line of its file.
LEMMA NoLineOpen ==
  ASSUME IInv, tx[Cli].pc # "idle"
  PROVE  command.st = "lines" /\ command.line \in 1..Len(command.file) /\ command.file[command.line].kind = "valid"
BY DEF IInv, Command, CommandOf, AtLine

LEMMA StartCommandStep ==
  ASSUME IInv, NEW file \in Files, StartCommand(file)
  PROVE  IInv'
<1> DEFINE st == IF Fatal(file) THEN "over" ELSE "lines"
           audit == IF Fatal(file) THEN "failed" ELSE "started"
           c == [st |-> st, file |-> file, line |-> 1, wrote |-> FALSE, audit |-> audit]
<1>1. /\ command.st = "idle" /\ UNCHANGED <<defs, rows, tx, fate, events, built, begun, faults>>
      /\ command' = IF Fatal(file) THEN [NoRun EXCEPT !.st = "over", !.file = file, !.audit = "failed"]
                    ELSE [NoRun EXCEPT !.st = "lines", !.file = file, !.audit = "started"]
  BY DEF StartCommand
<1>2. command' = c
  <2>1. CASE Fatal(file)
    BY <1>1, <2>1 DEF NoRun
  <2>2. CASE ~Fatal(file)
    BY <1>1, <2>2 DEF NoRun
  <2> QED BY <2>1, <2>2
<1>3. tx[Cli].pc = "idle"
  BY <1>1, NoLineOpen
<1>4. c \in Commands
  BY DEF Commands
<1>5. CommandOf(c, tx[Cli], rows)
  <2>1. c.file = file /\ c.line = 1 /\ c.wrote = FALSE /\ c.audit # "succeeded" /\ c.st # "idle" /\ (Fatal(file) => c.st = "over")
    OBVIOUS
  <2> HIDE DEF c
  <2>2. \A i \in 1..Len(c.file) : ~(i < c.line)
    BY <2>1
  <2> QED BY <1>3, <2>1, <2>2 DEF CommandOf
<1> QED BY <1>1, <1>2, <1>4, <1>5, CommandStep

LEMMA SkipLineStep ==
  ASSUME IInv, SkipLine
  PROVE  IInv'
<1>1. /\ command.st = "lines" /\ command.file[command.line].kind = "invalid" /\ command' = [command EXCEPT !.line = @ + 1]
      /\ UNCHANGED <<defs, rows, tx, fate, events, built, begun, faults>>
  BY DEF SkipLine
<1>2. tx[Cli].pc = "idle"
  BY <1>1, NoLineOpen
<1>3. CommandOf(command, tx[Cli], rows)
      /\ command \in Commands
  BY DEF IInv, Command, TypeOK
<1>4. /\ command'.st = "lines" /\ command'.file = command.file /\ command'.line = command.line + 1 /\ command'.wrote = command.wrote
      /\ command'.audit = command.audit
      /\ command' \in Commands
  BY <1>1, <1>3 DEF Commands
<1>5. \A i \in 1..Len(command.file) : i < command.line + 1 => i < command.line \/ i = command.line
  BY <1>3 DEF Commands
<1>6. Stored(command.file[command.line], rows)
  BY <1>1 DEF Stored
<1>7. CommandOf(command', tx[Cli], rows)
  BY <1>1, <1>2, <1>3, <1>4, <1>5, <1>6 DEF CommandOf
<1> QED BY <1>1, <1>4, <1>7, CommandStep

LEMMA FinishCommandStep ==
  ASSUME IInv, FinishCommand
  PROVE  IInv'
<1>1. /\ command.st = "lines" /\ command.line > Len(command.file) /\ command' = [command EXCEPT !.st = "over", !.audit = "succeeded"]
      /\ UNCHANGED <<defs, rows, tx, fate, events, built, begun, faults>>
  BY DEF FinishCommand
<1>2. CommandOf(command, tx[Cli], rows)
      /\ command \in Commands
  BY DEF IInv, Command, TypeOK
<1>3. Len(command.file) \in Nat
  <2>1. \A file \in Files : Len(file) \in Nat
    BY FileAssumption, LenProperties
  <2> QED BY <1>2, <2>1
<1>4. tx[Cli].pc = "idle"
  <2> SUFFICES ASSUME tx[Cli].pc # "idle" PROVE FALSE
    OBVIOUS
  <2>1. command.line \in 1..Len(command.file)
    BY NoLineOpen
  <2> QED BY <1>1, <1>3, <2>1
<1>5. /\ command'.st = "over" /\ command'.file = command.file /\ command'.wrote = command.wrote
      /\ command' \in Commands
  BY <1>1, <1>2 DEF Commands
<1>6. \A i \in 1..Len(command.file) : i < command.line
  BY <1>1, <1>2, <1>3 DEF Commands
<1>7. \A i \in 1..Len(command.file) : Stored(command.file[i], rows)
  BY <1>1, <1>2, <1>6 DEF CommandOf
<1>8. CommandOf(command', tx[Cli], rows)
  BY <1>1, <1>2, <1>4, <1>5, <1>7 DEF CommandOf
<1> QED BY <1>1, <1>5, <1>8, CommandStep

LEMMA RunAgainStep ==
  ASSUME IInv, RunAgain
  PROVE  IInv'
<1> DEFINE c == [st |-> "lines", file |-> command.file, line |-> 1, wrote |-> FALSE, audit |-> "started"]
<1>1. /\ tx[Cli].pc = "idle" /\ ~Fatal(command.file) /\ command' = c
      /\ UNCHANGED <<defs, rows, tx, fate, events, built, begun, faults>>
  BY DEF RunAgain, NoRun
<1>2. c \in Commands
  BY DEF IInv, TypeOK, Commands
<1>3. CommandOf(c, tx[Cli], rows)
  <2>1. c.file = command.file /\ c.line = 1 /\ c.audit # "succeeded" /\ c.st # "idle"
    OBVIOUS
  <2> HIDE DEF c
  <2>2. \A i \in 1..Len(c.file) : ~(i < c.line)
    BY <2>1
  <2> QED BY <1>1, <2>1, <2>2 DEF CommandOf
<1> QED BY <1>1, <1>2, <1>3, CommandStep

LEMMA KillCommandStep ==
  ASSUME IInv, KillCommand
  PROVE  IInv'
<1>1. /\ command.st = "lines" /\ faults' = faults + 1 /\ faults < MaxFaults /\ command' = [command EXCEPT !.st = "over"]
      /\ Goto(Cli, NoTx) /\ UNCHANGED <<defs, rows, fate, events, built, begun>>
  BY DEF KillCommand
<1>2. Cli \in Writers /\ TypeOK /\ Evidence
  BY DEF IInv, Writers, Imports
<1>3. Local(Cli, NoTx, defs, rows)
  BY <1>2, IdleLocal DEF TypeOK, Evidence
<1>4. \A v \in Others(Cli) : Apart(NoTx, tx[v])
  BY ApartFromNone
<1>5. /\ Evidence'
      /\ (tx \in [Writers -> Transactions] /\ \A v \in Writers : tx[v].cut \subseteq defs)'
      /\ tx'[Cli] = NoTx /\ \A v \in Others(Cli) : tx'[v] = tx[v]
  <2> DEFINE n == NoTx
  <2>1. TypeOK /\ Evidence /\ Goto(Cli, n) /\ UNCHANGED <<defs, rows>> /\ n \in Transactions
        /\ Local(Cli, n, defs, rows) /\ (\A v \in Others(Cli) : Apart(n, tx[v])) /\ Cli \in Writers
    BY <1>1, <1>2, <1>3, <1>4, NoTxType
  <2> HIDE DEF n
  <2>2. /\ Evidence'
        /\ (tx \in [Writers -> Transactions] /\ \A v \in Writers : tx[v].cut \subseteq defs)'
        /\ tx'[Cli] = n /\ \A v \in Others(Cli) : tx'[v] = tx[v]
    BY <2>1, EvidenceStep
  <2> QED BY <2>2 DEF n
<1>6. CommandOf(command, tx[Cli], rows)
      /\ command \in Commands
  BY DEF IInv, Command, TypeOK
<1>7. /\ command'.st = "over" /\ command'.file = command.file /\ command'.audit = command.audit /\ command'.wrote = command.wrote
      /\ command' \in Commands
  BY <1>1, <1>6 DEF Commands
<1>8. CommandOf(command', tx'[Cli], rows)
  BY <1>1, <1>5, <1>6, <1>7, NoTxType DEF CommandOf
<1>9. Command'
  BY <1>1, <1>8 DEF Command
<1>10. TypeOK'
  <2>1. faults' \in 0..MaxFaults
    BY <1>1, <1>2, BoundAssumption DEF TypeOK
  <2> QED BY <1>1, <1>2, <1>5, <1>7, <2>1 DEF TypeOK
<1>11. EventsSound'
  <2>1. EventsSound /\ begun \in Nat
    BY BoundAssumption DEF IInv, TypeOK
  <2>2. tx'[Cli].pc = "idle" /\ tx'[Cli].run = 0
    BY <1>5 DEF NoTx
  <2>3. \A v \in Writers : v # Cli => tx'[v] = tx[v]
    BY <1>5 DEF Others
  <2>4. \A v \in Writers : tx'[v].run <= begun
    <3> TAKE v \in Writers
    <3>1. CASE v = Cli
      BY <2>1, <2>2, <3>1
    <3>2. CASE v # Cli
      BY <2>1, <2>3, <3>2 DEF EventsSound
    <3> QED BY <3>1, <3>2
  <2>5. \A e \in events : Dated(e, begun, rows)
    BY <2>1 DEF EventsSound
  <2>6. \A v \in Writers : tx'[v].pc # "idle" => \A e \in events : e.id # <<"run", tx'[v].run>>
    BY <2>1, <2>2, <2>3 DEF EventsSound
  <2>7. \A u, v \in Writers : u # v /\ tx'[u].pc # "idle" /\ tx'[v].pc # "idle" => tx'[u].run # tx'[v].run
    BY <2>1, <2>2, <2>3 DEF EventsSound
  <2> QED BY <1>1, <2>4, <2>5, <2>6, <2>7 DEF EventsSound
<1>12. Owed'
  BY <1>1, OwedStays DEF IInv
<1> QED BY <1>1, <1>5, <1>9, <1>10, <1>11, <1>12 DEF IInv, SaversNeverCollide

---------------------------------------------------------------------------
LEMMA Initially == Init => IInv
<1> SUFFICES ASSUME Init PROVE IInv
  OBVIOUS
<1>1. /\ defs = {} /\ rows = [id \in Identities |-> <<>>] /\ tx = [w \in Writers |-> NoTx] /\ fate = [w \in Writers |-> "none"]
      /\ events = {} /\ built = [at \in Times |-> ImportHeads(at)] /\ command = NoRun /\ begun = 0 /\ faults = 0
  BY DEF Init
<1>2. rows \in [Identities -> Seq(Values)] /\ \A id \in Identities : NoRepeat(rows[id])
  <2>1. NoRepeat(<<>>) /\ <<>> \in Seq(Values)
    BY DEF NoRepeat
  <2> QED BY <1>1, <2>1
<1>3. tx \in [Writers -> Transactions] /\ \A w \in Writers : tx[w] = NoTx
  BY <1>1, NoTxType
<1>4. Tile(defs)
  BY <1>1 DEF Tile
<1>5. Evidence
  <2>1. \A w \in Writers : Local(w, NoTx, defs, rows)
    BY <1>2, <1>4, IdleLocal
  <2>2. Apart(NoTx, NoTx)
    BY ApartFromNone
  <2> QED BY <1>2, <1>3, <1>4, <2>1, <2>2 DEF Evidence
<1>6. /\ command.st = "idle" /\ command.file = <<>> /\ command.line = 1 /\ command.wrote = FALSE /\ command.audit = "none"
      /\ command \in Commands
  BY <1>1 DEF NoRun, Commands
<1>7. TypeOK
  <2>1. \A w \in Writers : tx[w].cut \subseteq defs
    BY <1>3, NoTxType
  <2> QED BY <1>1, <1>2, <1>3, <1>6, <2>1, BoundAssumption DEF TypeOK
<1>8. Command
  <2>1. tx[Cli].pc = "idle"
    BY <1>3, NoTxType DEF Writers, Imports
  <2>2. ~Fatal(command.file)
    BY <1>6 DEF Fatal
  <2> QED BY <1>6, <2>1, <2>2 DEF Command, CommandOf
<1>9. EventsSound
  <2>1. \A w \in Writers : tx[w].run = 0 /\ tx[w].pc = "idle"
    BY <1>3 DEF NoTx
  <2> QED BY <1>1, <2>1 DEF EventsSound
<1>10. Owed /\ DOMAIN built = Times /\ events \subseteq Rows
  BY <1>1 DEF Owed
<1>11. SaversNeverCollide
  BY <1>1 DEF SaversNeverCollide, Writers
<1> QED BY <1>5, <1>7, <1>8, <1>9, <1>10, <1>11 DEF IInv

LEMMA Inductive == IInv /\ [Next]_vars => IInv'
<1> SUFFICES ASSUME IInv, [Next]_vars PROVE IInv'
  OBVIOUS
<1>1. CASE UNCHANGED vars
  <2>1. UNCHANGED <<defs, rows, tx, fate, events, built, command, begun, faults>>
    BY <1>1 DEF vars
  <2>2. CommandOf(command', tx[Cli], rows)
    BY <2>1 DEF IInv, Command
  <2>3. command' \in Commands
    BY <2>1 DEF IInv, TypeOK
  <2> QED BY <2>1, <2>2, <2>3, CommandStep
<1>2. ASSUME NEW w \in Savers, BeginSave(w) PROVE IInv'
  BY <1>2, BeginSaveStep
<1>3. ASSUME NEW w \in Collectors, BeginImport(w) PROVE IInv'
  BY <1>3, BeginImportStep
<1>4. CASE BeginLine
  BY <1>4, BeginLineStep
<1>5. ASSUME NEW w \in Writers, Define(w) \/ Create(w) \/ Read(w) \/ Write(w) \/ Commit(w) \/ Deadlock(w) \/ Lose(w)
      PROVE  IInv'
  BY <1>5, DefineStep, CreateStep, ReadStep, WriteStep, CommitStep, DeadlockStep, LoseStep
<1>6. ASSUME NEW e \in events, Rebuild(e) PROVE IInv'
  BY <1>6, RebuildStep
<1>7. ASSUME NEW file \in Files, StartCommand(file) PROVE IInv'
  BY <1>7, StartCommandStep
<1>8. CASE SkipLine \/ FinishCommand \/ RunAgain \/ KillCommand
  BY <1>8, SkipLineStep, FinishCommandStep, RunAgainStep, KillCommandStep
<1> QED BY <1>1, <1>2, <1>3, <1>4, <1>5, <1>6, <1>7, <1>8 DEF Next

\* The inductive invariant holds in every reachable state, for any number of writers
\* and whatever they observe.
THEOREM Invariance == Spec => []IInv
<1> QED BY Initially, Inductive, PTL DEF Spec

\* Every variable keeps its type, and a definition is closed only if it is there
\* (sync.repository.ts and platform-collection.ts, over the tables of schema.prisma).
THEOREM Typed == Spec => []TypeOK
<1>1. IInv => TypeOK
  BY DEF IInv
<1> QED BY <1>1, Invariance, PTL

\* Two sync jobs saving the same metrics never meet in a unique index, in the interval
\* constraint or in a deadlock: each waits under the advisory lock of a key
\* (sync.repository.ts:91), and all come to the keys in the same order.
THEOREM SaversApart == Spec => []SaversNeverCollide
<1>1. IInv => SaversNeverCollide
  BY DEF IInv
<1> QED BY <1>1, Invariance, PTL

\* Whichever writers interleave, no revision repeats the value of the one it
\* supersedes: what was read at the look-up is checked at the write again.
THEOREM RevisionsChange == Spec => []NoIdleRevision
<1>1. IInv => NoIdleRevision
  BY DEF IInv, Evidence, NoRepeat, NoIdleRevision
<1> QED BY <1>1, Invariance, PTL

\* The definitions of one metric are disjoint and leave no gap, although each
\* transaction sees only what was committed and what it did itself.
THEOREM DefinitionsAreTiled == Spec => []DefinitionsTile
<1>1. IInv => DefinitionsTile
  BY DEF IInv, Evidence, Tile, DefinitionsTile
<1> QED BY <1>1, Invariance, PTL

\* Once the outbox is empty, the reports of every date were built from what the imports
\* last committed: an import that changed something always adds an event of its own.
THEOREM ImportsAreRebuilt == Spec => []ImportsCaughtUp
<1>1. IInv => ImportsCaughtUp
  BY DEF IInv, Owed, ImportsCaughtUp
<1> QED BY <1>1, Invariance, PTL

\* A run of the import command that is recorded as succeeded has stored every valid line,
\* whatever else wrote meanwhile, and a file over the limits stored nothing.
THEOREM FilesAreWhole == Spec => []FileIsWhole
<1>1. IInv => FileIsWhole
  <2> SUFFICES ASSUME IInv PROVE FileIsWhole
    OBVIOUS
  <2>1. CommandOf(command, tx[Cli], rows)
    BY DEF IInv, Command
  <2>2. ASSUME command.audit = "succeeded", NEW i \in DOMAIN command.file, command.file[i].kind = "valid", NEW k \in AllKeys
        PROVE  Contains(ImportHeads(command.file[i].at)[k][PlatformOf[Cli]], command.file[i].val)
    <3>1. DOMAIN command.file = 1..Len(command.file)
      <4>1. command.file \in Files \cup {<<>>}
        BY DEF IInv, TypeOK, Commands
      <4>2. \A file \in Files : DOMAIN file = 1..Len(file)
        BY FileAssumption, LenProperties
      <4>3. DOMAIN <<>> = 1..Len(<<>>)
        OBVIOUS
      <4> QED BY <4>1, <4>2, <4>3
    <3>2. Contains(rows[CliId(k, command.file[i].at)], command.file[i].val)
      BY <2>1, <2>2, <3>1 DEF CommandOf, Stored
    <3>3. PlatformOf[Cli] \in {PlatformOf[w] : w \in Imports}
      BY DEF Imports
    <3>4. ImportHeads(command.file[i].at)[k][PlatformOf[Cli]] = rows[CliId(k, command.file[i].at)]
      BY <2>2, <3>3 DEF ImportHeads, CliId
    <3> QED BY <3>2, <3>4
  <2>3. Fatal(command.file) => ~command.wrote
    BY <2>1 DEF CommandOf
  <2> QED BY <2>2, <2>3 DEF FileIsWhole
<1> QED BY <1>1, Invariance, PTL
---------------------------------------------------------------------------
(* MetricSeries: sums.  The library's facts about folds take operators, so  *)
(* what is needed of them is proved here, for functions.                    *)

\* MapThenSumSet of a function.
Sum(F, T) == MapThenSumSet(LAMBDA x : F[x], T)

AnyOf(s) == CHOOSE x \in s : TRUE

\* g is what MapThenSumSet iterates: g[s] is the sum of F over s, one element after the other.
Sums(g, F, T) == g = [s \in SUBSET T |-> IF s = {} THEN 0 ELSE F[AnyOf(s)] + g[s \ {AnyOf(s)}]]

\* A set of subsets of a finite set has a smallest member: one that contains no other.
LEMMA Smallest ==
  ASSUME NEW S, IsFiniteSet(S), NEW C, C \subseteq SUBSET S, C # {}
  PROVE  \E m \in C : \A n \in C : n \subseteq m => n = m
<1>1. C \subseteq FiniteSubsetsOf(S)
  BY FS_Subset DEF FiniteSubsetsOf
<1>2. PICK m \in C : \A n \in C : ~(<<n, m>> \in StrictSubsetOrdering(S))
  BY <1>1, WFMin, FS_StrictSubsetOrderingWellFounded
<1>3. \A n \in C : n \subseteq m => n = m
  BY <1>2 DEF StrictSubsetOrdering
<1> QED BY <1>3

LEMMA AnyIsIn ==
  ASSUME NEW s, s # {}
  PROVE  AnyOf(s) \in s
BY DEF AnyOf

\* Two iterations agree on the sets they share.
LEMMA SumsAgree ==
  ASSUME NEW T, NEW U, NEW F, NEW g, NEW h, IsFiniteSet(T), Sums(g, F, T), Sums(h, F, U)
  PROVE  \A s \in SUBSET (T \cap U) : g[s] = h[s]
<1> DEFINE C == {s \in SUBSET (T \cap U) : g[s] # h[s]}
<1>1. SUFFICES ASSUME C # {} PROVE FALSE
  OBVIOUS
<1>2. C \subseteq SUBSET T
  OBVIOUS
<1>3. PICK m \in C : \A n \in C : n \subseteq m => n = m
  <2> HIDE DEF C
  <2> QED BY <1>1, <1>2, Smallest
<1>4. m # {}
  <2>1. {} \in SUBSET T /\ {} \in SUBSET U
    OBVIOUS
  <2>2. g[{}] = 0 /\ h[{}] = 0
    BY <2>1 DEF Sums
  <2> QED BY <2>2
<1> DEFINE a == AnyOf(m)
           r == m \ {a}
<1>5. a \in m
  BY <1>4, AnyIsIn
<1>6. r \subseteq m /\ r # m
  BY <1>5
<1>7. g[r] = h[r]
  BY <1>3, <1>6
<1>8. g[m] = F[a] + g[r] /\ h[m] = F[a] + h[r]
  BY <1>4 DEF Sums
<1> QED BY <1>7, <1>8, <1>3

LEMMA SumsExist ==
  ASSUME NEW T, IsFiniteSet(T), NEW F
  PROVE  \E g : Sums(g, F, T)
<1> DEFINE C == {U \in SUBSET T : ~\E g : Sums(g, F, U)}
<1>1. SUFFICES ASSUME C # {} PROVE FALSE
  BY DEF C
<1>2. C \subseteq SUBSET T
  OBVIOUS
<1>3. PICK m \in C : \A n \in C : n \subseteq m => n = m
  <2> HIDE DEF C
  <2> QED BY <1>1, <1>2, Smallest
<1> DEFINE G(U) == CHOOSE g : Sums(g, F, U)
<1>4. \A U \in SUBSET m : U # m => IsFiniteSet(U) /\ Sums(G(U), F, U)
  <2> SUFFICES ASSUME NEW U \in SUBSET m, U # m PROVE IsFiniteSet(U) /\ Sums(G(U), F, U)
    OBVIOUS
  <2>1. U \in SUBSET T /\ U \notin C
    BY <1>3
  <2>2. \E g : Sums(g, F, U)
    BY <2>1
  <2> QED BY <2>1, <2>2, FS_Subset
<1> DEFINE Rest(s) == s \ {AnyOf(s)}
           h == [s \in SUBSET m |-> IF s = {} THEN 0 ELSE F[AnyOf(s)] + G(Rest(s))[Rest(s)]]
<1>5. \A s \in SUBSET m : s # {} => AnyOf(s) \in s /\ Rest(s) \in SUBSET m /\ Rest(s) # m
  BY AnyIsIn
<1> HIDE DEF G
<1>6. \A r \in SUBSET m : r # m => h[r] = G(r)[r]
  <2> SUFFICES ASSUME NEW r \in SUBSET m, r # m PROVE h[r] = G(r)[r]
    OBVIOUS
  <2>1. Sums(G(r), F, r) /\ IsFiniteSet(r)
    BY <1>4
  <2>2. G(r)[r] = IF r = {} THEN 0 ELSE F[AnyOf(r)] + G(r)[Rest(r)]
    BY <2>1 DEF Sums
  <2>3. CASE r = {}
    BY <2>2, <2>3
  <2>4. CASE r # {}
    <3>1. Rest(r) \in SUBSET m /\ Rest(r) # m /\ Rest(r) \subseteq r
      BY <1>5, <2>4
    <3>2. Sums(G(Rest(r)), F, Rest(r))
      BY <1>4, <3>1
    <3>3. Rest(r) \in SUBSET (r \cap Rest(r))
      BY <3>1
    <3>4. G(r)[Rest(r)] = G(Rest(r))[Rest(r)]
      <4> HIDE DEF Rest
      <4> QED BY <2>1, <3>2, <3>3, SumsAgree
    <3>5. h[r] = F[AnyOf(r)] + G(Rest(r))[Rest(r)]
      BY <2>4
    <3> QED BY <2>2, <2>4, <3>4, <3>5
  <2> QED BY <2>3, <2>4
<1>7. h = [s \in SUBSET m |-> IF s = {} THEN 0 ELSE F[AnyOf(s)] + h[Rest(s)]]
  <2>1. \A s \in SUBSET m : s # {} => h[Rest(s)] = G(Rest(s))[Rest(s)]
    <3> HIDE DEF h, Rest
    <3> QED BY <1>5, <1>6
  <2> QED BY <2>1
<1>8. Sums(h, F, m)
  BY <1>7 DEF Sums
<1> QED BY <1>3, <1>8

LEMMA SumIs ==
  ASSUME NEW T, IsFiniteSet(T), NEW F, NEW g, Sums(g, F, T)
  PROVE  Sum(F, T) = g[T]
<1> DEFINE h == CHOOSE h : h = [s \in SUBSET T |-> IF s = {} THEN 0 ELSE F[CHOOSE x \in s : TRUE] + h[s \ {CHOOSE x \in s : TRUE}]]
<1>1. Sum(F, T) = h[T]
  BY DEF Sum, MapThenSumSet, MapThenFoldSet
<1>2. h = [s \in SUBSET T |-> IF s = {} THEN 0 ELSE F[CHOOSE x \in s : TRUE] + h[s \ {CHOOSE x \in s : TRUE}]]
  BY DEF Sums, AnyOf
<1>3. Sums(h, F, T)
  <2> HIDE DEF h
  <2> QED BY <1>2 DEF Sums, AnyOf
<1>4. T \in SUBSET (T \cap T)
  OBVIOUS
<1>5. h[T] = g[T]
  <2> HIDE DEF h
  <2> QED BY <1>3, <1>4, SumsAgree
<1> QED BY <1>1, <1>5

LEMMA SumOfNone ==
  ASSUME NEW F
  PROVE  Sum(F, {}) = 0
<1>1. IsFiniteSet({})
  BY FS_EmptySet
<1>2. PICK g : Sums(g, F, {})
  BY <1>1, SumsExist
<1>3. g[{}] = 0
  BY <1>2 DEF Sums
<1> QED BY <1>1, <1>2, <1>3, SumIs

LEMMA SumStep ==
  ASSUME NEW T, IsFiniteSet(T), T # {}, NEW F
  PROVE  Sum(F, T) = F[AnyOf(T)] + Sum(F, T \ {AnyOf(T)})
<1> DEFINE R == T \ {AnyOf(T)}
<1>1. IsFiniteSet(R) /\ R \in SUBSET (T \cap R) /\ R \in SUBSET T
  BY FS_Subset
<1>2. PICK g : Sums(g, F, T)
  BY SumsExist
<1>3. PICK h : Sums(h, F, R)
  BY <1>1, SumsExist
<1>4. g[T] = F[AnyOf(T)] + g[R]
  BY <1>2 DEF Sums
<1>5. Sum(F, T) = g[T] /\ Sum(F, R) = h[R]
  BY <1>1, <1>2, <1>3, SumIs
<1>6. g[R] = h[R]
  <2> HIDE DEF R
  <2> QED BY <1>1, <1>2, <1>3, SumsAgree
<1> QED BY <1>4, <1>5, <1>6

LEMMA SumIsInt ==
  ASSUME NEW T, IsFiniteSet(T), NEW F, \A x \in T : F[x] \in Int
  PROVE  Sum(F, T) \in Int
<1> DEFINE C == {U \in SUBSET T : Sum(F, U) \notin Int}
<1>1. SUFFICES ASSUME C # {} PROVE FALSE
  OBVIOUS
<1>2. C \subseteq SUBSET T
  OBVIOUS
<1>3. PICK m \in C : \A n \in C : n \subseteq m => n = m
  <2> HIDE DEF C
  <2> QED BY <1>1, <1>2, Smallest
<1>4. m # {}
  BY SumOfNone
<1>5. IsFiniteSet(m) /\ AnyOf(m) \in m
  BY <1>4, FS_Subset, AnyIsIn
<1>6. Sum(F, m \ {AnyOf(m)}) \in Int
  BY <1>3, <1>5
<1>7. Sum(F, m) = F[AnyOf(m)] + Sum(F, m \ {AnyOf(m)})
  BY <1>4, <1>5, SumStep
<1> QED BY <1>3, <1>5, <1>6, <1>7

\* The order of the summands does not matter: any of them can be taken out.
LEMMA SumWithout ==
  ASSUME NEW T, IsFiniteSet(T), NEW F, \A x \in T : F[x] \in Int, NEW x \in T
  PROVE  Sum(F, T) = F[x] + Sum(F, T \ {x})
<1> DEFINE C == {U \in SUBSET T : \E y \in U : Sum(F, U) # F[y] + Sum(F, U \ {y})}
<1>1. SUFFICES ASSUME C # {} PROVE FALSE
  OBVIOUS
<1>2. C \subseteq SUBSET T
  OBVIOUS
<1>3. PICK m \in C : \A n \in C : n \subseteq m => n = m
  <2> HIDE DEF C
  <2> QED BY <1>1, <1>2, Smallest
<1>4. PICK y \in m : Sum(F, m) # F[y] + Sum(F, m \ {y})
  OBVIOUS
<1> DEFINE a == AnyOf(m)
<1>5. a \in m /\ IsFiniteSet(m)
  BY AnyIsIn, FS_Subset
<1>6. Sum(F, m) = F[a] + Sum(F, m \ {a})
  BY <1>5, SumStep
<1>7. y # a
  BY <1>4, <1>6
<1>8. m \ {a} \notin C /\ m \ {y} \notin C
  BY <1>3, <1>5
<1>9. Sum(F, m \ {a}) = F[y] + Sum(F, (m \ {a}) \ {y})
  BY <1>7, <1>8
<1>10. Sum(F, m \ {y}) = F[a] + Sum(F, (m \ {y}) \ {a})
  BY <1>5, <1>7, <1>8
<1>11. (m \ {a}) \ {y} = (m \ {y}) \ {a} /\ IsFiniteSet((m \ {y}) \ {a})
  BY <1>5, FS_Subset
<1>12. Sum(F, (m \ {y}) \ {a}) \in Int
  BY <1>11, SumIsInt
<1>13. F[a] \in Int /\ F[y] \in Int
  BY <1>5
<1>14. PICK r \in Int : r = Sum(F, (m \ {y}) \ {a})
  BY <1>12
<1>15. Sum(F, m \ {a}) = F[y] + r /\ Sum(F, m \ {y}) = F[a] + r
  BY <1>9, <1>10, <1>11, <1>14
<1> HIDE DEF a, C
<1>16. F[a] + (F[y] + r) = F[y] + (F[a] + r)
  BY <1>13
<1> QED BY <1>4, <1>6, <1>15, <1>16

\* Functions with the same values on a set have the same sum.
LEMMA SumSame ==
  ASSUME NEW T, IsFiniteSet(T), NEW F, NEW H, \A x \in T : F[x] = H[x]
  PROVE  Sum(F, T) = Sum(H, T)
<1>1. PICK g : Sums(g, F, T)
  BY SumsExist
<1>2. \A s \in SUBSET T : s # {} => F[AnyOf(s)] = H[AnyOf(s)]
  BY AnyIsIn
<1>3. Sums(g, H, T)
  BY <1>1, <1>2 DEF Sums
<1> QED BY <1>1, <1>3, SumIs

LEMMA SumOfOne ==
  ASSUME NEW F, NEW x, F[x] \in Int
  PROVE  Sum(F, {x}) = F[x]
<1>1. IsFiniteSet({x}) /\ {x} \ {x} = {}
  BY FS_Singleton
<1>2. Sum(F, {x}) = F[x] + Sum(F, {x} \ {x})
  BY <1>1, SumWithout
<1> QED BY <1>1, <1>2, SumOfNone

LEMMA SumOfZeros ==
  ASSUME NEW T, IsFiniteSet(T), NEW F, \A x \in T : F[x] = 0
  PROVE  Sum(F, T) = 0
<1> DEFINE C == {U \in SUBSET T : Sum(F, U) # 0}
<1>1. SUFFICES ASSUME C # {} PROVE FALSE
  OBVIOUS
<1>2. C \subseteq SUBSET T
  OBVIOUS
<1>3. PICK m \in C : \A n \in C : n \subseteq m => n = m
  <2> HIDE DEF C
  <2> QED BY <1>1, <1>2, Smallest
<1>4. PICK x \in m : TRUE
  BY <1>3, SumOfNone
<1>5. m \ {x} \notin C /\ m \ {x} \subseteq T /\ m \subseteq T
  BY <1>3, <1>4
<1>6. IsFiniteSet(m) /\ \A y \in m : F[y] \in Int
  BY <1>5, FS_Subset
<1>7. Sum(F, m) = F[x] + Sum(F, m \ {x})
  BY <1>6, SumWithout
<1> QED BY <1>3, <1>5, <1>7

---------------------------------------------------------------------------
(* The sums of the model, as sums of functions.                             *)

GainAt(T, t) == IF Before(T, t) = {} THEN 0 ELSE Gain(captured[Max(Before(T, t))], captured[t])

LEMMA GainsIsSum ==
  ASSUME NEW T, IsFiniteSet(T)
  PROVE  Gains(T) = Sum([t \in T |-> GainAt(T, t)], T)
<1> DEFINE F == [t \in T |-> GainAt(T, t)]
           a(s) == CHOOSE x \in s : TRUE
           h == CHOOSE h : h = [s \in SUBSET T |-> IF s = {} THEN 0 ELSE GainAt(T, a(s)) + h[s \ {a(s)}]]
<1>1. Gains(T) = h[T]
  BY DEF Gains, MapThenSumSet, MapThenFoldSet, GainAt
<1>2. PICK g : Sums(g, F, T)
  BY SumsExist
<1>3. \A s \in SUBSET T : s # {} => AnyOf(s) \in T
  BY AnyIsIn
<1>4. g = [s \in SUBSET T |-> IF s = {} THEN 0 ELSE GainAt(T, a(s)) + g[s \ {a(s)}]]
  BY <1>2, <1>3 DEF Sums, AnyOf
<1>5. h = [s \in SUBSET T |-> IF s = {} THEN 0 ELSE GainAt(T, a(s)) + h[s \ {a(s)}]]
  BY <1>4
<1>6. Sums(h, F, T)
  <2> HIDE DEF h
  <2> QED BY <1>3, <1>5 DEF Sums, AnyOf
<1>7. Sum(F, T) = h[T]
  <2> HIDE DEF h, F
  <2> QED BY <1>6, SumIs
<1> QED BY <1>1, <1>7

LEMMA DailyIsSum ==
  ASSUME NEW T, IsFiniteSet(T)
  PROVE  MapThenSumSet(Daily, T) = Sum([d \in T |-> Daily(d)], T)
<1> DEFINE F == [d \in T |-> Daily(d)]
           a(s) == CHOOSE x \in s : TRUE
           h == CHOOSE h : h = [s \in SUBSET T |-> IF s = {} THEN 0 ELSE Daily(a(s)) + h[s \ {a(s)}]]
<1>1. MapThenSumSet(Daily, T) = h[T]
  BY DEF MapThenSumSet, MapThenFoldSet
<1>2. PICK g : Sums(g, F, T)
  BY SumsExist
<1>3. \A s \in SUBSET T : s # {} => AnyOf(s) \in T
  BY AnyIsIn
<1>4. g = [s \in SUBSET T |-> IF s = {} THEN 0 ELSE Daily(a(s)) + g[s \ {a(s)}]]
  BY <1>2, <1>3 DEF Sums, AnyOf
<1>5. h = [s \in SUBSET T |-> IF s = {} THEN 0 ELSE Daily(a(s)) + h[s \ {a(s)}]]
  BY <1>4
<1>6. Sums(h, F, T)
  <2> HIDE DEF h
  <2> QED BY <1>3, <1>5 DEF Sums, AnyOf
<1>7. Sum(F, T) = h[T]
  <2> HIDE DEF h, F
  <2> QED BY <1>6, SumIs
<1> QED BY <1>1, <1>7

LEMMA ReportIsSum ==
  ASSUME NEW T, IsFiniteSet(T)
  PROVE  MapThenSumSet(LAMBDA seg : Report[seg], T) = Sum([seg \in T |-> Report[seg]], T)
<1> DEFINE F == [seg \in T |-> Report[seg]]
           a(s) == CHOOSE x \in s : TRUE
           h == CHOOSE h : h = [s \in SUBSET T |-> IF s = {} THEN 0 ELSE Report[a(s)] + h[s \ {a(s)}]]
<1>1. MapThenSumSet(LAMBDA seg : Report[seg], T) = h[T]
  BY DEF MapThenSumSet, MapThenFoldSet
<1>2. PICK g : Sums(g, F, T)
  BY SumsExist
<1>3. \A s \in SUBSET T : s # {} => AnyOf(s) \in T
  BY AnyIsIn
<1>4. g = [s \in SUBSET T |-> IF s = {} THEN 0 ELSE Report[a(s)] + g[s \ {a(s)}]]
  BY <1>2, <1>3 DEF Sums, AnyOf
<1>5. h = [s \in SUBSET T |-> IF s = {} THEN 0 ELSE Report[a(s)] + h[s \ {a(s)}]]
  BY <1>4
<1>6. Sums(h, F, T)
  <2> HIDE DEF h
  <2> QED BY <1>3, <1>5 DEF Sums, AnyOf
<1>7. Sum(F, T) = h[T]
  <2> HIDE DEF h, F
  <2> QED BY <1>6, SumIs
<1> QED BY <1>1, <1>7

LEMMA DeltasIsSum ==
  ASSUME NEW T, IsFiniteSet(T), NEW start, NEW cutoff
  PROVE  MapThenSumSet(LAMBDA seg : SegmentDelta(seg, start, cutoff), T)
         = Sum([seg \in T |-> SegmentDelta(seg, start, cutoff)], T)
<1> DEFINE F == [seg \in T |-> SegmentDelta(seg, start, cutoff)]
           a(s) == CHOOSE x \in s : TRUE
           h == CHOOSE h : h = [s \in SUBSET T |-> IF s = {} THEN 0 ELSE SegmentDelta(a(s), start, cutoff) + h[s \ {a(s)}]]
<1>1. MapThenSumSet(LAMBDA seg : SegmentDelta(seg, start, cutoff), T) = h[T]
  BY DEF MapThenSumSet, MapThenFoldSet
<1>2. PICK g : Sums(g, F, T)
  BY SumsExist
<1>3. \A s \in SUBSET T : s # {} => AnyOf(s) \in T
  BY AnyIsIn
<1>4. g = [s \in SUBSET T |-> IF s = {} THEN 0 ELSE SegmentDelta(a(s), start, cutoff) + g[s \ {a(s)}]]
  BY <1>2, <1>3 DEF Sums, AnyOf
<1>5. h = [s \in SUBSET T |-> IF s = {} THEN 0 ELSE SegmentDelta(a(s), start, cutoff) + h[s \ {a(s)}]]
  BY <1>4
<1>6. Sums(h, F, T)
  <2> HIDE DEF h
  <2> QED BY <1>3, <1>5 DEF Sums, AnyOf
<1>7. Sum(F, T) = h[T]
  <2> HIDE DEF h, F
  <2> QED BY <1>6, SumIs
<1> QED BY <1>1, <1>7

---------------------------------------------------------------------------
(* The period.                                                              *)

LEMMA DayAfterDay ==
  ASSUME NEW d \in Nat
  PROVE  /\ FirstOf(d) \in Nat /\ LastOf(d) \in Nat
         /\ FirstOf(d + 1) = FirstOf(d) + PerDay /\ LastOf(d) = FirstOf(d) + PerDay - 1
         /\ FirstOf(d) <= LastOf(d)
<1>1. PerDay \in Nat /\ PerDay > 0
  BY PeriodAssumption
<1>2. d * PerDay \in Nat
  BY <1>1
<1>3. (d + 1) * PerDay = d * PerDay + PerDay
  BY <1>1
<1> QED BY <1>1, <1>2, <1>3 DEF FirstOf, LastOf

LEMMA DaysInOrder ==
  ASSUME NEW d \in Nat, NEW e \in Nat, d <= e
  PROVE  FirstOf(d) <= FirstOf(e) /\ LastOf(d) <= LastOf(e)
<1>1. PerDay \in Nat /\ PerDay > 0
  BY PeriodAssumption
<1>2. PICK n \in Nat : e = d + n
  <2>1. e - d \in Nat /\ e = d + (e - d)
    OBVIOUS
  <2> QED BY <2>1
<1>3. n * PerDay \in Nat /\ d * PerDay \in Nat
  BY <1>1
<1>4. (d + n) * PerDay = d * PerDay + n * PerDay
  BY <1>1
<1>5. FirstOf(d) <= FirstOf(e)
  BY <1>2, <1>3, <1>4 DEF FirstOf
<1> QED BY <1>1, <1>5, DayAfterDay

LEMMA Period ==
  /\ Start \in Nat /\ End \in Nat /\ Start <= End /\ Never \in Nat /\ Never = End + 1
  /\ Start = FirstOf(1) /\ End = LastOf(DayCount)
  /\ Instants \subseteq Nat /\ IsFiniteSet(Instants) /\ \A t \in Instants : t <= End
<1>1. DayCount \in Nat /\ DayCount >= 1 /\ Earlier \in Nat /\ Earlier <= PerDay /\ PerDay \in Nat /\ 1 \in Nat
  BY PeriodAssumption
<1>2. Start \in Nat /\ End \in Nat /\ Start <= End
  BY <1>1, DayAfterDay, DaysInOrder DEF Start, End
<1>3. Start = PerDay
  BY <1>1 DEF Start, FirstOf
<1>4. Start - Earlier \in Nat
  BY <1>1, <1>2, <1>3
<1>5. IsFiniteSet(Start - Earlier..End)
  BY <1>2, <1>4, FS_Interval
<1> QED BY <1>2, <1>4, <1>5 DEF Never, Instants, Start, End

\* A finite set of numbers has a greatest one.
LEMMA GreatestIsIn ==
  ASSUME NEW T, IsFiniteSet(T), \A t \in T : t \in Nat, T # {}
  PROVE  Max(T) \in T /\ \A t \in T : t <= Max(T)
<1> DEFINE From(t) == {u \in T : t <= u}
           C == {From(t) : t \in T}
<1>1. C \subseteq SUBSET T /\ C # {}
  OBVIOUS
<1>2. PICK m \in C : \A n \in C : n \subseteq m => n = m
  <2> HIDE DEF C
  <2> QED BY <1>1, Smallest
<1>3. PICK x \in T : m = From(x)
  OBVIOUS
<1>4. \A y \in T : x >= y
  <2> SUFFICES ASSUME NEW y \in T, x < y PROVE FALSE
    OBVIOUS
  <2>1. From(y) \in C
    OBVIOUS
  <2>2. From(y) \subseteq From(x)
    <3> SUFFICES ASSUME NEW u \in From(y) PROVE u \in From(x)
      OBVIOUS
    <3>1. u \in Nat /\ x \in Nat /\ y \in Nat
      OBVIOUS
    <3> QED BY <3>1
  <2>3. From(y) = From(x)
    BY <1>2, <1>3, <2>1, <2>2
  <2>4. x \in From(x) /\ x \notin From(y)
    OBVIOUS
  <2> QED BY <2>3, <2>4
<1>5. Max(T) \in T /\ \A y \in T : Max(T) >= y
  BY <1>4 DEF Max
<1> QED BY <1>5

\* A set of instants has a last and a first one.
LEMMA LastIsIn ==
  ASSUME NEW T, T \subseteq Instants, T # {}
  PROVE  Max(T) \in T /\ \A t \in T : t <= Max(T)
<1>1. IsFiniteSet(T) /\ \A t \in T : t \in Nat
  BY Period, FS_Subset
<1> QED BY <1>1, GreatestIsIn

LEMMA FirstIsIn ==
  ASSUME NEW T, T \subseteq Instants, T # {}
  PROVE  Min(T) \in T /\ \A t \in T : Min(T) <= t
<1> DEFINE Below(t) == {u \in T : u <= t}
           C == {Below(t) : t \in T}
<1>1. \A t \in T : t \in Nat
  BY Period
<1>2. IsFiniteSet(T)
  BY Period, FS_Subset
<1>3. C \subseteq SUBSET T /\ C # {}
  OBVIOUS
<1>4. PICK m \in C : \A n \in C : n \subseteq m => n = m
  <2> HIDE DEF C
  <2> QED BY <1>2, <1>3, Smallest
<1>5. PICK x \in T : m = Below(x)
  OBVIOUS
<1>6. \A y \in T : x =< y
  <2> SUFFICES ASSUME NEW y \in T, y < x PROVE FALSE
    BY <1>1
  <2>1. Below(y) \in C
    OBVIOUS
  <2>2. Below(y) \subseteq Below(x)
    <3> SUFFICES ASSUME NEW u \in Below(y) PROVE u \in Below(x)
      OBVIOUS
    <3>1. u \in Nat /\ x \in Nat /\ y \in Nat
      BY <1>1
    <3> QED BY <3>1
  <2>3. Below(y) = Below(x)
    BY <1>4, <1>5, <2>1, <2>2
  <2>4. x \in Below(x) /\ x \notin Below(y)
    BY <1>1
  <2> QED BY <2>3, <2>4
<1>7. Min(T) \in T /\ \A y \in T : Min(T) =< y
  BY <1>6 DEF Min
<1> QED BY <1>1, <1>7

\* An instant that is in a set, and at or after all of it, is its last; at or before, its first.
LEMMA LastIs ==
  ASSUME NEW T, T \subseteq Instants, NEW x \in T
  PROVE  ((\A t \in T : t <= x) => Max(T) = x) /\ ((\A t \in T : x <= t) => Min(T) = x)
<1>1. \A t \in T : t \in Nat
  BY Period
<1>2. Max(T) \in T /\ Min(T) \in T /\ \A t \in T : t <= Max(T) /\ Min(T) <= t
  BY LastIsIn, FirstIsIn
<1> QED BY <1>1, <1>2

---------------------------------------------------------------------------
LEMMA MSTyped == MSSpec => []MSTypeOK
<1>1. MSInit => MSTypeOK
  BY DEF MSInit, MSTypeOK
<1>2. MSTypeOK /\ [MSNext]_msVars => MSTypeOK'
  <2> SUFFICES ASSUME MSTypeOK, [MSNext]_msVars PROVE MSTypeOK'
    OBVIOUS
  <2>1. CASE MSNext
    <3>1. PICK t \in Instants, v \in {NotProvided} \cup 0..MaxValue : Observe(t, v)
      BY <2>1 DEF MSNext, Observable
    <3>2. captured' \in [Instants -> {Absent, NotProvided} \cup 0..MaxValue]
      BY <3>1 DEF MSTypeOK, Observe
    <3>3. \A u \in Instants : captured'[u] # Absent => u >= opens' /\ u >= published'
      BY <3>1 DEF MSTypeOK, Observe, chosen
    <3>4. /\ opens' \in Instants /\ cut' \in opens' + 1..Never /\ published' \in Instants
          /\ imported' \in BOOLEAN
      BY <3>1 DEF MSTypeOK, Observe, chosen
    <3> QED BY <3>2, <3>3, <3>4 DEF MSTypeOK
  <2>2. CASE UNCHANGED msVars
    BY <2>2 DEF MSTypeOK, msVars, chosen
  <2> QED BY <2>1, <2>2
<1> QED BY <1>1, <1>2, PTL DEF MSSpec

---------------------------------------------------------------------------
(* Growth.                                                                  *)

LEMMA CountsAreInt ==
  ASSUME MSTypeOK, NEW t \in Instants
  PROVE  captured[t] \in Int
BY PeriodAssumption DEF MSTypeOK, Absent, NotProvided

LEMMA GainAtIsInt ==
  ASSUME MSTypeOK, NEW T, T \subseteq Instants, NEW t \in T
  PROVE  GainAt(T, t) \in Int
<1>1. Before(T, t) \subseteq Instants
  BY DEF Before
<1>2. CASE Before(T, t) # {}
  <2>1. Max(Before(T, t)) \in Instants
    BY <1>1, <1>2, LastIsIn
  <2>2. captured[Max(Before(T, t))] \in Int /\ captured[t] \in Int
    BY <2>1, CountsAreInt
  <2> QED BY <2>2 DEF GainAt, Gain
<1> QED BY <1>2 DEF GainAt

LEMMA GainsIsInt ==
  ASSUME MSTypeOK, NEW T, T \subseteq Instants
  PROVE  Gains(T) \in Int
<1> DEFINE F == [t \in T |-> GainAt(T, t)]
<1>1. IsFiniteSet(T)
  BY Period, FS_Subset
<1>2. \A t \in T : F[t] \in Int
  BY GainAtIsInt
<1>3. Sum(F, T) \in Int
  <2> HIDE DEF F
  <2> QED BY <1>1, <1>2, SumIsInt
<1> QED BY <1>1, <1>3, GainsIsSum

\* A count after all others adds its gain over the last of them.
LEMMA GainsStep ==
  ASSUME MSTypeOK, NEW T, T \subseteq Instants, T # {}, NEW m \in Instants, \A t \in T : t < m
  PROVE  Gains(T \cup {m}) = Gains(T) + Gain(captured[Max(T)], captured[m])
<1> DEFINE U == T \cup {m}
           F == [t \in U |-> GainAt(U, t)]
           H == [t \in T |-> GainAt(T, t)]
<1>1. \A t \in U : t \in Nat
  BY Period
<1>2. m \notin T /\ U \ {m} = T
  BY <1>1
<1>3. Before(U, m) = T
  BY <1>1 DEF Before
<1>4. \A t \in T : Before(U, t) = Before(T, t)
  BY <1>1 DEF Before
<1>5. F[m] = Gain(captured[Max(T)], captured[m])
  BY <1>3 DEF GainAt
<1>6. \A t \in T : F[t] = H[t]
  BY <1>4 DEF GainAt
<1>7. IsFiniteSet(T) /\ IsFiniteSet(U)
  BY Period, FS_Subset
<1>8. \A t \in U : F[t] \in Int
  BY GainAtIsInt
<1>9. Gains(U) = Sum(F, U) /\ Gains(T) = Sum(H, T)
  BY <1>7, GainsIsSum
<1>10. Gains(T) \in Int /\ F[m] \in Int
  BY <1>8, GainsIsInt
<1> HIDE DEF F, H, U
<1>11. m \in U
  BY DEF U
<1>12. Sum(F, U) = F[m] + Sum(F, T)
  BY <1>2, <1>7, <1>8, <1>11, SumWithout
<1>13. Sum(F, T) = Sum(H, T)
  BY <1>6, <1>7, SumSame
<1>14. Gains(U) = Gains(T) + F[m]
  BY <1>9, <1>10, <1>12, <1>13
<1> QED BY <1>5, <1>14 DEF U

LEMMA GainsOfOne ==
  ASSUME MSTypeOK, NEW x \in Instants
  PROVE  Gains({x}) = 0
<1> DEFINE F == [t \in {x} |-> GainAt({x}, t)]
<1>1. Before({x}, x) = {}
  BY Period DEF Before
<1>2. F[x] = 0
  BY <1>1 DEF GainAt
<1>3. Gains({x}) = Sum(F, {x})
  BY FS_Singleton, GainsIsSum
<1> HIDE DEF F
<1> QED BY <1>2, <1>3, SumOfOne

\* The growth over a series is that up to one of its counts and that from it.
LEMMA GainsSplit ==
  ASSUME MSTypeOK, NEW T, T \subseteq Instants, NEW k \in T
  PROVE  Gains(T) = Gains({t \in T : t <= k}) + Gains({t \in T : k <= t})
<1> DEFINE Low(U) == {t \in U : t <= k}
           High(U) == {t \in U : k <= t}
           C == {U \in SUBSET T : k \in U /\ Gains(U) # Gains(Low(U)) + Gains(High(U))}
<1>1. SUFFICES ASSUME C # {} PROVE FALSE
  OBVIOUS
<1>2. C \subseteq SUBSET T /\ IsFiniteSet(T)
  BY Period, FS_Subset
<1>3. PICK m \in C : \A n \in C : n \subseteq m => n = m
  <2> HIDE DEF C
  <2> QED BY <1>1, <1>2, Smallest
<1> DEFINE last == Max(m)
           rest == m \ {last}
<1>4. m \subseteq Instants /\ k \in m /\ k \in Instants
  OBVIOUS
<1>5. last \in m /\ \A t \in m : t <= last
  BY <1>4, LastIsIn
<1>6. \A t \in m : t \in Nat
  BY <1>4, Period
<1> HIDE DEF last
<1>7. CASE last = k
  <2>1. Low(m) = m /\ High(m) = {k}
    BY <1>4, <1>5, <1>6, <1>7
  <2>2. Gains({k}) = 0 /\ Gains(m) \in Int
    BY <1>4, GainsOfOne, GainsIsInt
  <2> QED BY <2>1, <2>2
<1>8. CASE last # k
  <2>1. k < last /\ k \in rest /\ rest \subseteq m /\ rest # m
    BY <1>4, <1>5, <1>6, <1>8
  <2>2. Gains(rest) = Gains(Low(rest)) + Gains(High(rest))
    BY <1>3, <2>1
  <2>3. Low(m) = Low(rest) /\ High(m) = High(rest) \cup {last} /\ m = rest \cup {last}
    BY <1>5, <1>6, <2>1
  <2>4. \A t \in rest : t < last
    BY <1>5, <1>6
  <2>5. rest \subseteq Instants /\ High(rest) \subseteq Instants /\ Low(rest) \subseteq Instants /\ last \in Instants /\ k \in High(rest)
    BY <1>4, <1>5, <1>6, <2>1
  <2>6. Max(High(rest)) = Max(rest)
    <3>1. Max(rest) \in rest /\ k <= Max(rest) /\ \A t \in rest : t <= Max(rest)
      BY <2>1, <2>5, LastIsIn
    <3>2. Max(rest) \in High(rest) /\ \A t \in High(rest) : t <= Max(rest)
      BY <3>1
    <3> QED
      <4> HIDE DEF High, rest
      <4> QED BY <2>5, <3>2, LastIs
  <2> DEFINE g == Gain(captured[Max(rest)], captured[last])
  <2>7. Gains(m) = Gains(rest) + g
    <3> HIDE DEF rest
    <3> QED BY <2>1, <2>3, <2>4, <2>5, GainsStep
  <2>8. Gains(High(m)) = Gains(High(rest)) + g
    <3>1. \A t \in High(rest) : t < last
      BY <2>4
    <3> HIDE DEF rest, High
    <3> QED BY <2>3, <2>5, <2>6, <3>1, GainsStep
  <2>9. g \in Int
    <3>1. Max(rest) \in Instants
      BY <2>1, <2>5, LastIsIn
    <3> QED BY <2>5, <3>1, CountsAreInt DEF Gain
  <2>10. Gains(Low(rest)) \in Int /\ Gains(High(rest)) \in Int
    BY <2>5, GainsIsInt
  <2>11. Gains(m) # Gains(Low(m)) + Gains(High(m))
    BY <1>3
  <2> HIDE DEF g, rest, Low, High
  <2> QED BY <2>2, <2>3, <2>7, <2>8, <2>9, <2>10, <2>11
<1> QED BY <1>7, <1>8

\* A counter that never fell has grown from its first count to its last.
LEMMA GainsTelescope ==
  ASSUME MSTypeOK, NEW T, T \subseteq Instants, T # {}, \A t, u \in T : t < u => captured[t] <= captured[u]
  PROVE  Gains(T) = captured[Max(T)] - captured[Min(T)]
<1> DEFINE C == {U \in SUBSET T : U # {} /\ Gains(U) # captured[Max(U)] - captured[Min(U)]}
<1>1. SUFFICES ASSUME C # {} PROVE FALSE
  OBVIOUS
<1>2. C \subseteq SUBSET T /\ IsFiniteSet(T)
  BY Period, FS_Subset
<1>3. PICK m \in C : \A n \in C : n \subseteq m => n = m
  <2> HIDE DEF C
  <2> QED BY <1>1, <1>2, Smallest
<1> DEFINE last == Max(m)
           rest == m \ {last}
<1>4. m \subseteq Instants /\ m # {}
  OBVIOUS
<1>5. last \in m /\ \A t \in m : t <= last
  BY <1>4, LastIsIn
<1>6. \A t \in m : t \in Nat
  BY <1>4, Period
<1>7. CASE rest = {}
  <2>1. m = {last} /\ last \in Instants
    BY <1>4, <1>5, <1>7
  <2>2. Gains(m) = 0
    BY <2>1, GainsOfOne
  <2>3. Min(m) \in m
    BY <1>4, FirstIsIn
  <2>4. captured[Max(m)] \in Int /\ Min(m) = last
    BY <2>1, <2>3, CountsAreInt
  <2> QED BY <2>2, <2>4, <1>3
<1>8. CASE rest # {}
  <2>1. rest \subseteq m /\ rest # m /\ rest \subseteq Instants /\ last \in Instants
    BY <1>4, <1>5
  <2>2. Gains(rest) = captured[Max(rest)] - captured[Min(rest)]
    BY <1>3, <1>8, <2>1
  <2>3. \A t \in rest : t < last
    BY <1>5, <1>6
  <2>4. m = rest \cup {last}
    BY <1>5
  <2>5. Gains(m) = Gains(rest) + Gain(captured[Max(rest)], captured[last])
    <3> HIDE DEF rest, last
    <3> QED BY <1>8, <2>1, <2>3, <2>4, GainsStep
  <2>6. Max(rest) \in rest /\ Min(rest) \in rest /\ \A t \in rest : Min(rest) <= t
    BY <1>8, <2>1, LastIsIn, FirstIsIn
  <2>7. Min(m) = Min(rest)
    <3>1. Min(rest) \in m /\ \A t \in m : Min(rest) <= t
      BY <1>6, <2>3, <2>4, <2>6
    <3> QED BY <1>4, <3>1, LastIs
  <2>8. captured[Max(rest)] <= captured[last]
    BY <1>5, <2>3, <2>6
  <2>9. captured[Max(rest)] \in Int /\ captured[Min(rest)] \in Int /\ captured[last] \in Int
    BY <2>1, <2>6, CountsAreInt
  <2>10. Gain(captured[Max(rest)], captured[last]) = captured[last] - captured[Max(rest)]
    BY <2>8, <2>9 DEF Gain
  <2>11. Gains(m) # captured[Max(m)] - captured[Min(m)]
    BY <1>3
  <2> HIDE DEF rest
  <2> QED BY <2>2, <2>5, <2>7, <2>9, <2>10, <2>11
<1> QED BY <1>7, <1>8

---------------------------------------------------------------------------
(* What a report shows of a definition is what the card shows of it.        *)

Evident(seg) == WithBaseline(Snapshots(seg))
Since(seg, start) == LaterOf(seg.from, start)
Till(seg, cutoff) == IF seg.to <= cutoff THEN seg.to - 1 ELSE cutoff
Items(seg, cutoff) == {t \in Evident(seg) : t <= cutoff}
Baselines(seg, start, cutoff) == {t \in Items(seg, cutoff) : t <= Since(seg, start)}
Ends(seg, start, cutoff) == {t \in Items(seg, cutoff) : Since(seg, start) <= t /\ t <= Till(seg, cutoff)}
Inside(seg, start, cutoff) == {t \in Ends(seg, start, cutoff) : t > Since(seg, start)}
Series(seg, start, cutoff) == {Max(Baselines(seg, start, cutoff))} \cup Inside(seg, start, cutoff)

\* SegmentDelta in these terms, without a baseline and with one.
LEMMA DeltaFromZero ==
  ASSUME NEW seg, NEW start, NEW cutoff, Ends(seg, start, cutoff) # {}, Baselines(seg, start, cutoff) = {}
  PROVE  SegmentDelta(seg, start, cutoff) =
           IF \/ published < Since(seg, start) \/ published > Till(seg, cutoff)
              \/ \E t \in Inside(seg, start, cutoff) : ~Usable(t)
           THEN Nothing ELSE FromZero(Inside(seg, start, cutoff))
BY DEF SegmentDelta, Evident, Since, Till, Items, Baselines, Ends, Inside, UpTo

LEMMA DeltaFromBaseline ==
  ASSUME NEW seg, NEW start, NEW cutoff, Ends(seg, start, cutoff) # {}, Baselines(seg, start, cutoff) # {}
  PROVE  SegmentDelta(seg, start, cutoff) =
           IF \/ seg.from > start /\ Max(Baselines(seg, start, cutoff)) # Since(seg, start)
              \/ seg.to <= cutoff /\ Max(Ends(seg, start, cutoff)) # Till(seg, cutoff)
              \/ \E t \in Series(seg, start, cutoff) : ~Usable(t)
           THEN Nothing ELSE Aggregate(Series(seg, start, cutoff))
BY DEF SegmentDelta, Evident, Since, Till, Items, Baselines, Ends, Inside, Series, UpTo, Sequence

LEMMA DeltaOfNothing ==
  ASSUME NEW seg, NEW start, NEW cutoff, Ends(seg, start, cutoff) = {}
  PROVE  SegmentDelta(seg, start, cutoff) = Nothing
BY DEF SegmentDelta, Evident, Since, Till, Items, Ends

LEMMA SegmentsAre ==
  ASSUME MSTypeOK
  PROVE  /\ IsFiniteSet(Segments)
         /\ \A seg \in Segments : /\ seg.from \in Nat /\ seg.to \in Nat /\ seg.from < seg.to
                                  /\ seg.from <= End /\ seg.to > Start /\ seg.to <= Never
<1>1. opens \in Nat /\ cut \in Nat /\ opens < cut /\ cut <= Never /\ Never \in Nat
  BY Period DEF MSTypeOK
<1>2. IsFiniteSet({[from |-> opens, to |-> cut], [from |-> cut, to |-> Never]})
  <2> DEFINE a == [from |-> opens, to |-> cut]
             b == [from |-> cut, to |-> Never]
  <2> HIDE DEF a, b
  <2>1. IsFiniteSet({a}) /\ {a, b} = {a} \cup {b}
    BY FS_Singleton
  <2>2. IsFiniteSet({a, b})
    BY <2>1, FS_AddElement
  <2> QED BY <2>2 DEF a, b
<1>3. Segments \subseteq {[from |-> opens, to |-> cut], [from |-> cut, to |-> Never]}
  BY DEF Segments
<1>4. IsFiniteSet(Segments)
  BY <1>2, <1>3, FS_Subset
<1> QED BY <1>1, <1>4 DEF Segments

LEMMA EvidentAre ==
  ASSUME MSTypeOK, NEW seg
  PROVE  /\ Evident(seg) \subseteq Snapshots(seg) /\ Snapshots(seg) \subseteq Instants
         /\ \A t \in Snapshots(seg) : t \in Nat /\ t <= End /\ captured[t] # Absent /\ seg.from <= t /\ t < seg.to
         /\ \A t \in Snapshots(seg) : t >= Start => t \in Evident(seg)
         /\ \A t, u \in Evident(seg) : t < Start /\ u < Start => t = u
<1>1. Snapshots(seg) \subseteq Instants
  BY DEF Snapshots
<1>2. \A t \in Snapshots(seg) : t \in Nat /\ t <= End /\ captured[t] # Absent /\ seg.from <= t /\ t < seg.to
  BY Period DEF Snapshots
<1> DEFINE earlier == {t \in Snapshots(seg) : t < Start}
<1>3. earlier # {} => Max(earlier) \in earlier
  BY <1>1, LastIsIn
<1>4. Evident(seg) = (Snapshots(seg) \ earlier) \cup (IF earlier = {} THEN {} ELSE {Max(earlier)})
  BY DEF Evident, WithBaseline
<1>5. Evident(seg) \subseteq Snapshots(seg)
  BY <1>3, <1>4
<1>6. \A t \in Snapshots(seg) : t >= Start => t \in Evident(seg)
  BY <1>2, <1>4, Period
<1>7. \A t, u \in Evident(seg) : t < Start /\ u < Start => t = u
  <2>1. \A t \in Evident(seg) : t < Start => t = Max(earlier)
    BY <1>4, <1>5
  <2> QED BY <2>1
<1> QED BY <1>1, <1>2, <1>5, <1>6, <1>7

\* Ordered evidence of a report: the baseline and what follows the start of the segment.
LEMMA MetricIsDelta ==
  ASSUME MSTypeOK, \A t \in Known : Reportable(t),
         NEW seg \in Segments, SegmentMetric(seg) # Nothing
  PROVE  SegmentDelta(seg, Start, End) = SegmentMetric(seg) /\ \E t \in Evident(seg) : t <= End
<1> DEFINE from == Since(seg, Start)
           to == Till(seg, End)
           W == Evident(seg)
           before == {t \in W : t <= from}
           after == {t \in W : from <= t /\ t < seg.to}
           ordered == (IF before = {} THEN {} ELSE {Max(before)}) \cup after
           baselines == Baselines(seg, Start, End)
           ends == Ends(seg, Start, End)
           series == Series(seg, Start, End)
<1>1. /\ seg.from \in Nat /\ seg.to \in Nat /\ seg.from <= End /\ seg.to > Start /\ seg.to <= End + 1
      /\ Start \in Nat /\ End \in Nat
  BY SegmentsAre, Period
<1>2. W \subseteq Instants /\ \A t \in W : t \in Nat /\ t <= End /\ captured[t] # Absent /\ seg.from <= t /\ t < seg.to
  BY EvidentAre
<1>3. from \in Nat /\ from >= Start /\ from >= seg.from /\ to \in Nat /\ to = seg.to - 1
      /\ (seg.from > Start => from = seg.from)
  BY <1>1 DEF Since, Till, LaterOf
<1>4. Available(seg) = W
  <2>1. {t \in Snapshots(seg) : Reportable(t)} = Snapshots(seg)
    BY EvidentAre DEF Known
  <2> QED BY <2>1 DEF Available, Evident
<1>5. SegmentMetric(seg) = IF ordered = {} \/ Min(ordered) > from \/ ~CoversEnds(seg, ordered) THEN Nothing ELSE Aggregate(ordered)
  BY <1>4 DEF SegmentMetric, Since
<1>6. baselines = before
  BY <1>2 DEF Baselines, Items
<1>7. ends = after
  BY <1>1, <1>2, <1>3 DEF Ends, Items
<1>8. ordered # {} /\ Min(ordered) <= from /\ CoversEnds(seg, ordered) /\ SegmentMetric(seg) = Aggregate(ordered)
  <2>1. ordered # {} /\ ~(Min(ordered) > from) /\ CoversEnds(seg, ordered)
    BY <1>5
  <2>2. ordered \subseteq Instants
    <3>1. before # {} => Max(before) \in Instants
      BY <1>2, LastIsIn
    <3> QED BY <1>2, <3>1
  <2>3. Min(ordered) \in Nat
    BY <2>1, <2>2, FirstIsIn, Period
  <2> QED BY <1>3, <1>5, <2>1, <2>3
<1> HIDE DEF from, to, ordered
<1>9. before # {} /\ Max(before) \in before /\ \A t \in before : t <= Max(before)
  <2>1. before \subseteq Instants /\ after \subseteq Instants
    BY <1>2
  <2>2. ASSUME before = {} PROVE FALSE
    <3>1. ordered = after
      BY <2>2 DEF ordered
    <3>2. Min(ordered) \in after
      BY <1>8, <2>1, <3>1, FirstIsIn
    <3>3. Min(ordered) = from
      BY <1>2, <1>3, <1>8, <3>2
    <3> QED BY <1>3, <2>2, <3>2, <3>3
  <2> QED BY <2>1, <2>2, LastIsIn
<1> DEFINE b == Max(before)
<1>10. ordered = {b} \cup after /\ b \in W /\ b <= from /\ b \in Nat
  BY <1>2, <1>9 DEF ordered
<1>11. ends # {}
  <2>1. ASSUME after = {} PROVE FALSE
    <3>1. ordered = {b}
      BY <1>10, <2>1
    <3> HIDE DEF b
    <3>2. Cardinality({b}) = 1
      BY FS_Singleton
    <3> QED BY <1>8, <3>1, <3>2 DEF Aggregate
  <2> QED BY <1>7, <2>1
<1>12. series = ordered
  <2>1. series = {b} \cup {t \in after : t > from}
    BY <1>6, <1>7 DEF Series, Inside, from
  <2>2. \A t \in after : t = from => t = b
    <3> SUFFICES ASSUME from \in after PROVE from = b
      OBVIOUS
    <3>1. from \in before
      BY <1>3
    <3>2. from <= b
      BY <1>9, <3>1
    <3> HIDE DEF b
    <3> QED BY <1>3, <1>10, <3>2
  <2>3. \A t \in after : t > from \/ t = from
    BY <1>2, <1>3
  <2> HIDE DEF b
  <2> QED BY <1>10, <2>1, <2>2, <2>3
<1>13. seg.from > Start => b = from
  <2> SUFFICES ASSUME seg.from > Start PROVE b = from
    OBVIOUS
  <2>1. Min(ordered) = from
    BY <1>3, <1>8 DEF CoversEnds
  <2>2. ordered \subseteq Instants /\ b \in ordered
    BY <1>2, <1>10
  <2>3. Min(ordered) <= b
    BY <2>2, FirstIsIn
  <2> HIDE DEF b
  <2> QED BY <1>3, <1>10, <2>1, <2>3
<1>14. seg.to <= End => Max(ends) = to
  <2> SUFFICES ASSUME seg.to <= End PROVE Max(ends) = to
    OBVIOUS
  <2>1. Max(ordered) = to
    BY <1>3, <1>8 DEF CoversEnds
  <2>2. ordered \subseteq Instants /\ ordered # {} /\ after \subseteq Instants
    BY <1>2, <1>10
  <2>3. Max(ordered) \in ordered /\ \A t \in ordered : t <= to
    BY <2>1, <2>2, LastIsIn
  <2>4. to \in ends
    <3>1. CASE to \in after
      BY <1>7, <3>1
    <3>2. CASE to = b
      <4>1. PICK t \in after : TRUE
        BY <1>7, <1>11
      <4>2. t \in Nat /\ from <= t /\ t <= to
        BY <1>2, <1>10, <2>3
      <4> HIDE DEF b
      <4>3. t = to
        BY <1>3, <1>10, <3>2, <4>2
      <4> QED BY <1>7, <4>3
    <3> QED BY <1>10, <2>1, <2>3, <3>1, <3>2
  <2>5. \A t \in ends : t <= to
    BY <1>7, <1>10, <2>3
  <2> HIDE DEF ends, after
  <2> QED BY <1>7, <2>2, <2>4, <2>5, LastIs
<1>15. \A t \in series : Usable(t)
  <2> SUFFICES ASSUME NEW t \in series PROVE Usable(t)
    OBVIOUS
  <2>1. t \in Instants /\ captured[t] # Absent
    BY <1>2, <1>10, <1>12
  <2>2. Reportable(t)
    BY <2>1 DEF Known
  <2> QED BY <2>1, <2>2, CountsAreInt DEF Reportable, Usable
<1>16. SegmentDelta(seg, Start, End) = Aggregate(series)
  <2>1. baselines # {} /\ Max(baselines) = b
    BY <1>6, <1>9
  <2> HIDE DEF b, baselines, ends, series
  <2> QED BY <1>11, <1>13, <1>14, <1>15, <2>1, DeltaFromBaseline DEF from, to, baselines, ends, series
<1>17. \E t \in Evident(seg) : t <= End
  BY <1>2, <1>10
<1> QED BY <1>8, <1>12, <1>16, <1>17

LEMMA ReportAgreesHere ==
  ASSUME MSTypeOK
  PROVE  ReportAgrees
<1> SUFFICES ASSUME Complete, \A t \in Known : Reportable(t)
             PROVE  /\ \A seg \in Segments : Report[seg] = SegmentDelta(seg, Start, End)
                    /\ Card = MapThenSumSet(LAMBDA seg : Report[seg], Segments)
  BY DEF ReportAgrees
<1>1. \A seg \in Segments : /\ SegmentDelta(seg, Start, End) = Report[seg]
                            /\ SegmentDelta(seg, Start, End) # Nothing
                            /\ \E t \in WithBaseline(Snapshots(seg)) : t <= End
  BY MetricIsDelta DEF Complete, Evident, Report
<1>2. Card = MapThenSumSet(LAMBDA seg : SegmentDelta(seg, Start, End), Segments)
  <2>1. {seg \in Segments : \E t \in WithBaseline(Snapshots(seg)) : t <= End} = Segments
    BY <1>1
  <2>2. Segments # {}
    BY DEF Complete
  <2> QED BY <1>1, <2>1, <2>2 DEF Card, Value
<1> DEFINE F == [seg \in Segments |-> SegmentDelta(seg, Start, End)]
           H == [seg \in Segments |-> Report[seg]]
<1>3. Card = Sum(F, Segments)
  BY <1>2, SegmentsAre, DeltasIsSum
<1>4. MapThenSumSet(LAMBDA seg : Report[seg], Segments) = Sum(H, Segments)
  BY SegmentsAre, ReportIsSum
<1>5. Sum(F, Segments) = Sum(H, Segments)
  <2>1. \A seg \in Segments : F[seg] = H[seg]
    BY <1>1
  <2> HIDE DEF F, H
  <2> QED BY <2>1, SegmentsAre, SumSame
<1> QED BY <1>1, <1>3, <1>4, <1>5

\* A complete report says what the card says, however long the period and its days are.
THEOREM ReportAgreesAlways == MSSpec => []ReportAgrees
BY MSTyped, ReportAgreesHere, PTL

---------------------------------------------------------------------------
(* A period under one definition.                                           *)

Whole == [from |-> opens, to |-> Never]

LEMMA DeltaIsInt ==
  ASSUME MSTypeOK, NEW seg, NEW start, NEW cutoff
  PROVE  SegmentDelta(seg, start, cutoff) \in Int
<1> DEFINE inside == Inside(seg, start, cutoff)
           baselines == Baselines(seg, start, cutoff)
           series == Series(seg, start, cutoff)
<1>1. inside \subseteq Instants /\ baselines \subseteq Instants
  BY EvidentAre DEF Inside, Ends, Baselines, Items
<1>2. baselines # {} => series \subseteq Instants
  BY <1>1, LastIsIn DEF Series
<1>3. FromZero(inside) \in Int
  <2>1. inside # {} => Min(inside) \in Instants
    BY <1>1, FirstIsIn
  <2>2. inside # {} => captured[Min(inside)] \in Int
    <3> HIDE DEF inside
    <3> QED BY <2>1, CountsAreInt
  <2>3. Gains(inside) \in Int
    BY <1>1, GainsIsInt
  <2> QED BY <2>2, <2>3 DEF FromZero, Nothing
<1>4. baselines # {} => Aggregate(series) \in Int
  BY <1>2, GainsIsInt DEF Aggregate, Nothing
<1>5. Nothing \in Int
  BY DEF Nothing
<1> QED BY <1>3, <1>4, <1>5, DeltaOfNothing, DeltaFromZero, DeltaFromBaseline

LEMMA OneDefinition ==
  ASSUME MSTypeOK, cut > End
  PROVE  /\ Segments = {Whole} /\ Snapshots(Whole) = Known
         /\ \A cutoff \in Nat : cutoff <= End => Till(Whole, cutoff) = cutoff
<1>1. opens \in Nat /\ cut = Never /\ opens <= End /\ End \in Nat /\ Start \in Nat /\ Start <= End /\ Never = End + 1
  BY Period DEF MSTypeOK
<1>2. Segments = {Whole}
  BY <1>1 DEF Segments, Whole
<1>3. Snapshots(Whole) = Known
  <2>1. \A t \in Known : t \in Nat /\ opens <= t /\ t < Never
    BY <1>1, Period DEF MSTypeOK, Known
  <2> QED BY <2>1 DEF Snapshots, Known, Whole
<1>4. \A cutoff \in Nat : cutoff <= End => Till(Whole, cutoff) = cutoff
  BY <1>1 DEF Till, Whole
<1> QED BY <1>2, <1>3, <1>4

LEMMA ValueIsDelta ==
  ASSUME MSTypeOK, cut > End, NEW start, NEW cutoff
  PROVE  Value(start, cutoff) = SegmentDelta(Whole, start, cutoff)
<1> DEFINE groups == {seg \in Segments : \E t \in WithBaseline(Snapshots(seg)) : t <= cutoff}
           F == [seg \in groups |-> SegmentDelta(seg, start, cutoff)]
<1>1. Value(start, cutoff) = IF groups = {} \/ \E seg \in groups : SegmentDelta(seg, start, cutoff) = Nothing THEN Nothing
                             ELSE MapThenSumSet(LAMBDA seg : SegmentDelta(seg, start, cutoff), groups)
  BY DEF Value
<1>2. Segments = {Whole}
  BY OneDefinition
<1>3. CASE groups = {}
  <2>1. Items(Whole, cutoff) = {}
    BY <1>2, <1>3 DEF Items, Evident
  <2>2. Ends(Whole, start, cutoff) = {}
    BY <2>1 DEF Ends
  <2> QED BY <1>1, <1>3, <2>2, DeltaOfNothing
<1>4. CASE groups # {}
  <2>1. groups = {Whole}
    BY <1>2, <1>4
  <2>2. IsFiniteSet(groups)
    BY <2>1, FS_Singleton
  <2>3. MapThenSumSet(LAMBDA seg : SegmentDelta(seg, start, cutoff), groups) = Sum(F, groups)
    <3> HIDE DEF groups
    <3> QED BY <2>2, DeltasIsSum
  <2>4. F[Whole] = SegmentDelta(Whole, start, cutoff)
    BY <2>1
  <2>5. Sum(F, groups) = SegmentDelta(Whole, start, cutoff)
    <3> HIDE DEF F, groups
    <3> QED BY <2>1, <2>4, DeltaIsInt, SumOfOne
  <2> HIDE DEF groups
  <2> QED BY <1>1, <1>4, <2>1, <2>3, <2>5
<1> QED BY <1>3, <1>4

LEMMA ShowsGrowth ==
  ASSUME MSTypeOK, NEW start \in Nat, Start <= start, start <= End, cut > End,
         \A t, u \in Known : t < u => captured[t] <= captured[u], Value(start, End) # Nothing
  PROVE  Value(start, End) = GrowthSince(start)
<1> DEFINE from == Since(Whole, start)
           held == {t \in Known : t <= from}
           W == Evident(Whole)
           baselines == Baselines(Whole, start, End)
           ends == Ends(Whole, start, End)
           inside == Inside(Whole, start, End)
           series == Series(Whole, start, End)
           m == Max(Known)
<1>1. Value(start, End) = SegmentDelta(Whole, start, End)
  BY ValueIsDelta
<1>2. /\ Start \in Nat /\ End \in Nat /\ Start <= End /\ opens \in Nat
      /\ from \in Nat /\ from >= start /\ from >= Start /\ Till(Whole, End) = End
  BY Period, OneDefinition DEF MSTypeOK, Since, LaterOf, Whole
<1>3. /\ W \subseteq Known /\ Known \subseteq Instants /\ \A t \in Known : t \in Nat /\ t <= End
      /\ \A t \in Known : t >= Start => t \in W
  <2>1. Snapshots(Whole) = Known
    BY OneDefinition
  <2> QED BY <2>1, EvidentAre
<1>0. GrowthSince(start) = captured[m] - (IF held = {} THEN 0 ELSE captured[Max(held)])
  BY DEF GrowthSince, UpTo, Since, Whole, m, from
<1> HIDE DEF from
<1>4. /\ baselines = {t \in W : t <= from} /\ ends = {t \in W : from <= t} /\ inside = {t \in ends : t > from}
      /\ baselines \subseteq Instants /\ ends \subseteq Instants /\ inside \subseteq Instants
  <2>1. Items(Whole, End) = W
    BY <1>3 DEF Items
  <2>2. \A t \in W : t <= Till(Whole, End)
    BY <1>2, <1>3
  <2> QED BY <1>3, <2>1, <2>2 DEF Baselines, Ends, Inside, from
<1>5. ends # {}
  BY <1>1, DeltaOfNothing
<1>6. PICK e \in ends : TRUE
  BY <1>5
<1>7. e \in Known /\ e \in Nat /\ from <= e
  BY <1>3, <1>4, <1>6
<1>8. m \in Known /\ \A t \in Known : t <= m
  BY <1>3, <1>7, LastIsIn
<1> HIDE DEF m
<1>9. m \in ends /\ m \in Nat
  <2>1. m \in Nat /\ e <= m
    BY <1>3, <1>7, <1>8
  <2>2. m >= Start /\ from <= m
    BY <1>2, <1>7, <2>1
  <2>3. m \in W
    BY <1>3, <1>8, <2>2
  <2> QED BY <1>4, <2>1, <2>2, <2>3
<1>10. CASE baselines = {}
  <2>1. held = {}
    <3> SUFFICES ASSUME NEW t \in held PROVE FALSE
      OBVIOUS
    <3>1. t < Start
      BY <1>2, <1>3, <1>4, <1>10
    <3>2. \E u \in W : u < Start
      <4> DEFINE earlier == {u \in Known : u < Start}
      <4>1. earlier # {} /\ earlier \subseteq Instants
        BY <1>3, <3>1
      <4>2. Max(earlier) \in earlier
        <5> HIDE DEF earlier
        <5> QED BY <4>1, LastIsIn
      <4>3. Max(earlier) \in W
        BY <4>1, OneDefinition DEF Evident, WithBaseline
      <4> QED BY <4>2, <4>3
    <3> QED BY <1>2, <1>3, <1>4, <1>10, <3>2
  <2>2. inside = ends /\ inside = Known
    <3>1. \A t \in Known : t > from
      BY <1>2, <1>3, <2>1
    <3>2. \A t \in Known : t \in W /\ from <= t
      BY <1>2, <1>3, <3>1
    <3> QED BY <1>3, <1>4, <3>1, <3>2
  <2>3. Value(start, End) = FromZero(inside)
    BY <1>1, <1>5, <1>10, DeltaFromZero
  <2>4. Value(start, End) = captured[Min(Known)] + Gains(Known)
    BY <1>7, <2>2, <2>3 DEF FromZero
  <2>5. Gains(Known) = captured[m] - captured[Min(Known)]
    BY <1>3, <1>7, GainsTelescope DEF m
  <2>6. captured[m] \in Int /\ captured[Min(Known)] \in Int
    <3>1. Min(Known) \in Known
      BY <1>3, <1>7, FirstIsIn
    <3> QED BY <1>3, <1>8, <3>1, CountsAreInt
  <2> QED BY <1>0, <2>1, <2>4, <2>5, <2>6
<1>11. CASE baselines # {}
  <2> DEFINE b == Max(baselines)
  <2>1. b \in baselines /\ \A t \in baselines : t <= b
    BY <1>4, <1>11, LastIsIn
  <2>2. b \in Known /\ b \in Nat /\ b <= from
    BY <1>3, <1>4, <2>1
  <2>3. series = {b} \cup inside /\ series \subseteq Known
    BY <1>3, <1>4, <2>2 DEF Series
  <2> HIDE DEF b
  <2>4. Value(start, End) = Aggregate(series) /\ Aggregate(series) # Nothing
    BY <1>1, <1>5, <1>11, DeltaFromBaseline
  <2>5. Value(start, End) = Gains(series)
    BY <2>4 DEF Aggregate
  <2>6. Min(series) = b
    <3>1. b \in series /\ \A t \in series : b <= t
      <4> SUFFICES ASSUME NEW t \in inside PROVE b <= t
        BY <2>2, <2>3
      <4>1. t \in Nat /\ t > from
        BY <1>3, <1>4
      <4> QED BY <1>2, <2>2, <4>1
    <3> HIDE DEF series
    <3> QED BY <1>3, <2>3, <3>1, LastIs
  <2>7. Max(series) = m
    <3>1. m \in series
      <4>1. CASE m > from
        BY <1>4, <1>9, <2>3, <4>1
      <4>2. CASE m = from
        <5>1. m \in baselines
          BY <1>4, <1>9, <4>2
        <5>2. m = b
          BY <1>8, <1>9, <2>1, <2>2, <5>1
        <5> QED BY <2>3, <5>2
      <4>3. m > from \/ m = from
        BY <1>2, <1>4, <1>9
      <4> QED BY <4>1, <4>2, <4>3
    <3>2. \A t \in series : t <= m
      BY <1>8, <2>3
    <3> HIDE DEF series
    <3> QED BY <1>3, <2>3, <3>1, <3>2, LastIs
  <2>8. Gains(series) = captured[m] - captured[b]
    <3>1. series \subseteq Instants /\ series # {}
      BY <1>3, <2>3
    <3>2. \A t, u \in series : t < u => captured[t] <= captured[u]
      BY <2>3
    <3> HIDE DEF series
    <3> QED BY <2>6, <2>7, <3>1, <3>2, GainsTelescope
  <2>9. Max(held) = b
    <3>1. b \in held /\ held \subseteq Instants
      BY <1>3, <2>2
    <3>2. \A t \in held : t <= b
      <4> SUFFICES ASSUME NEW t \in held PROVE t <= b
        OBVIOUS
      <4>1. CASE t >= Start
        BY <1>3, <1>4, <2>1, <4>1
      <4>2. CASE t < Start
        <5> DEFINE earlier == {u \in Known : u < Start}
        <5>1. earlier # {} /\ earlier \subseteq Instants /\ t \in earlier
          BY <1>3, <4>2
        <5>2. Max(earlier) \in earlier /\ t <= Max(earlier)
          <6> HIDE DEF earlier
          <6> QED BY <5>1, LastIsIn
        <5>3. Max(earlier) \in W
          BY <5>1, OneDefinition DEF Evident, WithBaseline
        <5>4. Max(earlier) \in baselines
          BY <1>2, <1>3, <1>4, <5>2, <5>3
        <5>5. Max(earlier) <= b /\ Max(earlier) \in Nat /\ t \in Nat
          BY <1>3, <2>1, <5>2, <5>4
        <5> HIDE DEF earlier
        <5> QED BY <2>2, <5>2, <5>5
      <4>3. t >= Start \/ t < Start
        BY <1>2, <1>3
      <4> QED BY <4>1, <4>2, <4>3
    <3> HIDE DEF held
    <3> QED BY <3>1, <3>2, LastIs
  <2>10. held # {}
    BY <2>2
  <2> QED BY <1>0, <2>5, <2>8, <2>9, <2>10
<1> QED BY <1>10, <1>11

LEMMA CardIsGrowthHere ==
  ASSUME MSTypeOK
  PROVE  CardIsGrowth
<1>1. /\ Start \in Nat /\ End \in Nat /\ Start <= End /\ LastOf(DayCount) = End
      /\ FirstOf(DayCount) \in Nat /\ Start <= FirstOf(DayCount) /\ FirstOf(DayCount) <= End
  <2>1. DayCount \in Nat /\ 1 \in Nat /\ 1 <= DayCount
    BY PeriodAssumption
  <2> QED BY <2>1, Period, DayAfterDay, DaysInOrder
<1> QED BY <1>1, ShowsGrowth DEF CardIsGrowth, Card, DailyCard, Daily

\* The card of a counter that never fell is its growth.
THEOREM CardIsGrowthAlways == MSSpec => []CardIsGrowth
BY MSTyped, CardIsGrowthHere, PTL

---------------------------------------------------------------------------
(* The daily rows.                                                          *)

\* One definition holds and every day has a value.
AllDaysShown == cut > End /\ opens <= Start /\ \A d \in Days : Daily(d) # Nothing

\* The growth no day shows: to a count at the very start of a later day.
Midnight(d) == IF d = 1 \/ FirstOf(d) \notin Known THEN 0
               ELSE Gain(captured[Max(Before(Known, FirstOf(d)))], captured[FirstOf(d)])

\* What DaysAlwaysAddUp gets wrong is the growth at the midnights, no more and no less.
DaysMissMidnights ==
  cut > End /\ opens <= Start /\ (\A d \in Days : Daily(d) # Nothing)
    => Card = MapThenSumSet(Daily, Days) + Sum([d \in Days |-> Midnight(d)], Days)

\* The counts the card sums over, and those of them up to the end of day k.
Held == {t \in Evident(Whole) : t <= Start}
Shown == IF Held = {} THEN Evident(Whole) ELSE {t \in Evident(Whole) : Max(Held) <= t}
ShownTo(k) == {t \in Shown : t <= LastOf(k)}
Initial == IF Held = {} THEN captured[Min(Shown)] ELSE 0

LEMMA DayIs ==
  ASSUME NEW d \in Days
  PROVE  /\ d \in Nat /\ 1 \in Days /\ DayCount \in Days /\ FirstOf(d) \in Nat /\ LastOf(d) \in Nat
         /\ Start <= FirstOf(d) /\ FirstOf(d) <= LastOf(d) /\ LastOf(d) <= End
         /\ d # 1 => d - 1 \in Days /\ FirstOf(d) = LastOf(d - 1) + 1
<1>1. DayCount \in Nat /\ DayCount >= 1 /\ d \in Nat /\ 1 <= d /\ d <= DayCount
  BY PeriodAssumption DEF Days
<1>2. FirstOf(1) <= FirstOf(d) /\ LastOf(d) <= LastOf(DayCount)
  BY <1>1, DaysInOrder
<1>3. FirstOf(d) \in Nat /\ LastOf(d) \in Nat /\ FirstOf(d) <= LastOf(d)
  BY <1>1, DayAfterDay
<1>4. ASSUME d # 1 PROVE d - 1 \in Days /\ FirstOf(d) = LastOf(d - 1) + 1
  <2>1. d - 1 \in Nat /\ d - 1 \in Days /\ (d - 1) + 1 = d
    BY <1>1, <1>4 DEF Days
  <2>2. LastOf(d - 1) = FirstOf(d) - 1
    BY <2>1 DEF LastOf
  <2> QED BY <1>3, <2>1, <2>2
<1> QED BY <1>1, <1>2, <1>3, <1>4 DEF Days, Start, End

\* Every instant from the start of the period on lies in one of its days.
LEMMA DayOfInstant ==
  ASSUME NEW t \in Instants, t >= Start
  PROVE  \E d \in Days : FirstOf(d) <= t /\ t <= LastOf(d)
<1> DEFINE C == {Days \cap 0..d : d \in {e \in Days : t <= LastOf(e)}}
<1>1. DayCount \in Nat /\ DayCount \in Days
  BY PeriodAssumption DEF Days
<1>2. IsFiniteSet(Days)
  <2>1. 1 \in Int /\ DayCount \in Int
    BY <1>1
  <2> QED BY <2>1, FS_Interval DEF Days
<1>3. C \subseteq SUBSET Days /\ C # {}
  <2>1. DayCount \in {e \in Days : t <= LastOf(e)}
    BY <1>1, Period
  <2> QED BY <2>1
<1>4. PICK m \in C : \A n \in C : n \subseteq m => n = m
  <2> HIDE DEF C
  <2> QED BY <1>3, <1>2, Smallest
<1>5. PICK d \in Days : t <= LastOf(d) /\ m = Days \cap 0..d
  OBVIOUS
<1>6. FirstOf(d) <= t
  <2>1. CASE d = 1
    BY <2>1, Period
  <2>2. CASE d # 1
    <3>1. d - 1 \in Days /\ d - 1 \in Nat /\ d \in Nat /\ FirstOf(d) = LastOf(d - 1) + 1 /\ LastOf(d - 1) \in Nat
      BY <2>2, DayIs
    <3>2. Days \cap 0..d - 1 # m /\ Days \cap 0..d - 1 \subseteq m
      BY <1>5, <3>1
    <3>3. ~(t <= LastOf(d - 1))
      BY <1>4, <3>1, <3>2
    <3>4. t \in Nat
      BY Period
    <3> QED BY <3>1, <3>3, <3>4
  <2> QED BY <2>1, <2>2
<1> QED BY <1>5, <1>6

LEMMA SpanIs ==
  ASSUME MSTypeOK, cut > End, opens <= Start,
         NEW start \in Nat, NEW cutoff \in Nat, Start <= start, start <= cutoff, cutoff <= End
  PROVE  /\ Since(Whole, start) = start /\ Till(Whole, cutoff) = cutoff /\ ~(Whole.from > start) /\ ~(Whole.to <= cutoff)
         /\ Baselines(Whole, start, cutoff) = {t \in Evident(Whole) : t <= start}
         /\ Ends(Whole, start, cutoff) = {t \in Evident(Whole) : start <= t /\ t <= cutoff}
         /\ Inside(Whole, start, cutoff) = {t \in Evident(Whole) : start < t /\ t <= cutoff}
<1>1. opens \in Nat /\ Start \in Nat /\ End \in Nat /\ Never = End + 1
  BY Period DEF MSTypeOK
<1>2. Since(Whole, start) = start /\ ~(Whole.from > start) /\ ~(Whole.to <= cutoff)
  BY <1>1 DEF Since, LaterOf, Whole
<1>3. Till(Whole, cutoff) = cutoff
  BY OneDefinition
<1>4. \A t \in Evident(Whole) : t \in Nat
  BY EvidentAre
<1>5. Baselines(Whole, start, cutoff) = {t \in Evident(Whole) : t <= start}
  BY <1>2, <1>4 DEF Baselines, Items
<1>6. Ends(Whole, start, cutoff) = {t \in Evident(Whole) : start <= t /\ t <= cutoff}
  BY <1>2, <1>3, <1>4 DEF Ends, Items
<1>7. Inside(Whole, start, cutoff) = {t \in Evident(Whole) : start < t /\ t <= cutoff}
  BY <1>2, <1>4, <1>6 DEF Inside
<1> QED BY <1>2, <1>3, <1>5, <1>6, <1>7

\* What a day shows: what it saw, or the growth since the last count before.
LEMMA DayShows ==
  ASSUME MSTypeOK, AllDaysShown, NEW d \in Days
  PROVE  LET baselines == {t \in Evident(Whole) : t <= FirstOf(d)}
             inside == {t \in Evident(Whole) : FirstOf(d) < t /\ t <= LastOf(d)}
             series == {Max(baselines)} \cup inside
         IN /\ \E t \in Evident(Whole) : FirstOf(d) <= t /\ t <= LastOf(d)
            /\ baselines = {} => /\ Daily(d) = FromZero(inside) /\ FirstOf(d) <= published /\ published <= LastOf(d)
                                 /\ \A t \in inside : Usable(t)
            /\ baselines # {} => /\ Daily(d) = Gains(series) /\ Cardinality(series) >= 2
                                 /\ \A t \in series : Usable(t)
<1> DEFINE baselines == {t \in Evident(Whole) : t <= FirstOf(d)}
           inside == {t \in Evident(Whole) : FirstOf(d) < t /\ t <= LastOf(d)}
           ends == {t \in Evident(Whole) : FirstOf(d) <= t /\ t <= LastOf(d)}
           series == {Max(baselines)} \cup inside
<1>1. /\ FirstOf(d) \in Nat /\ LastOf(d) \in Nat /\ Start <= FirstOf(d)
      /\ FirstOf(d) <= LastOf(d) /\ LastOf(d) <= End
  BY DayIs
<1>2. /\ Since(Whole, FirstOf(d)) = FirstOf(d) /\ Till(Whole, LastOf(d)) = LastOf(d)
      /\ ~(Whole.from > FirstOf(d)) /\ ~(Whole.to <= LastOf(d))
      /\ Baselines(Whole, FirstOf(d), LastOf(d)) = baselines
      /\ Ends(Whole, FirstOf(d), LastOf(d)) = ends
      /\ Inside(Whole, FirstOf(d), LastOf(d)) = inside
  BY <1>1, SpanIs DEF AllDaysShown
<1>3. Series(Whole, FirstOf(d), LastOf(d)) = series
  BY <1>2 DEF Series
<1>4. Daily(d) = SegmentDelta(Whole, FirstOf(d), LastOf(d)) /\ Daily(d) # Nothing
  BY ValueIsDelta DEF Daily, AllDaysShown
<1> HIDE DEF baselines, ends, inside, series
<1>5. ends # {}
  BY <1>2, <1>4, DeltaOfNothing
<1>6. ASSUME baselines = {}
      PROVE  /\ Daily(d) = FromZero(inside) /\ FirstOf(d) <= published /\ published <= LastOf(d)
             /\ \A t \in inside : Usable(t)
  <2>1. Daily(d) = FromZero(inside) /\ ~(published < FirstOf(d)) /\ ~(published > LastOf(d)) /\ \A t \in inside : Usable(t)
    BY <1>2, <1>4, <1>5, <1>6, DeltaFromZero
  <2>2. published \in Nat
    BY Period DEF MSTypeOK
  <2> QED BY <1>1, <2>1, <2>2
<1>7. ASSUME baselines # {}
      PROVE  Daily(d) = Gains(series) /\ Cardinality(series) >= 2 /\ \A t \in series : Usable(t)
  <2>1. Daily(d) = Aggregate(series) /\ \A t \in series : Usable(t)
    BY <1>2, <1>3, <1>4, <1>5, <1>7, DeltaFromBaseline
  <2>2. Daily(d) = Gains(series) /\ ~(Cardinality(series) < 2)
    BY <1>4, <2>1 DEF Aggregate
  <2>3. Cardinality(series) \in Nat
    <3>1. Evident(Whole) \subseteq Instants
      BY EvidentAre
    <3>2. series \subseteq Instants
      <4>1. baselines \subseteq Instants /\ inside \subseteq Instants
        BY <3>1 DEF baselines, inside
      <4>2. Max(baselines) \in Instants
        BY <1>7, <4>1, LastIsIn
      <4> QED BY <4>1, <4>2 DEF series
    <3> QED BY <3>2, Period, FS_Subset, FS_CardinalityType
  <2> QED BY <2>1, <2>2, <2>3
<1> QED BY <1>5, <1>6, <1>7 DEF baselines, ends, inside, series

\* What is shown lies in the evidence and in the period, but for a baseline; up
\* to a day it has a count of that day as its last.
LEMMA ShownAre ==
  ASSUME MSTypeOK, AllDaysShown
  PROVE  /\ Shown \subseteq Evident(Whole) /\ Evident(Whole) \subseteq Instants /\ Known \subseteq Instants
         /\ \A t \in Evident(Whole) : t \in Nat /\ t <= End /\ t \in Known
         /\ \A t \in Evident(Whole) : t >= Start => t \in Shown
         /\ \A t \in Known : t \in Nat /\ (t >= Start => t \in Evident(Whole))
         /\ Held # {} => /\ Max(Held) \in Held /\ Max(Held) \in Shown /\ \A t \in Held : t <= Max(Held)
                         /\ \A t \in Shown : t = Max(Held) \/ t > Start
         /\ Held = {} => \A t \in Shown : t > Start
<1>1. /\ Evident(Whole) \subseteq Known /\ Known \subseteq Instants
      /\ \A t \in Evident(Whole) : t \in Nat /\ t <= End
      /\ \A t \in Known : t \in Nat /\ (t >= Start => t \in Evident(Whole))
  <2>1. Snapshots(Whole) = Known
    BY OneDefinition DEF AllDaysShown
  <2> QED BY <2>1, EvidentAre
<1>2. Shown \subseteq Evident(Whole)
  BY DEF Shown
<1>3. Held # {} => Max(Held) \in Held /\ \A t \in Held : t <= Max(Held)
  <2>1. Held \subseteq Instants
    BY <1>1 DEF Held
  <2> QED BY <2>1, LastIsIn
<1>4. Start \in Nat
  BY Period
<1>5. ASSUME Held # {}
      PROVE  /\ Max(Held) \in Shown /\ \A t \in Shown : t = Max(Held) \/ t > Start
             /\ \A t \in Evident(Whole) : t >= Start => t \in Shown
  <2>1. Shown = {t \in Evident(Whole) : Max(Held) <= t}
    BY <1>5 DEF Shown
  <2>2. Max(Held) \in Evident(Whole) /\ Max(Held) \in Nat /\ Max(Held) <= Start
    BY <1>1, <1>3, <1>5 DEF Held
  <2>3. \A t \in Shown : t = Max(Held) \/ t > Start
    <3> SUFFICES ASSUME NEW t \in Shown, ~(t > Start) PROVE t = Max(Held)
      OBVIOUS
    <3>1. t \in Nat /\ t \in Held
      BY <1>1, <1>2, <1>4 DEF Held
    <3> QED BY <1>3, <2>1, <2>2, <3>1
  <2> QED BY <1>1, <1>4, <2>1, <2>2, <2>3
<1>6. ASSUME Held = {}
      PROVE  (\A t \in Shown : t > Start) /\ (\A t \in Evident(Whole) : t >= Start => t \in Shown)
  BY <1>1, <1>4, <1>6 DEF Shown, Held
<1> QED BY <1>1, <1>2, <1>3, <1>5, <1>6

LEMMA FirstDay ==
  ASSUME MSTypeOK, AllDaysShown
  PROVE  Daily(1) = Initial + Gains(ShownTo(1))
<1> DEFINE inside == {t \in Evident(Whole) : FirstOf(1) < t /\ t <= LastOf(1)}
           series == {Max(Held)} \cup inside
<1>1. 1 \in Days /\ FirstOf(1) = Start /\ Start \in Nat /\ LastOf(1) \in Nat /\ Start <= LastOf(1)
  <2>1. 1 \in Days
    BY PeriodAssumption DEF Days
  <2> QED BY <2>1, DayIs DEF Start
<1>2. Held = {t \in Evident(Whole) : t <= FirstOf(1)}
  BY <1>1 DEF Held
<1>3. /\ \E t \in Evident(Whole) : FirstOf(1) <= t /\ t <= LastOf(1)
      /\ Held = {} => Daily(1) = FromZero(inside)
      /\ Held # {} => Daily(1) = Gains(series)
  BY <1>1, <1>2, DayShows
<1>4. CASE Held = {}
  <2>1. ShownTo(1) = inside /\ inside # {}
    <3>1. \A t \in Evident(Whole) : t > Start
      BY <1>4, ShownAre DEF Shown
    <3> QED BY <1>1, <1>3, <1>4, <3>1 DEF ShownTo, Shown
  <2>2. Min(Shown) = Min(inside) /\ Min(Shown) \in Instants
    <3>1. inside \subseteq Instants /\ Shown \subseteq Instants /\ \A t \in Shown : t \in Nat
      BY ShownAre
    <3>2. Min(inside) \in inside /\ \A t \in inside : Min(inside) <= t
      BY <2>1, <3>1, FirstIsIn
    <3> DEFINE n == Min(inside)
    <3>3. n \in Shown /\ n \in Nat /\ n <= LastOf(1)
      BY <2>1, <3>1, <3>2 DEF ShownTo
    <3> HIDE DEF n
    <3>4. \A t \in Shown : n <= t
      <4> SUFFICES ASSUME NEW t \in Shown, ~(n <= t) PROVE FALSE
        OBVIOUS
      <4>1. t \in ShownTo(1)
        BY <1>1, <3>1, <3>3 DEF ShownTo
      <4> QED BY <2>1, <3>2, <4>1 DEF n
    <3>5. Min(Shown) = n
      BY <3>1, <3>3, <3>4, LastIs
    <3> QED BY <3>1, <3>3, <3>5 DEF n
  <2>3. Daily(1) = captured[Min(inside)] + Gains(inside)
    BY <1>3, <1>4, <2>1 DEF FromZero
  <2> HIDE DEF inside
  <2> QED BY <1>4, <2>1, <2>2, <2>3 DEF Initial
<1>5. CASE Held # {}
  <2>1. ShownTo(1) = series
    <3>1. Max(Held) \in Shown /\ Max(Held) \in Nat /\ Max(Held) <= Start
      BY <1>5, ShownAre DEF Held
    <3>2. \A t \in Shown : t = Max(Held) \/ t > Start
      BY <1>5, ShownAre
    <3>3. inside = {t \in Shown : Start < t /\ t <= LastOf(1)}
      BY <1>1, ShownAre
    <3> HIDE DEF inside
    <3> QED BY <1>1, <3>1, <3>2, <3>3 DEF ShownTo
  <2>2. Gains(series) \in Int
    <3>1. ShownTo(1) \subseteq Instants
      BY ShownAre DEF ShownTo
    <3> QED BY <2>1, <3>1, GainsIsInt
  <2> HIDE DEF series
  <2> QED BY <1>3, <1>5, <2>1, <2>2 DEF Initial
<1> QED BY <1>4, <1>5

\* A day adds the growth since the last count before it, but for that to a count at its start.
LEMMA NextDay ==
  ASSUME MSTypeOK, AllDaysShown, NEW k \in Days, k + 1 \in Days
  PROVE  /\ Daily(k + 1) \in Int /\ Midnight(k + 1) \in Int
         /\ Gains(ShownTo(k + 1)) = Gains(ShownTo(k)) + Midnight(k + 1) + Daily(k + 1)
<1> DEFINE d == k + 1
           W == Evident(Whole)
           baselines == {t \in W : t <= FirstOf(d)}
           inside == {t \in W : FirstOf(d) < t /\ t <= LastOf(d)}
           series == {Max(baselines)} \cup inside
           b == Max(baselines)
           T == ShownTo(d)
           P == ShownTo(k)
<1>1. /\ k \in Nat /\ FirstOf(k) \in Nat /\ LastOf(k) \in Nat /\ Start <= FirstOf(k) /\ Start \in Nat
      /\ d \in Days /\ FirstOf(d) \in Nat /\ LastOf(d) \in Nat /\ FirstOf(d) <= LastOf(d)
      /\ d # 1 /\ FirstOf(d) = LastOf(k) + 1
  <2>1. d # 1 /\ d - 1 = k
    BY DayIs DEF Days
  <2> QED BY <2>1, DayIs, Period
<1> HIDE DEF d
<1>2. /\ W \subseteq Instants /\ Shown \subseteq W /\ \A t \in W : t \in Nat /\ t \in Known
      /\ \A t \in W : t >= Start => t \in Shown
  BY ShownAre
<1>3. FirstOf(d) \in Known <=> FirstOf(d) \in W
  <2>1. FirstOf(d) >= Start
    BY <1>1, DayIs
  <2> QED BY <1>2, <2>1, ShownAre
<1>4. PICK e \in W : FirstOf(k) <= e /\ e <= LastOf(k)
  BY DayShows
<1>5. e \in baselines /\ baselines \subseteq Instants
  BY <1>1, <1>2, <1>4
<1>6. b \in baselines /\ \A t \in baselines : t <= b
  BY <1>5, LastIsIn
<1>7. Daily(d) = Gains(series)
  BY <1>1, <1>5, DayShows
<1> HIDE DEF b
<1>8. b \in W /\ b \in Nat /\ b <= FirstOf(d) /\ b <= LastOf(d) /\ e <= b /\ b >= Start
  <2>1. b \in W /\ b \in Nat /\ b <= FirstOf(d)
    BY <1>2, <1>6
  <2>2. e <= b /\ e \in Nat
    BY <1>2, <1>5, <1>6
  <2> QED BY <1>1, <1>4, <2>1, <2>2
<1>9. b \in T
  BY <1>1, <1>2, <1>8 DEF ShownTo
<1>10. P = {t \in T : t <= LastOf(k)} /\ e \in P /\ P \subseteq Instants
  <2>1. \A t \in Shown : t \in Nat /\ t \in Instants /\ (t <= LastOf(k) => t <= LastOf(d))
    BY <1>1, <1>2
  <2>2. e \in Shown
    BY <1>1, <1>2, <1>4
  <2> QED BY <1>4, <2>1, <2>2 DEF ShownTo
<1>11. {t \in T : b <= t} = series
  <2>1. series = {b} \cup inside
    BY DEF b
  <2>2. \A t \in inside : t \in T /\ b <= t
    <3> SUFFICES ASSUME NEW t \in inside PROVE t \in T /\ b <= t
      OBVIOUS
    <3>1. t \in W /\ t \in Nat /\ FirstOf(d) < t /\ t <= LastOf(d)
      BY <1>2
    <3>2. t >= Start /\ b <= t
      BY <1>1, <1>8, <3>1
    <3> QED BY <1>2, <3>1, <3>2 DEF ShownTo
  <2>3. \A t \in T : b <= t => t = b \/ t \in inside
    <3> SUFFICES ASSUME NEW t \in T, b <= t, t # b PROVE t \in inside
      OBVIOUS
    <3>1. t \in W /\ t \in Nat /\ t <= LastOf(d)
      BY <1>2 DEF ShownTo
    <3>2. t \notin baselines
      BY <1>6, <1>8, <3>1
    <3> QED BY <1>1, <3>1, <3>2
  <2> HIDE DEF inside, T
  <2>4. {t \in T : b <= t} = {b} \cup inside
    <3>1. b \in T /\ b <= b
      BY <1>8, <1>9
    <3> QED BY <2>2, <2>3, <3>1
  <2> HIDE DEF series
  <2> QED BY <2>1, <2>4
<1>12. T \subseteq Instants
  BY <1>2 DEF ShownTo
<1>13. Gains({t \in T : t <= b}) = Gains(P) + Midnight(d) /\ Midnight(d) \in Int
  <2> HIDE DEF P, T
  <2>1. \A t \in T : t \in Nat /\ t \in Instants
    BY <1>12, Period
  <2>2. CASE FirstOf(d) \notin W
    <3>1. b <= LastOf(k)
      BY <1>1, <1>8, <2>2
    <3>2. \A t \in T : t <= LastOf(k) => t <= b
      <4> SUFFICES ASSUME NEW t \in T, t <= LastOf(k) PROVE t <= b
        OBVIOUS
      <4>1. t \in W
        BY <1>2 DEF T, ShownTo
      <4>2. t <= FirstOf(d)
        BY <1>1, <2>1
      <4> QED BY <1>6, <4>1, <4>2
    <3>3. {t \in T : t <= b} = P
      <4>1. \A t \in T : t <= b => t <= LastOf(k)
        BY <1>1, <1>8, <2>1, <3>1
      <4> QED BY <1>10, <3>2, <4>1
    <3>4. Midnight(d) = 0
      BY <1>3, <2>2 DEF Midnight
    <3>5. Gains(P) \in Int
      BY <1>10, GainsIsInt
    <3> QED BY <3>3, <3>4, <3>5
  <2>3. CASE FirstOf(d) \in W
    <3>1. b = FirstOf(d)
      <4>1. FirstOf(d) \in baselines
        BY <1>1, <2>3
      <4> QED BY <1>1, <1>6, <1>8, <4>1
    <3>2. \A t \in P : t < b
      BY <1>1, <1>10, <2>1, <3>1
    <3>3. {t \in T : t <= b} = P \cup {b}
      <4>1. \A t \in T : t <= b => t = b \/ t <= LastOf(k)
        BY <1>1, <2>1, <3>1
      <4>2. \A t \in P : t <= b
        BY <1>8, <1>10, <2>1, <3>2
      <4>3. b <= b
        BY <1>8
      <4> QED BY <1>9, <1>10, <4>1, <4>2, <4>3
    <3> DEFINE m == Max(P)
    <3>4. m \in P /\ \A t \in P : t <= m
      BY <1>10, LastIsIn
    <3> HIDE DEF m
    <3>5. Gains(P \cup {b}) = Gains(P) + Gain(captured[m], captured[b])
      <4>1. b \in Instants
        BY <1>9, <1>12
      <4> QED BY <1>10, <3>2, <4>1, GainsStep DEF m
    <3>6. Max(Before(Known, b)) = m
      <4>1. m \in Before(Known, b) /\ Before(Known, b) \subseteq Instants
        <5>1. m \in Known
          BY <1>2, <3>4 DEF P, ShownTo
        <5> QED BY <3>2, <3>4, <5>1, ShownAre DEF Before
      <4>2. \A t \in Before(Known, b) : t <= m
        <5> SUFFICES ASSUME NEW t \in Before(Known, b), ~(t <= m) PROVE FALSE
          OBVIOUS
        <5>1. t \in Known /\ t \in Nat /\ t < b /\ (t >= Start => t \in Shown)
          BY <1>2, ShownAre DEF Before
        <5>2. e <= m /\ e >= Start /\ e \in Nat /\ m \in Nat
          BY <1>1, <1>2, <1>4, <1>10, <2>1, <3>4
        <5>3. t \in Shown /\ t <= LastOf(k)
          BY <1>1, <3>1, <5>1, <5>2
        <5>4. t \in P
          BY <5>3 DEF P, ShownTo
        <5> QED BY <3>4, <5>4
      <4> QED BY <4>1, <4>2, LastIs
    <3>7. Midnight(d) = Gain(captured[m], captured[b])
      BY <1>1, <1>3, <2>3, <3>1, <3>6 DEF Midnight
    <3>8. Midnight(d) \in Int
      <4>1. captured[m] \in Int /\ captured[b] \in Int
        BY <1>9, <1>10, <1>12, <3>4, CountsAreInt
      <4> QED BY <3>7, <4>1 DEF Gain
    <3> QED BY <3>3, <3>5, <3>7, <3>8
  <2> QED BY <2>2, <2>3
<1>14. Gains(T) = Gains({t \in T : t <= b}) + Gains({t \in T : b <= t})
  <2> HIDE DEF T
  <2> QED BY <1>9, <1>12, GainsSplit
<1>15. Gains(series) \in Int
  <2>1. series \subseteq Instants
    BY <1>11, <1>12
  <2> HIDE DEF series
  <2> QED BY <2>1, GainsIsInt
<1>16. Gains(P) \in Int
  BY <1>10, GainsIsInt
<1> HIDE DEF series, T, P
<1>17. Daily(d) \in Int /\ Gains(T) = Gains(P) + Midnight(d) + Daily(d)
  BY <1>7, <1>11, <1>13, <1>14, <1>15, <1>16
<1> QED BY <1>13, <1>17 DEF d, T, P

LEMMA RowsAreInt ==
  ASSUME MSTypeOK, AllDaysShown
  PROVE  Initial \in Int /\ \A k \in Days : Daily(k) \in Int /\ Midnight(k) \in Int
<1>1. 1 \in Days
  BY PeriodAssumption DEF Days
<1>2. Initial \in Int /\ Daily(1) \in Int
  <2>1. Shown \subseteq Instants /\ ShownTo(1) \subseteq Instants
    BY ShownAre DEF ShownTo
  <2>2. Initial \in Int
    <3>1. CASE Held = {}
      <4>1. Shown # {}
        BY <1>1, <3>1, DayShows DEF Shown
      <4>2. Min(Shown) \in Instants
        BY <2>1, <4>1, FirstIsIn
      <4> QED BY <3>1, <4>2, CountsAreInt DEF Initial
    <3>2. CASE Held # {}
      BY <3>2 DEF Initial
    <3> QED BY <3>1, <3>2
  <2> QED BY <2>1, <2>2, FirstDay, GainsIsInt
<1>3. ASSUME NEW k \in Days PROVE Daily(k) \in Int /\ Midnight(k) \in Int
  <2>1. CASE k = 1
    BY <1>2, <2>1 DEF Midnight
  <2>2. CASE k # 1
    <3>1. k - 1 \in Days /\ (k - 1) + 1 = k
      BY <2>2, DayIs
    <3> QED BY <3>1, NextDay
  <2> QED BY <2>1, <2>2
<1> QED BY <1>2, <1>3

LEMMA DaysSum ==
  ASSUME MSTypeOK, AllDaysShown
  PROVE  MapThenSumSet(Daily, Days) + Sum([d \in Days |-> Midnight(d)], Days) = Initial + Gains(ShownTo(DayCount))
<1> DEFINE F == [d \in Days |-> Daily(d)]
           M == [d \in Days |-> Midnight(d)]
           bad == {k \in Days : Sum(F, 1..k) + Sum(M, 1..k) # Initial + Gains(ShownTo(k))}
           C == {1..k : k \in bad}
<1>1. DayCount \in Nat /\ DayCount \in Days /\ 1 \in Days /\ Days = 1..DayCount
  BY PeriodAssumption DEF Days
<1>2. \A k \in Days : IsFiniteSet(1..k) /\ k \in Nat
  <2> SUFFICES ASSUME NEW k \in Days PROVE IsFiniteSet(1..k) /\ k \in Nat
    OBVIOUS
  <2>1. k \in Nat /\ k \in Int /\ 1 \in Int
    BY DEF Days
  <2> QED BY <2>1, FS_Interval
<1>3. Initial \in Int /\ Daily(1) \in Int
  BY <1>1, RowsAreInt
<1>4. \A k \in Days : F[k] = Daily(k) /\ F[k] \in Int /\ M[k] = Midnight(k) /\ M[k] \in Int
  BY RowsAreInt
<1> HIDE DEF F, M
<1>5. bad = {}
  <2> SUFFICES ASSUME bad # {} PROVE FALSE
    OBVIOUS
  <2>1. C \subseteq SUBSET Days /\ C # {}
    <3>1. \A k \in Days : 1..k \subseteq Days
      BY <1>1
    <3> QED BY <3>1
  <2>2. IsFiniteSet(Days)
    BY <1>1, <1>2
  <2>3. PICK m \in C : \A n \in C : n \subseteq m => n = m
    <3> HIDE DEF C
    <3> QED BY <2>1, <2>2, Smallest
  <2>4. PICK k \in bad : m = 1..k
    OBVIOUS
  <2>5. k \in Days /\ k \in Nat /\ Sum(F, 1..k) + Sum(M, 1..k) # Initial + Gains(ShownTo(k))
    BY <1>2
  <2>6. CASE k = 1
    <3>1. 1..k = {1}
      BY <2>6
    <3>2. Sum(F, 1..k) = Daily(1) /\ Sum(M, 1..k) = 0
      <4>1. M[1] = 0
        BY <1>1, <1>4 DEF Midnight
      <4>2. F[1] \in Int /\ M[1] \in Int /\ F[1] = Daily(1)
        BY <1>1, <1>4
      <4>3. Sum(F, {1}) = F[1] /\ Sum(M, {1}) = M[1]
        BY <4>2, SumOfOne
      <4> QED BY <3>1, <4>1, <4>2, <4>3
    <3> QED BY <1>3, <2>5, <2>6, <3>2, FirstDay
  <2>7. CASE k # 1
    <3>1. k - 1 \in Days /\ k - 1 \in Nat /\ (k - 1) + 1 = k
      BY <2>5, <2>7, DayIs
    <3>2. 1..k - 1 \subseteq 1..k /\ 1..k - 1 # 1..k /\ 1..k \ {k} = 1..k - 1 /\ k \in 1..k
      BY <2>5, <3>1, <1>1
    <3>3. k - 1 \notin bad
      BY <2>3, <2>4, <3>2
    <3>4. Sum(F, 1..k - 1) + Sum(M, 1..k - 1) = Initial + Gains(ShownTo(k - 1))
      BY <3>1, <3>3
    <3>5. 1..k \subseteq Days /\ IsFiniteSet(1..k)
      BY <1>1, <1>2, <2>5
    <3>6. /\ Sum(F, 1..k) = F[k] + Sum(F, 1..k - 1) /\ Sum(M, 1..k) = M[k] + Sum(M, 1..k - 1)
          /\ Sum(F, 1..k - 1) \in Int /\ Sum(M, 1..k - 1) \in Int
      <4>1. \A x \in 1..k : F[x] \in Int /\ M[x] \in Int
        BY <1>4, <3>5
      <4>2. Sum(F, 1..k) = F[k] + Sum(F, 1..k \ {k}) /\ Sum(M, 1..k) = M[k] + Sum(M, 1..k \ {k})
        BY <3>2, <3>5, <4>1, SumWithout
      <4>3. IsFiniteSet(1..k - 1)
        BY <1>2, <3>1
      <4>4. Sum(F, 1..k - 1) \in Int /\ Sum(M, 1..k - 1) \in Int
        BY <3>2, <4>1, <4>3, SumIsInt
      <4> QED BY <3>2, <4>2, <4>4
    <3>7. /\ Gains(ShownTo(k)) = Gains(ShownTo(k - 1)) + Midnight(k) + Daily(k)
          /\ Daily(k) \in Int /\ Midnight(k) \in Int
      BY <2>5, <3>1, NextDay
    <3>8. Gains(ShownTo(k - 1)) \in Int
      <4>1. ShownTo(k - 1) \subseteq Instants
        BY ShownAre DEF ShownTo
      <4> QED BY <4>1, GainsIsInt
    <3>9. F[k] = Daily(k) /\ M[k] = Midnight(k)
      BY <1>4, <2>5
    <3> DEFINE sf == Sum(F, 1..k - 1)
               sm == Sum(M, 1..k - 1)
               g == Gains(ShownTo(k - 1))
    <3>10. /\ sf \in Int /\ sm \in Int /\ g \in Int /\ Initial \in Int /\ sf + sm = Initial + g
           /\ Sum(F, 1..k) = Daily(k) + sf /\ Sum(M, 1..k) = Midnight(k) + sm
           /\ Gains(ShownTo(k)) = g + Midnight(k) + Daily(k)
      BY <1>3, <3>4, <3>6, <3>7, <3>8, <3>9
    <3> HIDE DEF sf, sm, g
    <3> DEFINE day == Daily(k)
               mid == Midnight(k)
    <3>11. day \in Int /\ mid \in Int
      BY <3>7
    <3>12. Sum(F, 1..k) + Sum(M, 1..k) = (day + sf) + (mid + sm) /\ Gains(ShownTo(k)) = g + mid + day
      BY <3>10
    <3> HIDE DEF day, mid
    <3>13. (day + sf) + (mid + sm) = Initial + (g + mid + day)
      BY <3>10, <3>11
    <3> QED BY <2>5, <3>12, <3>13
  <2> QED BY <2>6, <2>7
<1>6. Sum(F, Days) + Sum(M, Days) = Initial + Gains(ShownTo(DayCount))
  BY <1>1, <1>5
<1>7. MapThenSumSet(Daily, Days) = Sum(F, Days)
  BY <1>1, <1>2, DailyIsSum DEF F
<1> QED BY <1>6, <1>7 DEF M

LEMMA CardShows ==
  ASSUME MSTypeOK, AllDaysShown
  PROVE  Card = Initial + Gains(ShownTo(DayCount))
<1> DEFINE W == Evident(Whole)
           inside == {t \in W : Start < t /\ t <= End}
           ends == {t \in W : Start <= t /\ t <= End}
           series == {Max(Held)} \cup inside
<1>1. Start \in Nat /\ End \in Nat /\ Start <= End /\ End = LastOf(DayCount)
  BY Period
<1>2. /\ ~(Whole.from > Start) /\ ~(Whole.to <= End) /\ Since(Whole, Start) = Start /\ Till(Whole, End) = End
      /\ Baselines(Whole, Start, End) = Held /\ Ends(Whole, Start, End) = ends /\ Inside(Whole, Start, End) = inside
  BY <1>1, SpanIs DEF AllDaysShown, Held
<1>3. Series(Whole, Start, End) = series
  BY <1>2 DEF Series
<1>4. Card = SegmentDelta(Whole, Start, End)
  BY ValueIsDelta DEF Card, AllDaysShown
<1>5. /\ Shown \subseteq W /\ W \subseteq Instants /\ \A t \in W : t \in Nat /\ t <= End /\ t \in Known
  BY ShownAre
<1>6. 1 \in Days /\ FirstOf(1) = Start /\ LastOf(1) \in Nat /\ LastOf(1) <= End
  <2>1. 1 \in Days
    BY PeriodAssumption DEF Days
  <2> QED BY <2>1, DayIs DEF Start
<1>7. ends # {}
  <2>1. PICK e \in W : FirstOf(1) <= e /\ e <= LastOf(1)
    BY <1>6, DayShows
  <2>2. e \in ends
    BY <1>5, <1>6, <2>1
  <2> QED BY <2>2
<1>8. \A t \in inside : Usable(t)
  <2> SUFFICES ASSUME NEW t \in inside PROVE Usable(t)
    OBVIOUS
  <2>1. t \in Instants /\ t \in Nat /\ t > Start /\ t \in Known
    BY <1>1, <1>5
  <2>2. PICK d \in Days : FirstOf(d) <= t /\ t <= LastOf(d)
    BY <1>1, <2>1, DayOfInstant
  <2>3. FirstOf(d) \in Nat /\ LastOf(d) \in Nat /\ t \in W
    BY DayIs
  <2>4. CASE t = FirstOf(d)
    <3> DEFINE baselines == {u \in W : u <= FirstOf(d)}
    <3>1. t \in baselines /\ baselines \subseteq Instants /\ \A u \in baselines : u <= t
      BY <1>5, <2>3, <2>4
    <3>2. Max(baselines) = t
      <4> HIDE DEF baselines
      <4> QED BY <3>1, LastIs
    <3> QED BY <3>1, <3>2, DayShows
  <2>5. CASE t # FirstOf(d)
    <3>1. t \in {u \in W : FirstOf(d) < u /\ u <= LastOf(d)}
      BY <2>1, <2>2, <2>3, <2>5
    <3> QED BY <3>1, DayShows
  <2> QED BY <2>4, <2>5
<1>9. Held = {t \in W : t <= FirstOf(1)}
  BY <1>6 DEF Held
<1>10. ShownTo(DayCount) = Shown
  BY <1>1, <1>5 DEF ShownTo
<1>11. CASE Held = {}
  <2>1. Shown = inside /\ inside # {}
    <3>1. \A t \in W : t > Start
      BY <1>11, ShownAre DEF Shown
    <3> QED BY <1>1, <1>5, <1>7, <1>11, <3>1 DEF Shown
  <2>2. Start <= published /\ published <= LastOf(1)
    BY <1>6, <1>9, <1>11, DayShows
  <2>3. ~(published < Start) /\ ~(published > End)
    <3>1. published \in Nat
      BY Period DEF MSTypeOK
    <3> QED BY <1>1, <1>6, <2>2, <3>1
  <2> HIDE DEF inside, ends
  <2>4. Card = FromZero(inside)
    BY <1>2, <1>4, <1>7, <1>8, <1>11, <2>3, DeltaFromZero
  <2> QED BY <1>10, <1>11, <2>1, <2>4 DEF FromZero, Initial
<1>12. CASE Held # {}
  <2> DEFINE first == {Max(Held)} \cup {t \in W : FirstOf(1) < t /\ t <= LastOf(1)}
  <2>1. Cardinality(first) >= 2 /\ \A t \in first : Usable(t)
    BY <1>6, <1>9, <1>12, DayShows
  <2>2. Shown = series
    <3>1. Max(Held) \in Shown /\ \A t \in Shown : t = Max(Held) \/ t > Start
      BY <1>12, ShownAre
    <3>2. \A t \in inside : t \in Shown
      BY <1>1, ShownAre
    <3>3. \A t \in Shown : t > Start => t \in inside
      BY <1>5
    <3> HIDE DEF inside
    <3> QED BY <3>1, <3>2, <3>3
  <2>3. first \subseteq Shown
    <3>1. \A t \in W : FirstOf(1) < t => t \in Shown
      BY <1>1, <1>5, <1>6, ShownAre
    <3>2. Max(Held) \in Shown
      BY <1>12, ShownAre
    <3> QED BY <3>1, <3>2
  <2>4. ~(Cardinality(Shown) < 2)
    <3>1. IsFiniteSet(Shown)
      BY <1>5, Period, FS_Subset
    <3> HIDE DEF first
    <3>2. Cardinality(first) <= Cardinality(Shown) /\ IsFiniteSet(first)
      BY <2>3, <3>1, FS_Subset
    <3>3. Cardinality(first) \in Nat /\ Cardinality(Shown) \in Nat
      BY <3>1, <3>2, FS_CardinalityType
    <3> QED BY <2>1, <3>2, <3>3
  <2>5. \A t \in series : Usable(t)
    BY <1>8, <2>1
  <2>6. Gains(Shown) \in Int
    <3>1. Shown \subseteq Instants
      BY <1>5
    <3> QED BY <3>1, GainsIsInt
  <2> HIDE DEF series, ends, inside
  <2>7. Card = Aggregate(series)
    BY <1>2, <1>3, <1>4, <1>7, <1>12, <2>5, DeltaFromBaseline
  <2> QED BY <1>10, <1>12, <2>2, <2>4, <2>6, <2>7 DEF Aggregate, Initial
<1> QED BY <1>11, <1>12

LEMMA DaysMissMidnightsHere ==
  ASSUME MSTypeOK
  PROVE  DaysMissMidnights
BY DaysSum, CardShows DEF DaysMissMidnights, AllDaysShown

\* The daily rows and the growth at the midnights add up to the card, whatever the
\* lengths of the period and of its days and whatever is captured at a midnight.
THEOREM DaysMissOnlyMidnights == MSSpec => []DaysMissMidnights
BY MSTyped, DaysMissMidnightsHere, PTL

LEMMA DaysAddUpHere ==
  ASSUME MSTypeOK
  PROVE  DaysAddUp
<1> SUFFICES ASSUME AllDaysShown, \A d \in Days \ {1} : captured[FirstOf(d)] = Absent
             PROVE  Card = MapThenSumSet(Daily, Days)
  BY DEF DaysAddUp, AllDaysShown
<1> DEFINE M == [d \in Days |-> Midnight(d)]
<1>1. \A d \in Days : M[d] = 0
  BY DEF Midnight, Known
<1>2. IsFiniteSet(Days)
  <2>1. 1 \in Int /\ DayCount \in Int
    BY PeriodAssumption
  <2> QED BY <2>1, FS_Interval DEF Days
<1>3. Sum(M, Days) = 0
  <2> HIDE DEF M
  <2> QED BY <1>1, <1>2, SumOfZeros
<1>4. Card = MapThenSumSet(Daily, Days) + 0
  BY <1>3, DaysMissMidnightsHere DEF DaysMissMidnights, AllDaysShown
<1>5. MapThenSumSet(Daily, Days) \in Int
  <2> DEFINE F == [d \in Days |-> Daily(d)]
  <2>1. \A d \in Days : F[d] \in Int
    BY RowsAreInt
  <2>2. Sum(F, Days) \in Int
    <3> HIDE DEF F
    <3> QED BY <1>2, <2>1, SumIsInt
  <2> QED BY <1>2, <2>2, DailyIsSum
<1> QED BY <1>4, <1>5

\* The daily rows add up to the card, whatever the lengths of the period and of its days.
THEOREM DaysAddUpAlways == MSSpec => []DaysAddUp
BY MSTyped, DaysAddUpHere, PTL

---------------------------------------------------------------------------
(* The trend.                                                               *)

LEMMA DayOfIs ==
  ASSUME NEW t \in Nat, NEW d \in Nat
  PROVE  DayOf(t) = d <=> FirstOf(d) <= t /\ t <= LastOf(d)
<1> DEFINE q == t \div PerDay
<1>1. PerDay \in Nat /\ PerDay > 0
  BY PeriodAssumption
<1>2. q \in Nat /\ q * PerDay <= t /\ t < q * PerDay + PerDay
  BY <1>1
<1> HIDE DEF q
<1>3. \A e \in Nat : FirstOf(e) \in Nat /\ LastOf(e) = FirstOf(e) + PerDay - 1 /\ FirstOf(e + 1) = FirstOf(e) + PerDay
  BY DayAfterDay
<1>4. FirstOf(q) <= t /\ t < FirstOf(q) + PerDay
  BY <1>2 DEF FirstOf
<1>5. CASE q = d
  BY <1>1, <1>3, <1>4, <1>5 DEF DayOf, q
<1>6. CASE q < d
  <2>1. q + 1 \in Nat /\ q + 1 <= d
    BY <1>2, <1>6
  <2>2. FirstOf(q + 1) <= FirstOf(d)
    BY <2>1, DaysInOrder
  <2>3. t < FirstOf(d)
    BY <1>1, <1>2, <1>3, <1>4, <2>2
  <2>4. DayOf(t) # d
    BY <1>2, <1>6 DEF DayOf, q
  <2> QED BY <1>3, <2>3, <2>4
<1>7. CASE q > d
  <2>1. d + 1 \in Nat /\ d + 1 <= q
    BY <1>2, <1>7
  <2>2. FirstOf(d + 1) <= FirstOf(q)
    BY <1>2, <2>1, DaysInOrder
  <2>3. t > LastOf(d)
    BY <1>1, <1>2, <1>3, <1>4, <2>2
  <2>4. DayOf(t) # d
    BY <1>2, <1>7 DEF DayOf, q
  <2>5. LastOf(d) \in Nat
    BY DayAfterDay
  <2> QED BY <2>3, <2>4, <2>5
<1> QED BY <1>2, <1>5, <1>6, <1>7

\* The card and the trend of a day after which nothing of the period was captured.
TrendEndsWhole == cut > End /\ TrendDays # {} => Trend(Max(TrendDays)) = Card

LEMMA TrendEndsHere ==
  ASSUME MSTypeOK
  PROVE  TrendEndsWhole
<1> SUFFICES ASSUME cut > End, TrendDays # {} PROVE Trend(Max(TrendDays)) = Card
  BY DEF TrendEndsWhole
<1> DEFINE W == Evident(Whole)
           d == Max(TrendDays)
<1>1. /\ Segments = {Whole} /\ Snapshots(Whole) = Known
      /\ \A cutoff \in Nat : cutoff <= End => Till(Whole, cutoff) = cutoff
  BY OneDefinition
<1>2. /\ W \subseteq Known /\ \A t \in Known : t \in Nat /\ t <= End /\ t \in Instants
      /\ \A t \in Known : t >= Start => t \in W
  BY <1>1, EvidentAre
<1>3. TrendDays = {e \in Days : \E t \in Known : FirstOf(e) <= t /\ t <= LastOf(e)}
  <2>1. \A e \in Days, t \in Known : DayOf(t) = e <=> FirstOf(e) <= t /\ t <= LastOf(e)
    BY <1>2, DayIs, DayOfIs
  <2> QED BY <1>1, <2>1 DEF TrendDays
<1>4. d \in TrendDays /\ \A e \in TrendDays : e <= d
  <2>1. DayCount \in Int /\ 1 \in Int
    BY PeriodAssumption
  <2>2. IsFiniteSet(Days) /\ TrendDays \subseteq Days
    BY <1>3, <2>1, FS_Interval DEF Days
  <2>3. IsFiniteSet(TrendDays) /\ \A e \in TrendDays : e \in Nat
    BY <2>2, DayIs, FS_Subset
  <2> QED BY <2>3, GreatestIsIn
<1> HIDE DEF d
<1>5. /\ d \in Days /\ d \in Nat /\ LastOf(d) \in Nat /\ FirstOf(d) \in Nat /\ LastOf(d) <= End
      /\ Start <= LastOf(d) /\ Start \in Nat /\ End \in Nat /\ Start <= End
  <2>1. d \in Days
    BY <1>3, <1>4
  <2>2. Start <= FirstOf(d) /\ FirstOf(d) <= LastOf(d) /\ LastOf(d) \in Nat /\ FirstOf(d) \in Nat /\ LastOf(d) <= End /\ d \in Nat
    BY <2>1, DayIs
  <2> QED BY <2>1, <2>2, Period
<1>6. \A t \in Known : t <= LastOf(d)
  <2> SUFFICES ASSUME NEW t \in Known, ~(t <= LastOf(d)) PROVE FALSE
    OBVIOUS
  <2>1. t \in Nat /\ t \in Instants /\ t >= Start
    BY <1>2, <1>5
  <2>2. PICK e \in Days : FirstOf(e) <= t /\ t <= LastOf(e)
    BY <2>1, DayOfInstant
  <2>3. e \in Nat /\ e <= d /\ LastOf(e) \in Nat
    BY <1>3, <1>4, <2>2, DayIs
  <2>4. LastOf(e) <= LastOf(d)
    BY <1>5, <2>3, DaysInOrder
  <2> QED BY <1>5, <2>1, <2>2, <2>3, <2>4
<1> DEFINE from == Since(Whole, Start)
           c == LastOf(d)
<1>7. \A cutoff \in {c, End} :
        /\ Till(Whole, cutoff) = cutoff /\ ~(Whole.to <= cutoff)
        /\ Items(Whole, cutoff) = W
        /\ Ends(Whole, Start, cutoff) = {t \in W : from <= t}
  <2> SUFFICES ASSUME NEW cutoff \in {c, End}
               PROVE  /\ Till(Whole, cutoff) = cutoff /\ ~(Whole.to <= cutoff)
                      /\ Items(Whole, cutoff) = W
                      /\ Ends(Whole, Start, cutoff) = {t \in W : from <= t}
    OBVIOUS
  <2>1. cutoff \in Nat /\ cutoff <= End /\ \A t \in W : t <= cutoff
    BY <1>2, <1>5, <1>6
  <2>2. Till(Whole, cutoff) = cutoff
    BY <1>1, <2>1
  <2>3. ~(Whole.to <= cutoff)
    BY <1>5, <2>1, Period DEF Whole
  <2>4. Items(Whole, cutoff) = W
    BY <2>1 DEF Items
  <2> QED BY <2>1, <2>2, <2>3, <2>4 DEF Ends
<1> HIDE DEF c
<1>8. /\ Ends(Whole, Start, c) = Ends(Whole, Start, End)
      /\ Baselines(Whole, Start, c) = Baselines(Whole, Start, End)
      /\ Inside(Whole, Start, c) = Inside(Whole, Start, End)
      /\ Series(Whole, Start, c) = Series(Whole, Start, End)
  <2>1. Ends(Whole, Start, c) = Ends(Whole, Start, End) /\ Baselines(Whole, Start, c) = Baselines(Whole, Start, End)
    BY <1>7 DEF Baselines
  <2>2. Inside(Whole, Start, c) = Inside(Whole, Start, End)
    BY <2>1 DEF Inside
  <2> QED BY <2>1, <2>2 DEF Series
<1>9. ASSUME Ends(Whole, Start, End) # {} PROVE published > c <=> published > End
  <2>1. PICK t \in W : TRUE
    BY <1>7, <1>9
  <2>2. t \in Nat /\ t <= c /\ c <= End /\ published <= t /\ published \in Nat /\ c \in Nat
    <3>1. t \in Instants /\ captured[t] # Absent /\ t \in Known
      BY <1>2, <2>1 DEF Known
    <3>2. t >= published /\ published \in Nat
      BY <3>1, Period DEF MSTypeOK
    <3> QED BY <1>2, <1>5, <1>6, <3>1, <3>2 DEF c
  <2> QED BY <1>5, <2>2
<1>10. SegmentDelta(Whole, Start, c) = SegmentDelta(Whole, Start, End)
  <2>1. CASE Ends(Whole, Start, End) = {}
    BY <1>8, <2>1, DeltaOfNothing
  <2>2. CASE Ends(Whole, Start, End) # {} /\ Baselines(Whole, Start, End) = {}
    BY <1>7, <1>8, <1>9, <2>2, DeltaFromZero
  <2>3. CASE Ends(Whole, Start, End) # {} /\ Baselines(Whole, Start, End) # {}
    BY <1>7, <1>8, <2>3, DeltaFromBaseline
  <2> QED BY <2>1, <2>2, <2>3
<1>11. Trend(d) = SegmentDelta(Whole, Start, c) /\ Card = SegmentDelta(Whole, Start, End)
  BY ValueIsDelta DEF Trend, Card, c
<1> QED BY <1>10, <1>11 DEF d

\* Under one definition the trend ends with the card: TrendEndsAtCard fails only
\* where a definition ends in the period.
THEOREM TrendEndsAtTheCard == MSSpec => []TrendEndsWhole
BY MSTyped, TrendEndsHere, PTL
=============================================================================
