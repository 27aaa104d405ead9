--------------------------- MODULE MetricEvidence ---------------------------
(***************************************************************************)
(* How observed metrics become evidence: metric definitions with their     *)
(* effective intervals and append-only snapshot revisions, written by sync *)
(* jobs under advisory locks (sync.repository.ts, saveMetrics), by the     *)
(* collectors' imports without locks (platform-collection.ts) and, line by *)
(* line, by the import command (self-scrape-import.service.ts).  A step is *)
(* one statement of a transaction; what is not committed is seen by its    *)
(* writer only, and rows written by one transaction block the others.      *)
(***************************************************************************)
EXTENDS Integers, Sequences, SequencesExt

CONSTANTS
  Savers,      \* sync jobs saving metrics of one note
  Collectors,  \* imports of a finished collection
  Cli,         \* the import command
  PlatformOf,  \* the platform every writer writes for
  Keys,        \* metric keys in the order of the code
  Horizon,     \* bound: capture times are 1..Horizon, the epoch is 0
  Values,      \* observed values
  Versions,    \* aggregation versions the connector may announce
  Saves,       \* sequences of [at, val] a sync job may save at once
  Files,       \* inputs of the import command: sequences of lines
  MaxTx,       \* bound: transactions begun
  MaxFaults    \* bound: transactions lost to a crash or a failing call

Imports == Collectors \cup {Cli}
Writers == Savers \cup Imports
Times == 1..Horizon
Forever == Horizon + 1
Source(w) == IF w \in Savers THEN "official" ELSE "self-scrape"
ImportVersion == "jsonl-v1"
AllKeys == {Keys[i] : i \in DOMAIN Keys}

Platforms == {PlatformOf[w] : w \in Writers}
Sources == {"official", "self-scrape"}

Definitions == [platform : Platforms, key : AllKeys, source : Sources, version : Versions \cup {ImportVersion},
                from : 0..Horizon, to : 1..Forever]
Identities == [platform : Platforms, key : AllKeys, source : Sources, version : Versions \cup {ImportVersion}, at : Times]
Observations == [at : Times, val : Values]
Locks == ({"definition"} \X (AllKeys \X Sources)) \cup ({"row"} \X Identities)

ASSUME WriterAssumption == Savers \cap Imports = {} /\ Cli \notin Collectors
ASSUME KeyAssumption == Keys \in Seq(AllKeys) /\ Len(Keys) > 0 /\ IsInjective(Keys)
ASSUME SaveAssumption == Saves \subseteq Seq(Observations) /\ <<>> \notin Saves
ASSUME FileAssumption == Files \subseteq Seq([kind : {"valid", "invalid", "fatal"}, at : Times, val : Values])
ASSUME BoundAssumption == Horizon \in Nat \ {0} /\ MaxTx \in Nat /\ MaxFaults \in Nat

VARIABLES
  defs,    \* MetricDefinition rows
  rows,    \* MetricSnapshot rows: the revisions of every identity, the last one active
  tx,      \* the transaction of every writer
  fate,    \* how the last transaction of every writer ended
  events,  \* BackfillEvent rows of the imports
  built,   \* the import evidence of a date its reports were last built from
  command, \* the run of the import command and its audit entries
  begun, faults

vars == <<defs, rows, tx, fate, events, built, command, begun, faults>>

NoTx == [pc |-> "idle", run |-> 0, version |-> ImportVersion, obs |-> <<>>, order |-> <<>>, k |-> 1, m |-> 1,
         seen |-> 0, locks |-> {}, shut |-> {}, add |-> {}, cut |-> {},
         puts |-> [id \in Identities |-> <<>>]]
NoRun == [st |-> "idle", file |-> <<>>, line |-> 1, wrote |-> FALSE, audit |-> "none"]

Transactions == [pc : {"idle", "define", "create", "read", "write", "commit"}, run : 0..MaxTx,
                 version : Versions \cup {ImportVersion}, obs : Seq(Observations), order : Seq(AllKeys),
                 k : Nat, m : Nat, seen : Nat, locks : SUBSET Locks, shut : SUBSET Definitions,
                 add : SUBSET Definitions, cut : SUBSET Definitions, puts : [Identities -> Seq(Values)]]

Commands == [st : {"idle", "lines", "over"}, file : Files \cup {<<>>}, line : Nat \ {0}, wrote : BOOLEAN,
             audit : {"none", "started", "succeeded", "failed"}]

TypeOK ==
  /\ defs \subseteq Definitions
  /\ rows \in [Identities -> Seq(Values)]
  /\ tx \in [Writers -> Transactions] /\ \A w \in Writers : tx[w].cut \subseteq defs
  /\ fate \in [Writers -> {"none", "committed", "rejected", "definition", "conflict", "deadlock", "lost"}]
  /\ command \in Commands
  /\ begun \in 0..MaxTx /\ faults \in 0..MaxFaults

---------------------------------------------------------------------------
(* What a writer sees: committed rows and its own.                         *)

Key(w) == tx[w].order[tx[w].k]
Observed(w) == tx[w].obs[tx[w].m]
View(w) == (defs \ tx[w].cut) \cup tx[w].add
DefinitionOf(w) == {d \in View(w) : d.platform = PlatformOf[w] /\ d.key = Key(w) /\ d.source = Source(w) /\ d.version = tx[w].version}
Identity(w) == [platform |-> PlatformOf[w], key |-> Key(w), source |-> Source(w), version |-> tx[w].version, at |-> Observed(w).at]
Chain(w, id) == rows[id] \o tx[w].puts[id]
Written(w) == {id \in Identities : tx[w].puts[id] # <<>>}

\* MetricDefinition_no_effective_overlap: the platform is not part of it.
Overlap(d, e) == d.key = e.key /\ d.source = e.source /\ d.from < e.to /\ e.from < d.to

Others(w) == Writers \ {w}
\* Mutant: the lock names the version, so two versions are created side by side.
VersionLock(w) == <<"definition", <<Key(w), Source(w), tx[w].version>>>>
KeyLock(w) == <<"definition", <<Key(w), Source(w)>>>>
RowLock(w) == <<"row", Identity(w)>>
HoldersOfLock(w, name) == {v \in Others(w) : name \in tx[v].locks}
HoldersOfRow(w, id) == {v \in Others(w) : id \in Written(v)}
HoldersOfInterval(w, d) == {v \in Others(w) : \E e \in tx[v].add : Overlap(d, e)}

\* Mutant: the exclusive end of the window for its last instant.
NewFromEnd(w) == [platform |-> PlatformOf[w], key |-> Key(w), source |-> Source(w), version |-> tx[w].version, to |-> Forever,
                  from |-> IF w \in Savers THEN Observed(w).at + 1 ELSE 0]

New(w) == [platform |-> PlatformOf[w], key |-> Key(w), source |-> Source(w), version |-> tx[w].version, to |-> Forever,
           from |-> IF w \in Savers THEN Min({tx[w].obs[i].at : i \in DOMAIN tx[w].obs}) ELSE 0]

\* The transactions w waits for at its next statement.
Blockers(w) ==
  CASE tx[w].pc = "define" -> IF w \in Savers THEN HoldersOfLock(w, KeyLock(w)) ELSE {}
    [] tx[w].pc = "create" -> HoldersOfInterval(w, New(w))
    [] tx[w].pc = "read" -> IF w \in Savers THEN HoldersOfLock(w, RowLock(w)) ELSE {}
    [] tx[w].pc = "write" -> HoldersOfRow(w, Identity(w))
    [] OTHER -> {}

Goto(w, t) == tx' = [tx EXCEPT ![w] = t]
Onward(t) == IF t.m < Len(t.obs) THEN [t EXCEPT !.m = @ + 1, !.pc = "read"]
             ELSE IF t.k < Len(t.order) THEN [t EXCEPT !.k = @ + 1, !.m = 1, !.pc = "define"]
             ELSE [t EXCEPT !.pc = "commit"]

\* Mutant: the command goes on with the next line.
FailAndGoOn(w, why) ==
  /\ Goto(w, NoTx) /\ fate' = [fate EXCEPT ![w] = why]
  /\ command' = IF w = Cli THEN [command EXCEPT !.line = @ + 1] ELSE command
  /\ UNCHANGED <<defs, rows, events, built, begun>>

Go(w, t) == Goto(w, t) /\ UNCHANGED <<defs, rows, fate, events, built, command, begun>>

\* A failed transaction leaves nothing; the import command ends with it.
Fail(w, why) ==
  /\ Goto(w, NoTx) /\ fate' = [fate EXCEPT ![w] = why]
  /\ command' = IF w = Cli THEN [command EXCEPT !.st = "over", !.audit = "failed"] ELSE command
  /\ UNCHANGED <<defs, rows, events, built, begun>>

\* What reports of a date are built from, of the imports' evidence.
ImportHeads(at) ==
  [k \in AllKeys |-> [p \in {PlatformOf[w] : w \in Imports} |->
     rows[[platform |-> p, key |-> k, source |-> "self-scrape", version |-> ImportVersion, at |-> at]]]]

Init ==
  /\ defs = {} /\ rows = [id \in Identities |-> <<>>]
  /\ tx = [w \in Writers |-> NoTx] /\ fate = [w \in Writers |-> "none"]
  /\ events = {} /\ built = [at \in Times |-> ImportHeads(at)]
  /\ command = NoRun /\ begun = 0 /\ faults = 0

---------------------------------------------------------------------------
Begin(w, version, obs, order) ==
  /\ tx[w].pc = "idle" /\ begun < MaxTx
  /\ begun' = begun + 1
  /\ Goto(w, [NoTx EXCEPT !.pc = "define", !.run = begun + 1, !.version = version, !.obs = obs, !.order = order])
  /\ UNCHANGED <<defs, rows, fate, events, built, command, faults>>

\* saveMetrics: all metrics of one note, the keys in the order of the code.
BeginSave(w) == \E version \in Versions, obs \in Saves : Begin(w, version, obs, Keys)

\* importPlatformCollection: one capture time, the metrics in the order of the input.
BeginImport(w) == \E order \in {Keys, Reverse(Keys)}, at \in Times, val \in Values :
                    Begin(w, ImportVersion, <<[at |-> at, val |-> val]>>, order)

\* commitRecord: one line of the file is one transaction.
BeginLine ==
  /\ command.st = "lines" /\ command.line <= Len(command.file)
  /\ LET line == command.file[command.line] IN
     /\ line.kind = "valid"
     /\ Begin(Cli, ImportVersion, <<[at |-> line.at, val |-> line.val]>>, Keys)

---------------------------------------------------------------------------
\* Mutant: no such check.
NeverBackward(w, open) == FALSE

\* 'metric definition transition must move forward'.
Backward(w, open) == \E d \in open : New(w).from <= d.from

\* Look the definition up, a sync job under its lock.
Define(w) ==
  /\ tx[w].pc = "define" /\ Blockers(w) = {}
  /\ LET open == {d \in View(w) : d.key = Key(w) /\ d.source = Source(w) /\ d.to = Forever}
         t == [tx[w] EXCEPT !.locks = IF w \in Savers THEN @ \cup {KeyLock(w)} ELSE @,
                            !.shut = IF w \in Savers THEN open ELSE {}]
     IN IF DefinitionOf(w) # {} THEN Go(w, [t EXCEPT !.pc = "read"])
        ELSE IF Backward(w, t.shut) THEN Fail(w, "rejected")
        ELSE Go(w, [t EXCEPT !.pc = "create"])
  /\ UNCHANGED faults

\* Create it; a new version of a sync job closes the one it found open.
Create(w) ==
  /\ tx[w].pc = "create" /\ Blockers(w) = {}
  /\ LET closed == {[d EXCEPT !.to = New(w).from] : d \in tx[w].shut}
         known == (View(w) \ tx[w].shut) \cup closed
     IN IF w \in Imports /\ DefinitionOf(w) # {} THEN Go(w, [tx[w] EXCEPT !.pc = "read"])
        ELSE IF \E d \in known : Overlap(d, New(w)) THEN Fail(w, "definition")
        ELSE Go(w, [tx[w] EXCEPT !.pc = "read", !.cut = @ \cup tx[w].shut, !.add = @ \cup closed \cup {New(w)}])
  /\ UNCHANGED faults

\* The active revision of the identity; the same observation is passed over.
Read(w) ==
  /\ tx[w].pc = "read" /\ Blockers(w) = {}
  /\ LET t == [tx[w] EXCEPT !.locks = IF w \in Savers THEN @ \cup {RowLock(w)} ELSE @, !.seen = Len(Chain(w, Identity(w)))]
         inside == \A d \in DefinitionOf(w) : d.from <= Observed(w).at /\ Observed(w).at < d.to
     IN IF w \in Savers /\ ~inside THEN Fail(w, "rejected")
        ELSE Go(w, IF t.seen > 0 /\ Last(Chain(w, Identity(w))) = Observed(w).val
                   THEN Onward(t) ELSE [t EXCEPT !.pc = "write"])
  /\ UNCHANGED faults

\* Mutant: the head is superseded whichever revision was read.
BlindWrite(w) ==
  /\ tx[w].pc = "write" /\ Blockers(w) = {}
  /\ Go(w, Onward([tx[w] EXCEPT !.puts[Identity(w)] = Append(@, Observed(w).val)]))
  /\ UNCHANGED faults

\* supersede_metric_snapshot and the insert of the next revision.
Write(w) ==
  /\ tx[w].pc = "write" /\ Blockers(w) = {}
  /\ IF Len(Chain(w, Identity(w))) # tx[w].seen THEN Fail(w, "conflict")
     ELSE Go(w, Onward([tx[w] EXCEPT !.puts[Identity(w)] = Append(@, Observed(w).val)]))
  /\ UNCHANGED faults

\* Mutant: a digest of the observation, as saveMetrics takes it.
EventDigest(w) == <<"line", tx[w].obs>>

\* The id of the outbox event of an import: its run, or the revisions the line wrote.
EventId(w) == IF w = Cli THEN <<"line", [id \in Written(w) |-> Len(rows[id]) + 1]>>
              ELSE <<"run", tx[w].run>>

AddEvent(w) ==
  LET new == [id |-> EventId(w), platform |-> PlatformOf[w], at |-> tx[w].obs[1].at, pending |-> TRUE] IN
  IF Written(w) = {} \/ \E e \in events : [e EXCEPT !.pending = TRUE] = new THEN events ELSE events \cup {new}

Commit(w) ==
  /\ tx[w].pc = "commit"
  /\ defs' = View(w)
  /\ rows' = [id \in Identities |-> Chain(w, id)]
  /\ events' = IF w \in Imports THEN AddEvent(w) ELSE events
  /\ command' = IF w = Cli THEN [command EXCEPT !.line = @ + 1, !.wrote = @ \/ Written(w) # {}] ELSE command
  /\ Goto(w, NoTx) /\ fate' = [fate EXCEPT ![w] = "committed"]
  /\ UNCHANGED <<built, begun, faults>>

\* PostgreSQL ends one of two transactions that wait for each other.
Deadlock(w) ==
  /\ \E v \in Blockers(w) : w \in Blockers(v)
  /\ Fail(w, "deadlock") /\ UNCHANGED faults

Lose(w) ==
  /\ tx[w].pc # "idle" /\ faults < MaxFaults
  /\ faults' = faults + 1 /\ Fail(w, "lost")

\* dispatchPending and the rebuild of the reports of the event's date.
Rebuild(e) ==
  /\ e.pending
  /\ events' = (events \ {e}) \cup {[e EXCEPT !.pending = FALSE]}
  /\ built' = [built EXCEPT ![e.at] = ImportHeads(e.at)]
  /\ UNCHANGED <<defs, rows, tx, fate, command, begun, faults>>

---------------------------------------------------------------------------
(* importSelfScrapeFile: a first pass over a copy of the file, then its    *)
(* lines one by one, then the job and the audit entry in one transaction.  *)

Fatal(file) == \E i \in DOMAIN file : file[i].kind = "fatal"

StartCommand(file) ==
  /\ command.st = "idle"
  /\ command' = IF Fatal(file) THEN [NoRun EXCEPT !.st = "over", !.file = file, !.audit = "failed"]
                ELSE [NoRun EXCEPT !.st = "lines", !.file = file, !.audit = "started"]
  /\ UNCHANGED <<defs, rows, tx, fate, events, built, begun, faults>>

SkipLine ==
  /\ command.st = "lines" /\ command.line <= Len(command.file)
  /\ command.file[command.line].kind = "invalid"
  /\ command' = [command EXCEPT !.line = @ + 1]
  /\ UNCHANGED <<defs, rows, tx, fate, events, built, begun, faults>>

FinishCommand ==
  /\ command.st = "lines" /\ command.line > Len(command.file)
  /\ command' = [command EXCEPT !.st = "over", !.audit = "succeeded"]
  /\ UNCHANGED <<defs, rows, tx, fate, events, built, begun, faults>>

RunAgain ==
  /\ command.st = "over" /\ tx[Cli].pc = "idle"
  /\ command' = [NoRun EXCEPT !.st = "lines", !.file = command.file, !.audit = "started"]
  /\ ~Fatal(command.file)
  /\ UNCHANGED <<defs, rows, tx, fate, events, built, begun, faults>>

\* The process dies: its transaction is rolled back and no audit entry follows.
KillCommand ==
  /\ command.st = "lines" /\ faults < MaxFaults
  /\ faults' = faults + 1
  /\ command' = [command EXCEPT !.st = "over"]
  /\ Goto(Cli, NoTx)
  /\ UNCHANGED <<defs, rows, fate, events, built, begun>>

---------------------------------------------------------------------------
Next ==
  \/ \E w \in Savers : BeginSave(w)
  \/ \E w \in Collectors : BeginImport(w)
  \/ BeginLine
  \/ \E w \in Writers : Define(w) \/ Create(w) \/ Read(w) \/ Write(w) \/ Commit(w) \/ Deadlock(w) \/ Lose(w)
  \/ \E e \in events : Rebuild(e)
  \/ \E file \in Files : StartCommand(file)
  \/ SkipLine \/ FinishCommand \/ RunAgain \/ KillCommand

Spec == Init /\ [][Next]_vars

---------------------------------------------------------------------------
\* The advisory locks of saveMetrics do their work: two sync jobs saving the same
\* metrics never meet in a unique index, in the interval constraint or in a deadlock.
SaversNeverCollide == \A w \in Savers : fate[w] \notin {"conflict", "deadlock", "definition"}

\* A revision is a change: whichever writers interleave, no revision repeats the
\* value of the one it supersedes.
NoIdleRevision == \A id \in Identities : \A i \in 1..Len(rows[id]) - 1 : rows[id][i] # rows[id][i + 1]

\* The versions of one metric tile the time from the first on: intervals are
\* disjoint, one is open, and each closed one ends where another begins.
DefinitionsTile ==
  \A d \in defs :
    /\ d.from < d.to
    /\ \A e \in defs \ {d} : ~Overlap(d, e)
    /\ d.to # Forever => \E e \in defs : e.key = d.key /\ e.source = d.source /\ e.from = d.to

\* Once the outbox is empty, the reports of every date were built from what the
\* imports last committed, repeated and corrected imports included.
ImportsCaughtUp == (\A e \in events : ~e.pending) => \A at \in Times : built[at] = ImportHeads(at)

\* A run of the import command that is recorded as succeeded has stored every valid
\* line of its file, and a file over the limits stores nothing at all.
FileIsWhole ==
  /\ command.audit = "succeeded" =>
       \A i \in DOMAIN command.file : LET line == command.file[i] IN
         line.kind = "valid" => \A k \in AllKeys :
           Contains(ImportHeads(line.at)[k][PlatformOf[Cli]], line.val)
  /\ Fatal(command.file) => ~command.wrote

\* A capture lies in the effective interval of the definition it is stored under
\* (sync.repository.ts:112 throws when it does not).
EvidenceInsideInterval ==
  \A id \in Identities : rows[id] # <<>> =>
    \E d \in defs : /\ d.platform = id.platform /\ d.key = id.key /\ d.source = id.source /\ d.version = id.version
                    /\ d.from <= id.at /\ id.at < d.to

\* The platforms are kept apart (platform-collection.integration.spec.ts:46): no
\* import fails on the definitions of another platform.
PlatformsApart == \A w \in Imports : fate[w] # "definition"
=============================================================================
