--------------------------- MODULE DouyinSessions ---------------------------
(***************************************************************************)
(* Douyin sessions: the session file and its profile directories           *)
(* (douyin-session-store.ts), one manager per session (douyin-registry.ts, *)
(* douyin-session-manager.ts) with its browser (douyin-runtime.ts,         *)
(* douyin-page-adapter.ts), the collection for the account of a session,   *)
(* and the API that binds accounts and imports runs                        *)
(* (douyin-local.service.ts).  A step is what happens between two awaits.  *)
(***************************************************************************)
EXTENDS Integers, Sequences, FiniteSets

CONSTANTS
  Sessions,    \* session ids that may be created
  Accounts,    \* Douyin accounts the user may sign in with
  MaxRequests, \* bound: requests to the collector
  MaxRuns,     \* bound: collection runs of a session
  MaxFaults    \* bound: restarts, closed windows, failing launches

None == "none"
Absent == "absent"

ASSUME AccountAssumption == {None, Absent, "loading", "qr", "verification"} \cap Accounts = {}
ASSUME BoundAssumption == MaxRequests \in Nat /\ MaxRuns \in Nat /\ MaxFaults \in Nat

VARIABLES
  file,     \* sessions.json: the platform id of every session in it
  dirs,     \* the profile directories
  open,     \* the sessions whose profile has an open browser
  shows,    \* what the page of that browser shows
  manager,  \* the managers of the registry, with the variables of their runtime
  run,      \* the collection run of every manager
  tasks,    \* the requests in progress
  rows,     \* Account rows of the database: the connector type of every account
  imports,  \* the importRun loops
  stored,   \* imported evidence
  ever,     \* the accounts the file has ever named for a session
  answered, \* creations written so far, removals asked for, and bindings that failed
  overlap,  \* two updates of the file have overlapped
  requests, faults

disk == <<file, dirs>>
browsers == <<open, shows>>
database == <<rows, imports, stored>>
vars == <<disk, browsers, manager, run, tasks, database, ever, answered, overlap, requests, faults>>

Pages == {"loading", "qr", "verification"} \cup Accounts
States == {"idle", "launching", "awaiting_scan", "authenticated", "verification_required", "error", "closed"}
NoManager == [no |-> 0, on |-> FALSE, record |-> None, state |-> "idle", shown |-> None, handle |-> FALSE, page |-> FALSE, payload |-> None]
NoRun == [id |-> 0, st |-> "idle", checked |-> FALSE, owner |-> None]

TypeOK ==
  /\ file \in [Sessions -> Accounts \cup {None, Absent}] /\ dirs \subseteq Sessions
  /\ open \subseteq Sessions /\ shows \in [Sessions -> Pages]
  /\ manager \in [Sessions -> [no : Nat, on : BOOLEAN, record : Accounts \cup {None}, state : States, shown : Accounts \cup {None},
                               handle : BOOLEAN, page : BOOLEAN, payload : Accounts \cup {None}]]
  /\ run \in [Sessions -> [id : 0..MaxRuns, st : {"idle", "running", "completed", "failed"}, checked : BOOLEAN, owner : Accounts \cup {None}]]
  /\ \A s \in Sessions : manager[s].state = "authenticated" <=> manager[s].shown # None
  /\ rows \in [Accounts -> {Absent, "douyin-local", "self-scrape"}]
  /\ requests \in 0..MaxRequests /\ faults \in 0..MaxFaults

Init ==
  /\ file = [s \in Sessions |-> Absent] /\ dirs = {}
  /\ open = {} /\ shows = [s \in Sessions |-> "loading"]
  /\ manager = [s \in Sessions |-> NoManager] /\ run = [s \in Sessions |-> NoRun] /\ tasks = {}
  /\ rows = [a \in Accounts |-> Absent] /\ imports = {} /\ stored = {}
  /\ ever = {} /\ answered = [created |-> {}, closing |-> {}, unbound |-> {}] /\ overlap = FALSE
  /\ requests = 0 /\ faults = 0

---------------------------------------------------------------------------
(* Requests.  A request is at a statement pc of a session s and may hold   *)
(* the copy of the file it read; updating requests overlap when one reads  *)
(* the file while another holds a copy.                                    *)

NoCopy == [s \in Sessions |-> Absent]
AskFor(s, pc, who) ==
  /\ requests < MaxRequests /\ requests' = requests + 1
  /\ tasks' = tasks \cup {[no |-> requests', s |-> s, pc |-> pc, copy |-> NoCopy, who |-> who,
                            of |-> IF manager[s].on THEN manager[s].no ELSE manager[s].no + 1]}
Ask(s, pc) == AskFor(s, pc, None)
Goto(t, pc) == tasks' = (tasks \ {t}) \cup {[t EXCEPT !.pc = pc, !.copy = NoCopy]}
End(t) == tasks' = tasks \ {t}
Updating == {"push", "bind", "drop"}
ReadFile(t, pc, who) ==
  /\ tasks' = (tasks \ {t}) \cup {[t EXCEPT !.pc = pc, !.copy = file, !.who = who]}
  /\ overlap' = (overlap \/ \E u \in tasks \ {t} : u.pc \in Updating)
WriteFile(t, account) == file' = [t.copy EXCEPT ![t.s] = account]
Become(s, m) == manager' = [manager EXCEPT ![s] = m]
\* A request keeps to the manager it found, also when that is out of the registry since;
\* what it does with a manager that was replaced is left out, but for the file it writes.
Mine(t) == manager[t.s].no = t.of
BecomeMine(t, m) == IF Mine(t) THEN Become(t.s, m) ELSE UNCHANGED manager

\* Mutant: the identity stays in the status.
KeepIdentity(m, state) == [m EXCEPT !.state = state]

SetState(m, state) == [m EXCEPT !.state = state, !.shown = None]

\* create: the profile directory, then the file, then a manager that is started.
Create(s) ==
  /\ s \notin dirs \cup answered.created /\ Ask(s, "read")
  /\ dirs' = dirs \cup {s}
  /\ UNCHANGED <<file, browsers, manager, run, database, ever, answered, overlap, faults>>

ReadForCreate(t) ==
  /\ t.pc = "read" /\ ReadFile(t, "push", None)
  /\ UNCHANGED <<disk, browsers, manager, run, database, ever, answered, requests, faults>>

Push(t) ==
  /\ t.pc = "push" /\ WriteFile(t, None)
  /\ answered' = [answered EXCEPT !.created = @ \cup {t.s}]
  /\ Goto(t, "made")
  /\ UNCHANGED <<dirs, browsers, manager, run, database, ever, overlap, requests, faults>>

\* The manager takes the place of one that a request restored since the file was written.
Enter(t) ==
  /\ t.pc = "made"
  /\ LET n == manager[t.s].no + 1 IN
     /\ Become(t.s, [NoManager EXCEPT !.no = n, !.on = TRUE, !.state = "launching"])
     /\ tasks' = (tasks \ {t}) \cup {[t EXCEPT !.pc = "launch", !.of = n]}
  /\ run' = [run EXCEPT ![t.s] = [NoRun EXCEPT !.id = run[t.s].id]]
  /\ UNCHANGED <<disk, browsers, database, ever, answered, overlap, requests, faults>>

\* Every other request opens the session in the file and finds or makes its manager;
\* status starts the one it made and refreshes the one it found.
Restored(s) == [NoManager EXCEPT !.no = manager[s].no + 1, !.on = TRUE, !.record = file[s]]
Found(s) == IF manager[s].on THEN manager[s] ELSE Restored(s)

Status(s) ==
  /\ file[s] # Absent
  /\ IF manager[s].on THEN Ask(s, "detect") /\ UNCHANGED manager
     ELSE Ask(s, "launch") /\ Become(s, SetState(Restored(s), "launching"))
  /\ UNCHANGED <<disk, browsers, run, database, ever, answered, overlap, faults>>

Refresh(s) ==
  /\ file[s] # Absent
  /\ Ask(s, "detect") /\ Become(s, Found(s))
  /\ UNCHANGED <<disk, browsers, run, database, ever, answered, overlap, faults>>

\* The browser opens and its page is loaded; when loading fails, it is left open.
Launch(t) ==
  /\ t.pc = "launch"
  /\ \/ /\ t.s \notin open
        /\ open' = open \cup {t.s} /\ UNCHANGED shows
        /\ \/ BecomeMine(t, [manager[t.s] EXCEPT !.handle = TRUE, !.page = TRUE]) /\ Goto(t, "detect") /\ UNCHANGED faults
           \/ /\ faults < MaxFaults /\ faults' = faults + 1
              /\ BecomeMine(t, [SetState(manager[t.s], "error") EXCEPT !.page = TRUE]) /\ End(t)
     \/ /\ (t.s \in open /\ UNCHANGED faults) \/ (faults < MaxFaults /\ faults' = faults + 1)
        /\ BecomeMine(t, SetState(manager[t.s], "error")) /\ End(t) /\ UNCHANGED browsers
  /\ UNCHANGED <<disk, run, database, ever, answered, overlap, requests>>

Reachable(s) == manager[s].page /\ s \in open
Sees(t) == Mine(t) /\ Reachable(t.s)

Detect(t) ==
  /\ t.pc = "detect"
  /\ LET m == manager[t.s] IN
     \/ ~Sees(t) /\ End(t) /\ UNCHANGED manager
     \/ Sees(t) /\ shows[t.s] = "loading" /\ BecomeMine(t, SetState(m, "launching")) /\ End(t)
     \/ Sees(t) /\ shows[t.s] = "verification" /\ BecomeMine(t, SetState(m, "verification_required")) /\ End(t)
     \/ Sees(t) /\ shows[t.s] = "qr" /\ Goto(t, "qr") /\ UNCHANGED manager
     \/ Sees(t) /\ shows[t.s] \in Accounts /\ Goto(t, "identity") /\ UNCHANGED manager
  /\ UNCHANGED <<disk, browsers, run, database, ever, answered, overlap, requests, faults>>

CaptureQr(t) ==
  /\ t.pc = "qr" /\ End(t)
  /\ \/ UNCHANGED manager
     \/ Sees(t) /\ shows[t.s] = "qr" /\ BecomeMine(t, SetState(manager[t.s], "awaiting_scan"))
  /\ UNCHANGED <<disk, browsers, run, database, ever, answered, overlap, requests, faults>>

\* Mutant: the identity of a restored session is not compared.
AnyIdentity(s, who) == who # None

Admits(s, who) == who # None /\ manager[s].record \in {None, who}

\* readIdentity takes the identity from the last official response that had one.
ReadIdentity(t) ==
  /\ t.pc = "identity"
  /\ LET who == manager[t.s].payload IN
     IF Mine(t) /\ Admits(t.s, who) /\ file[t.s] # Absent THEN ReadFile(t, "bind", who) ELSE End(t) /\ UNCHANGED overlap
  /\ UNCHANGED <<disk, browsers, manager, run, database, ever, answered, requests, faults>>

\* bindIdentity, then the state.
Bind(t) ==
  /\ t.pc = "bind" /\ WriteFile(t, t.who)
  /\ ever' = ever \cup {<<t.s, t.who>>}
  /\ Goto(t, "bound")
  /\ UNCHANGED <<dirs, browsers, manager, run, database, answered, overlap, requests, faults>>

Show(t) ==
  /\ t.pc = "bound" /\ Goto(t, "reply")
  /\ BecomeMine(t, [manager[t.s] EXCEPT !.state = "authenticated", !.shown = t.who])
  /\ UNCHANGED <<disk, browsers, run, database, ever, answered, overlap, requests, faults>>

\* list: the registry changes nothing; the API binds every authenticated entry it got, one
\* after the other up to the first that fails, each of them a reply of its own here.
List(s) ==
  /\ file[s] # Absent /\ manager[s].on /\ manager[s].shown # None
  /\ AskFor(s, "reply", manager[s].shown)
  /\ UNCHANGED <<disk, browsers, manager, run, database, ever, answered, overlap, faults>>

\* bindIfVerified: the upsert looks for a row of connector douyin-local only, and
\* Account_platform_platformId_non_mock_key admits one row of an account.
BindAccount(t) ==
  /\ t.pc = "reply" /\ End(t)
  /\ LET who == t.who IN
     IF rows[who] = "self-scrape" THEN answered' = [answered EXCEPT !.unbound = @ \cup {t.s}] /\ UNCHANGED rows
     ELSE rows' = [rows EXCEPT ![who] = "douyin-local"] /\ UNCHANGED answered
  /\ UNCHANGED <<disk, browsers, manager, run, imports, stored, ever, overlap, requests, faults>>

Close(s) ==
  /\ file[s] # Absent
  /\ Ask(s, "close") /\ answered' = [answered EXCEPT !.closing = @ \cup {s}]
  /\ Become(s, [Found(s) EXCEPT !.page = @ /\ ~Found(s).handle, !.payload = IF Found(s).handle THEN None ELSE @])
  /\ UNCHANGED <<disk, browsers, run, database, ever, overlap, faults>>

\* managers.delete removes the manager that is there now; one whose launch failed while
\* loading keeps its page, and the requests that hold it go on.
Shut(t) ==
  /\ t.pc = "close"
  /\ IF Mine(t) /\ manager[t.s].handle THEN open' = open \ {t.s} /\ shows' = [shows EXCEPT ![t.s] = "loading"] ELSE UNCHANGED browsers
  /\ Become(t.s, IF Mine(t) THEN [SetState(manager[t.s], "closed") EXCEPT !.on = FALSE, !.handle = FALSE]
                  ELSE [manager[t.s] EXCEPT !.on = FALSE])
  /\ run' = [run EXCEPT ![t.s] = [NoRun EXCEPT !.id = run[t.s].id]]
  /\ Goto(t, "remove")
  /\ UNCHANGED <<disk, database, ever, answered, overlap, requests, faults>>

ReadForRemove(t) ==
  /\ t.pc = "remove"
  /\ IF file[t.s] # Absent THEN ReadFile(t, "drop", None) ELSE End(t) /\ UNCHANGED overlap
  /\ UNCHANGED <<disk, browsers, manager, run, database, ever, answered, requests, faults>>

\* Mutant: the profile is deleted first.
DeleteThenDrop(t) ==
  /\ t.pc \in {"drop", "delete"}
  /\ IF t.pc = "drop" THEN dirs' = dirs \ {t.s} /\ Goto(t, "delete") /\ UNCHANGED file
     ELSE WriteFile(t, Absent) /\ End(t) /\ UNCHANGED dirs
  /\ UNCHANGED <<browsers, manager, run, database, ever, answered, overlap, requests, faults>>

\* remove: the file, then the profile.
Drop(t) ==
  /\ t.pc \in {"drop", "delete"}
  /\ IF t.pc = "drop" THEN WriteFile(t, Absent) /\ Goto(t, "delete") /\ UNCHANGED dirs
     ELSE dirs' = dirs \ {t.s} /\ End(t) /\ UNCHANGED file
  /\ UNCHANGED <<browsers, manager, run, database, ever, answered, overlap, requests, faults>>

---------------------------------------------------------------------------
(* The user, the browsers and failures.                                    *)

PageTurns(s) ==
  /\ s \in open /\ \E to \in Pages \ {shows[s]} : shows' = [shows EXCEPT ![s] = to]
  /\ UNCHANGED <<disk, open, manager, run, tasks, database, ever, answered, overlap, requests, faults>>

\* Any official response that holds a user: the account signed in, or another one in a list.
IdentitySeen(s) ==
  /\ Reachable(s) /\ shows[s] \in Accounts
  /\ \E who \in Accounts : Become(s, [manager[s] EXCEPT !.payload = who])
  /\ UNCHANGED <<disk, browsers, run, tasks, database, ever, answered, overlap, requests, faults>>

WindowClosed(s) ==
  /\ s \in open /\ faults < MaxFaults /\ faults' = faults + 1
  /\ open' = open \ {s} /\ shows' = [shows EXCEPT ![s] = "loading"]
  /\ UNCHANGED <<disk, manager, run, tasks, database, ever, answered, overlap, requests>>

\* The replies that arrived are the API's, which goes on.
CollectorRestarts ==
  /\ faults < MaxFaults /\ faults' = faults + 1
  /\ open' = {} /\ shows' = [s \in Sessions |-> "loading"] /\ tasks' = {t \in tasks : t.pc = "reply"}
  /\ manager' = [s \in Sessions |-> [NoManager EXCEPT !.no = manager[s].no]]
  /\ run' = [s \in Sessions |-> [NoRun EXCEPT !.id = run[s].id]]
  /\ UNCHANGED <<disk, database, ever, answered, overlap, requests>>

---------------------------------------------------------------------------
(* The collection of a session and its import.                             *)

RunOf(s, r) == run' = [run EXCEPT ![s] = r]

\* CollectionRun.start, and the importRun loop of the API, one for a run.
StartCollection(s) ==
  /\ file[s] # Absent /\ (run[s].st = "running" \/ run[s].id < MaxRuns)
  /\ Become(s, Found(s))
  /\ RunOf(s, IF run[s].st = "running" THEN run[s] ELSE [NoRun EXCEPT !.id = run[s].id + 1, !.st = "running"])
  /\ imports' = imports \cup {[s |-> s, run |-> run'[s].id]}
  /\ UNCHANGED <<disk, browsers, tasks, rows, stored, ever, answered, overlap, requests, faults>>

\* Mutant: the identity that was read is enough.
AnyBound(s) == manager[s].payload # None

\* The account shown last, or the one the manager was restored for.
BoundId(s) == IF manager[s].shown # None THEN manager[s].shown ELSE manager[s].record
StillBound(s) == BoundId(s) # None /\ manager[s].payload = BoundId(s)

CheckIdentity(s) ==
  /\ run[s].st = "running" /\ ~run[s].checked
  /\ Reachable(s) /\ shows[s] \in Accounts /\ StillBound(s)
  /\ RunOf(s, [run[s] EXCEPT !.checked = TRUE, !.owner = manager[s].payload])
  /\ UNCHANGED <<disk, browsers, manager, tasks, database, ever, answered, overlap, requests, faults>>

EndRun(s) ==
  /\ run[s].st = "running"
  /\ \/ RunOf(s, [run[s] EXCEPT !.st = "failed"])
     \/ run[s].checked /\ Reachable(s) /\ RunOf(s, [run[s] EXCEPT !.st = "completed"])
  /\ UNCHANGED <<disk, browsers, manager, tasks, database, ever, answered, overlap, requests, faults>>

\* The account of the events, and its row found by platform and platform id.
Import(i) ==
  LET served == file[i.s] # Absent /\ run[i.s].id = i.run IN
  /\ imports' = imports \ {i}
  /\ IF served /\ run[i.s].st = "completed"
     THEN /\ stored' = stored \cup {[s |-> i.s, account |-> run[i.s].owner]}
          /\ rows' = [rows EXCEPT ![run[i.s].owner] = "self-scrape"]
     ELSE UNCHANGED <<stored, rows>>
  /\ IF file[i.s] # Absent THEN Become(i.s, Found(i.s)) ELSE UNCHANGED manager
  /\ UNCHANGED <<disk, browsers, run, tasks, ever, answered, overlap, requests, faults>>

Next ==
  \/ \E s \in Sessions : \/ Create(s) \/ Status(s) \/ Refresh(s) \/ List(s) \/ Close(s)
                         \/ PageTurns(s) \/ IdentitySeen(s) \/ WindowClosed(s)
                         \/ StartCollection(s) \/ CheckIdentity(s) \/ EndRun(s)
  \/ \E t \in tasks : \/ ReadForCreate(t) \/ Push(t) \/ Enter(t) \/ Launch(t) \/ Detect(t) \/ CaptureQr(t) \/ ReadIdentity(t)
                      \/ Bind(t) \/ Show(t) \/ BindAccount(t) \/ Shut(t) \/ ReadForRemove(t) \/ Drop(t)
  \/ \E i \in imports : Import(i)
  \/ CollectorRestarts

Spec == Init /\ [][Next]_vars

---------------------------------------------------------------------------
\* As long as no two updates of the session file overlapped, a session in the file has its
\* profile, and one that was created and not closed is in the file, wherever a restart fell
\* between the steps of a creation or removal.
FileMatchesDisk ==
  ~overlap => /\ \A s \in Sessions : file[s] # Absent => s \in dirs
              /\ \A s \in answered.created \ answered.closing : file[s] # Absent

\* What is stored for an account was collected in a session whose entry in the file
\* named that account at some time, though the identity is read anew for every run.
OwnerWasBound == \A e \in stored : <<e.s, e.account>> \in ever

\* A restored session never shows another account than the one it was restored for.
RestoredKeepsAccount ==
  \A s \in Sessions : manager[s].record # None /\ manager[s].shown # None => manager[s].shown = manager[s].record

\* An authenticated session can be bound to its account row again, also after an import
\* (2026-08-11 plan, line 284: the binding upserts the row of connector douyin-local).
BindingSucceeds == answered.unbound = {}

\* An entry of the file keeps its account (not so for a session in its first process).
EntryKeepsAccount == [][\A s \in Sessions : file[s] \in Accounts /\ file'[s] \in Accounts => file'[s] = file[s]]_vars
=============================================================================
