--------------------------- MODULE LocalCollector ---------------------------
(***************************************************************************)
(* The local Xiaohongshu collector and the API that drives it: the browser *)
(* session (session-manager.ts), the collection run (collection-run.ts,    *)
(* creator-collection.ts) reading the creator pages (xhs-page-adapter.ts), *)
(* the routes of server.ts, and the synchronisation of the API             *)
(* (local-collector.service.ts), which starts a run, polls it and imports  *)
(* its events.  A step is what happens between two awaits.                 *)
(***************************************************************************)
EXTENDS Integers, Sequences, FiniteSets

CONSTANTS
  Accounts,    \* platform identities the user may be signed in with
  NoteCount,   \* notes of an account, numbered in the order they are visited
  MaxBrowsers, \* bound: browsers launched
  MaxRequests, \* bound: session requests and clicks
  MaxRuns,     \* bound: collection runs
  MaxPolls,    \* polls of importRun before it gives up (240 in the code)
  MaxFaults    \* bound: crashes, lost calls, closed windows

None == "none"
Placeholder == "local-creator"
Runs == 1..MaxRuns
Visits == 1..NoteCount

ASSUME AccountAssumption == {None, Placeholder, "loading", "qr", "verification"} \cap Accounts = {}
ASSUME BoundAssumption == {NoteCount, MaxBrowsers, MaxRequests, MaxRuns, MaxPolls} \subseteq Nat \ {0} /\ MaxFaults \in Nat

VARIABLES
  browser,  \* the open browser of the profile, 0 if none; browsers are numbered
  page,     \* what its page shows
  launched, \* browsers so far
  session,  \* the fields of LocalXhsSessionManager
  calls,    \* the session requests in progress
  run,      \* CollectionRun, with the progress of its collection
  clicks,   \* the startSync requests in progress
  api,      \* imports and runPlatformIds of LocalCollectorService
  importers,\* the importRun loops
  db,       \* account rows, imported evidence, SyncJob rows
  requests, boots, faults

collector == <<browser, page, launched, session, calls>>
service == <<clicks, api, importers, db>>
bounds == <<requests, boots, faults>>
vars == <<collector, run, service, bounds>>

NoSession == [state |-> "idle", shown |-> None, bound |-> None, handle |-> 0, adapter |-> 0, qr |-> FALSE, launching |-> 0]
NoRun == [id |-> 0, st |-> "idle", pc |-> "none", owner |-> None, visit |-> 0, open |-> 0, filed |-> {}]
NoApi == [imports |-> [r \in Runs |-> None], platform |-> [r \in Runs |-> None]]

States == {"idle", "launching", "awaiting_scan", "authenticated", "verification_required", "closed", "error"}
Pages == {"loading", "qr", "verification"} \cup Accounts

TypeOK ==
  /\ browser \in 0..launched /\ launched \in 0..MaxBrowsers /\ page \in Pages
  /\ session \in [state : States, shown : Accounts \cup {None}, bound : Accounts \cup {None}, handle : 0..launched,
                  adapter : 0..launched, qr : BOOLEAN, launching : 0..requests]
  /\ \A c \in calls : c.no \in 1..requests /\ c.pc \in {"launch", "detect", "qr", "identity", "wait", "closing"}
  /\ run.id \in 0..MaxRuns /\ run.st \in {"idle", "running", "completed", "failed", "lost"} /\ run.owner \in Accounts \cup {None}
  /\ \A k \in clicks : k.no \in 1..requests /\ k.pc \in {"bind", "sync", "reply"}
  /\ api.imports \in [Runs -> {None, "running", "completed", "failed"}] /\ api.platform \in [Runs -> Accounts \cup {None}]
  /\ \A i \in importers : i.pc \in {"poll", "events", "store", "record"} /\ i.polls \in 0..MaxPolls - 1
  /\ db.accounts \subseteq Accounts \cup {Placeholder} /\ db.jobs \subseteq Runs
  /\ requests \in 0..MaxRequests /\ faults \in 0..MaxFaults

Init ==
  /\ browser = 0 /\ page = "loading" /\ launched = 0
  /\ session = NoSession /\ calls = {} /\ run = NoRun
  /\ clicks = {} /\ api = NoApi /\ importers = {}
  /\ db = [accounts |-> {Placeholder}, stored |-> {}, jobs |-> {}]
  /\ requests = 0 /\ boots = 0 /\ faults = 0

---------------------------------------------------------------------------
(* The browser and its user.                                               *)

Reachable == session.adapter # 0 /\ session.adapter = browser

PageTurns == /\ browser # 0
             /\ \E to \in Pages \ {page} : page' = to
             /\ UNCHANGED <<browser, launched, session, calls, run, service, bounds>>

Fault == faults < MaxFaults /\ faults' = faults + 1

WindowClosed == /\ browser # 0 /\ Fault
                /\ browser' = 0 /\ page' = "loading"
                /\ UNCHANGED <<launched, session, calls, run, service, requests, boots>>

CollectorRestarts ==
  /\ Fault /\ boots' = boots + 1
  /\ browser' = 0 /\ page' = "loading" /\ session' = NoSession
  /\ calls' = {} /\ run' = [NoRun EXCEPT !.id = run.id, !.st = "lost"]
  /\ UNCHANGED <<launched, service, requests>>

---------------------------------------------------------------------------
(* Requests of the session.  A request that throws or returns is idle      *)
(* again; the one that launched clears the shared promise.                 *)

Ask(pc) == /\ requests < MaxRequests /\ requests' = requests + 1
           /\ calls' = calls \cup {[no |-> requests', pc |-> pc, pending |-> session.launching, handle |-> 0]}
           /\ UNCHANGED <<browser, page, launched, run, service, boots, faults>>

Continue(c, next) == calls' = (calls \ {c}) \cup {next}
Return(c, s) == /\ calls' = calls \ {c}
                /\ session' = IF s.launching = c.no THEN [s EXCEPT !.launching = 0] ELSE s
SetState(s, state) == [s EXCEPT !.state = state, !.shown = None]

Start ==
  /\ session.state \notin {"awaiting_scan", "authenticated", "verification_required"} /\ session.launching = 0
  /\ Ask("launch")
  /\ session' = [SetState(session, "launching") EXCEPT !.launching = requests']

\* Chromium opens one browser of a profile at a time.
Launch(c) ==
  /\ c.pc = "launch"
  /\ \/ /\ browser = 0 /\ launched < MaxBrowsers
        /\ launched' = launched + 1 /\ browser' = launched' /\ page' = "loading"
        /\ session' = [session EXCEPT !.handle = launched', !.adapter = IF @ = 0 THEN launched' ELSE @]
        /\ Continue(c, [c EXCEPT !.pc = "detect"])
     \/ Return(c, SetState(session, "error")) /\ UNCHANGED <<browser, page, launched>>
  /\ UNCHANGED <<run, service, bounds>>

Refresh == session.adapter # 0 /\ Ask("detect") /\ UNCHANGED session

\* prepareLogin and detectLoginState.
Detect(c) ==
  /\ c.pc = "detect"
  /\ LET clean == [session EXCEPT !.qr = FALSE] IN
     \/ ~Reachable /\ Return(c, session)
     \/ Reachable /\ page = "loading" /\ Return(c, SetState(session, "launching"))
     \/ Reachable /\ page = "verification" /\ Return(c, SetState(clean, "verification_required"))
     \/ Reachable /\ page = "qr" /\ Continue(c, [c EXCEPT !.pc = "qr"]) /\ UNCHANGED session
     \/ Reachable /\ page \in Accounts /\ Continue(c, [c EXCEPT !.pc = "identity"]) /\ session' = clean
  /\ UNCHANGED <<browser, page, launched, run, service, bounds>>

\* captureQr fails when the code is gone by then, or is not a PNG of a bounded size.
CaptureQr(c) ==
  /\ c.pc = "qr"
  /\ \/ Return(c, session)
     \/ Reachable /\ page = "qr" /\ Return(c, [SetState(session, "awaiting_scan") EXCEPT !.qr = TRUE])
  /\ UNCHANGED <<browser, page, launched, run, service, bounds>>

\* qr() destroys a code that has expired.
ExpireQr == session.qr /\ session' = [session EXCEPT !.qr = FALSE]
            /\ UNCHANGED <<browser, page, launched, calls, run, service, bounds>>

\* Mutant: the identity is not compared with the binding.
ShowAny(s, account) == [s EXCEPT !.bound = IF @ = None THEN account ELSE @, !.state = "authenticated", !.shown = account]

\* Mutant: every reading binds anew.
BindLatest(s, account) == [s EXCEPT !.bound = account, !.state = "authenticated", !.shown = account]

\* The first identity binds the session until the process ends; another one throws.
BindFirst(s, account) == IF s.bound \in {None, account}
                         THEN [s EXCEPT !.bound = account, !.state = "authenticated", !.shown = account] ELSE s

ReadIdentity(c) ==
  /\ c.pc = "identity"
  /\ Return(c, IF Reachable /\ page \in Accounts THEN BindFirst(session, page) ELSE session)
  /\ UNCHANGED <<browser, page, launched, run, service, bounds>>

Close == Ask("wait") /\ UNCHANGED session

\* After the launch it found in progress: the handle is taken first.
TakeHandle(c) ==
  /\ c.pc = "wait" /\ (c.pending = 0 \/ session.launching # c.pending)
  /\ session' = [session EXCEPT !.handle = 0]
  /\ Continue(c, [c EXCEPT !.pc = "closing", !.handle = session.handle])
  /\ UNCHANGED <<browser, page, launched, run, service, bounds>>

Shut(s) == SetState([s EXCEPT !.qr = FALSE], "closed")

\* Mutant: the session is marked closed before its browser is.
ShutThenClose(c) ==
  /\ c.pc = "closing"
  /\ IF c.pending >= 0
     THEN session' = Shut(session) /\ Continue(c, [c EXCEPT !.pending = -1]) /\ UNCHANGED <<browser, page>>
     ELSE /\ IF c.handle # 0 /\ c.handle = browser THEN browser' = 0 /\ page' = "loading" ELSE UNCHANGED <<browser, page>>
          /\ Return(c, session)
  /\ UNCHANGED <<launched, run, service, bounds>>

CloseBrowser(c) ==
  /\ c.pc = "closing"
  /\ IF c.handle # 0 /\ c.handle = browser THEN browser' = 0 /\ page' = "loading" ELSE UNCHANGED <<browser, page>>
  /\ Return(c, Shut(session))
  /\ UNCHANGED <<launched, run, service, bounds>>

---------------------------------------------------------------------------
(* The collection run: collect checks the identity, collectVisibleRecords  *)
(* reads the lists and visits the notes one by one, a comment that does    *)
(* not name its note is filed under the note then in scope, and all events *)
(* are emitted at once.  open is the page that answers, 0 for the lists.   *)

RunStep(r) == run' = r /\ UNCHANGED <<collector, service, bounds>>

\* The variables of the collection end with it.
Ended(st) == [run EXCEPT !.st = st, !.pc = "none", !.visit = 0, !.open = 0, !.filed = {}]

RunFails == run.st = "running" /\ RunStep(Ended("failed"))

\* The listener is attached and the lists of notes and comments are read first: page 0.
CheckIdentity ==
  /\ run.st = "running" /\ run.pc = "check"
  /\ Reachable /\ page \in Accounts /\ page = session.bound
  /\ RunStep([run EXCEPT !.pc = "visit", !.owner = page])

\* Mutant: the page of a note is opened first, the scope follows.
NavigateThenScope ==
  /\ run.st = "running" /\ run.pc = "visit" /\ run.visit < NoteCount /\ Reachable
  /\ \/ run.open = run.visit /\ RunStep([run EXCEPT !.open = @ + 1])
     \/ run.open > run.visit /\ RunStep([run EXCEPT !.visit = @ + 1])

\* The scope is set, while the page before is still open.
VisitNext ==
  /\ run.st = "running" /\ run.pc = "visit" /\ run.visit < NoteCount /\ Reachable
  /\ run.open = run.visit
  /\ RunStep([run EXCEPT !.visit = @ + 1])

\* The navigation commits: from here on the page before answers no more.
PageOpens ==
  /\ run.st = "running" /\ run.open < run.visit /\ Reachable
  /\ RunStep([run EXCEPT !.open = run.visit])

\* A nameless comment is filed under the note in scope; before the first visit it is dropped.
CommentsArrive == /\ run.st = "running" /\ run.visit > 0
                  /\ RunStep([run EXCEPT !.filed = @ \cup {<<run.open, run.visit>>}])

\* Back on the list of notes, without a scope; collectCreatorEvents emits and the run is completed.
EmitEvents ==
  /\ run.st = "running" /\ run.pc = "visit" /\ run.visit = NoteCount /\ run.open = run.visit /\ Reachable
  /\ RunStep(Ended("completed"))

---------------------------------------------------------------------------
(* startSync: the status of the session, the account row, the run.  Each   *)
(* call may fail or its answer be lost.                                    *)

GoOn(k, next) == clicks' = (clicks \ {k}) \cup {next}

AskStatus ==
  /\ requests < MaxRequests /\ requests' = requests + 1
  /\ session.state = "authenticated"
  /\ clicks' = clicks \cup {[no |-> requests', pc |-> "bind", who |-> session.shown, boot |-> boots, run |-> 0, straight |-> TRUE]}
  /\ UNCHANGED <<collector, run, api, importers, db, boots, faults>>

\* bindCollectorIdentity: the row of the account, else the placeholder renamed, else a new row.
BindAccount(k) ==
  /\ k.pc = "bind"
  /\ db' = [db EXCEPT !.accounts = IF k.who \in @ THEN @ ELSE (@ \ {Placeholder}) \cup {k.who}]
  /\ GoOn(k, [k EXCEPT !.pc = "sync"])
  /\ UNCHANGED <<collector, run, api, importers, bounds>>

\* CollectionRun.start: the running run, or a new one.
StartRun(k) ==
  /\ k.pc = "sync" /\ (run.st = "running" \/ run.id < MaxRuns)
  /\ run' = IF run.st = "running" THEN run ELSE [NoRun EXCEPT !.id = run.id + 1, !.st = "running", !.pc = "check"]
  /\ GoOn(k, [k EXCEPT !.pc = "reply", !.run = run'.id, !.straight = k.boot = boots])
  /\ UNCHANGED <<collector, api, importers, db, bounds>>

NotImporting(r) == api.imports[r] # "running"

StartImport(k) ==
  /\ k.pc = "reply"
  /\ LET r == k.run IN
     IF NotImporting(r)
     THEN /\ api' = [api EXCEPT !.platform[r] = k.who, !.imports[r] = "running"]
          /\ importers' = importers \cup {[by |-> k.no, run |-> r, pc |-> "poll", polls |-> 0, straight |-> k.straight, got |-> NoRun]}
     ELSE UNCHANGED <<api, importers>>
  /\ clicks' = clicks \ {k}
  /\ UNCHANGED <<collector, run, db, bounds>>

ClickFails(k) == /\ Fault
                 /\ clicks' = clicks \ {k}
                 /\ UNCHANGED <<collector, run, api, importers, db, requests, boots>>

---------------------------------------------------------------------------
(* importRun.                                                              *)

Step(i, j) == importers' = (importers \ {i}) \cup {j}
Ends(i, how) == /\ importers' = importers \ {i}
                /\ api' = [api EXCEPT !.imports[i.run] = how, !.platform[i.run] = None]
ImportFails(i) == Ends(i, "failed") /\ UNCHANGED db

\* Mutant: a run that is still running is polled without end.
PollForever(i) ==
  /\ i.pc = "poll"
  /\ IF run.id # i.run \/ run.st \in {"failed", "lost"} THEN ImportFails(i)
     ELSE run.st = "completed" /\ Step(i, [i EXCEPT !.pc = "events"]) /\ UNCHANGED <<api, db>>
  /\ UNCHANGED <<collector, run, clicks, bounds>>

LastPoll(i) == i.polls + 1 = MaxPolls

Poll(i) ==
  /\ i.pc = "poll"
  /\ IF run.id # i.run \/ run.st \in {"failed", "lost"} THEN ImportFails(i)
     ELSE IF run.st = "completed" THEN Step(i, [i EXCEPT !.pc = "events"]) /\ UNCHANGED <<api, db>>
     ELSE IF LastPoll(i) THEN ImportFails(i)
     ELSE Step(i, [i EXCEPT !.polls = @ + 1]) /\ UNCHANGED <<api, db>>
  /\ UNCHANGED <<collector, run, clicks, bounds>>

\* Mutant: the events of whichever run is the current one.
ServesAny(r) == run.st # "lost"

\* events(runId) refuses another run than the current one.
Serves(r) == run.id = r /\ run.st # "lost"

Fetch(i) ==
  /\ i.pc = "events"
  /\ IF Serves(i.run) THEN Step(i, [i EXCEPT !.pc = "store", !.got = run]) /\ UNCHANGED <<api, db>>
     ELSE ImportFails(i)
  /\ UNCHANGED <<collector, run, clicks, bounds>>

\* importPlatformCollection in one transaction, under the account noted for the run.
Store(i) ==
  /\ i.pc = "store"
  /\ IF api.platform[i.run] = None THEN ImportFails(i)
     ELSE /\ db' = [db EXCEPT !.stored = @ \cup {[run |-> i.run, account |-> api.platform[i.run], got |-> i.got, straight |-> i.straight]}]
          /\ Step(i, [i EXCEPT !.pc = "record"]) /\ UNCHANGED api
  /\ UNCHANGED <<collector, run, clicks, bounds>>

\* recordImport: the SyncJob row, the notification and the audit entry.
Record(i) ==
  /\ i.pc = "record"
  /\ db' = [db EXCEPT !.jobs = @ \cup {i.run}]
  /\ Ends(i, "completed")
  /\ UNCHANGED <<collector, run, clicks, bounds>>

\* A poll, the download or a transaction fails.
ImportBreaks(i) == ImportFails(i) /\ Fault /\ UNCHANGED <<collector, run, clicks, requests, boots>>

ApiRestarts == /\ Fault
               /\ api' = NoApi /\ importers' = {} /\ clicks' = {}
               /\ UNCHANGED <<collector, run, db, requests, boots>>

ImportRun(i) == Poll(i) \/ Fetch(i) \/ Store(i) \/ Record(i)

Next ==
  \/ PageTurns \/ WindowClosed \/ CollectorRestarts \/ ExpireQr
  \/ Start \/ Refresh \/ Close
  \/ \E c \in calls : Launch(c) \/ Detect(c) \/ CaptureQr(c) \/ ReadIdentity(c) \/ TakeHandle(c) \/ CloseBrowser(c)
  \/ RunFails \/ CheckIdentity \/ VisitNext \/ PageOpens \/ CommentsArrive \/ EmitEvents
  \/ AskStatus
  \/ \E k \in clicks : BindAccount(k) \/ StartRun(k) \/ StartImport(k) \/ ClickFails(k)
  \/ \E i \in importers : ImportRun(i) \/ ImportBreaks(i)
  \/ ApiRestarts

\* importRun loops on the event loop of the API, every await of it bounded by a timeout.
Spec == Init /\ [][Next]_vars /\ WF_vars(\E i \in importers : ImportRun(i))

---------------------------------------------------------------------------
\* A session that shows an account shows the one it is bound to, the one its collections
\* check, and its browser is open unless something failed: two requests reading identities at
\* once cannot part them, and a refresh that reads the page while close runs cannot leave a
\* closed session authenticated.  Nor does a closed session keep a login code.
SessionHonest ==
  /\ session.state = "authenticated" => /\ session.shown = session.bound /\ session.shown # None
                                        /\ Reachable \/ faults > 0
  /\ session.state = "closed" => ~session.qr

\* What is stored for a run are the events of that run, and of a run that completed.
WholeRunStored == \A s \in db.stored : s.got.id = s.run /\ s.got.st = "completed"

\* Evidence is stored under the account whose identity the run verified, unless the
\* collector was restarted between the two calls of startSync.
RightAccount == \A s \in db.stored : s.straight => s.account = s.got.owner

\* A comment that does not name its note is filed under the note whose page it came from or
\* under the one visited next, when it comes while that page is being opened: never under an
\* earlier note, nor further on.  One from the lists (page 0) can only reach the first note.
FiledNearby == \A f \in run.filed : f[2] \in {f[1], f[1] + 1}

\* Every import ends, and its entry with it.
ImportsSettle == \A r \in Runs : api.imports[r] = "running" ~> api.imports[r] # "running"

\* The comments of a note are its own (xhs-page-adapter.spec.ts:212).
FiledAtHome == \A f \in run.filed : f[2] = f[1]

\* Closing and starting again gives a session of the new browser (2026-08-04 design, line 27).
FreshAdapter == session.handle # 0 => session.adapter = session.handle

\* syncStatus: completed is shown once the run is imported (local-collector.service.spec.ts:73).
Shown == IF run.id = 0 \/ run.st = "lost" THEN "idle"
         ELSE IF api.imports[run.id] = "failed" THEN "failed"
         ELSE IF run.st = "completed" /\ api.imports[run.id] = "running" THEN "running" ELSE run.st
CompletedIsStored == Shown = "completed" => run.id \in db.jobs
=============================================================================
