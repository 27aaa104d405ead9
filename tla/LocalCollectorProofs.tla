------------------------- MODULE LocalCollectorProofs -------------------------
(* Theorems about LocalCollector for every set of accounts and every bound.    *)
EXTENDS LocalCollector, TLAPS

Sessions == [state : States, shown : Accounts \cup {None}, bound : Accounts \cup {None}, handle : 0..launched,
             adapter : 0..launched, qr : BOOLEAN, launching : 0..requests]
Calls == [no : 1..requests, pc : {"launch", "detect", "qr", "identity", "wait", "closing"},
          pending : 0..requests, handle : 0..launched]
Collections == [id : 0..MaxRuns, st : {"idle", "running", "completed", "failed", "lost"}, pc : {"none", "check", "visit"},
                owner : Accounts \cup {None}, visit : Nat, open : Nat, filed : SUBSET (Nat \X Nat)]
Clicks == [no : 1..requests, pc : {"bind", "sync", "reply"}, who : Accounts, boot : Nat, run : 0..MaxRuns, straight : BOOLEAN]
Importers == [by : Nat, run : Runs, pc : {"poll", "events", "store", "record"}, polls : 0..MaxPolls - 1,
              straight : BOOLEAN, got : Collections]
Evidence == [run : Runs, account : Accounts \cup {None}, got : Collections, straight : BOOLEAN]

SessionTyped ==
  /\ launched \in 0..MaxBrowsers /\ browser \in 0..launched /\ page \in Pages
  /\ requests \in 0..MaxRequests /\ session \in Sessions /\ calls \subseteq Calls
ServiceTyped ==
  /\ clicks \subseteq Clicks /\ importers \subseteq Importers
  /\ api \in [imports : [Runs -> {None, "running", "completed", "failed"}], platform : [Runs -> Accounts \cup {None}]]
  /\ db \in [accounts : SUBSET (Accounts \cup {Placeholder}), stored : SUBSET Evidence, jobs : SUBSET Runs]
  /\ boots \in Nat /\ faults \in 0..MaxFaults

\* A session that shows an account is bound to it, a closed one has no code.
Honest(s) ==
  /\ s.state = "authenticated" => s.shown = s.bound /\ s.shown # None
  /\ s.state = "closed" => ~s.qr

\* The account of a run is the one its session is bound to.
RunTyped ==
  /\ run \in Collections
  /\ run.st = "running" => run.id # 0
  /\ run.owner # None => run.owner = session.bound
  /\ run.pc = "visit" \/ run.st = "completed" => run.owner # None
  /\ run.visit \in {run.open, run.open + 1}
  /\ FiledNearby

\* As long as a run can still be fetched, its session is bound to the account of the
\* click that found it.
Follows(r, who) == r <= run.id /\ who # None /\ (r = run.id /\ run.st # "lost" => who = session.bound)

ClicksKnow ==
  \A k \in clicks :
    /\ k.boot <= boots
    /\ k.pc # "reply" /\ k.boot = boots => k.who = session.bound
    /\ k.pc = "reply" => k.run # 0 /\ k.run <= run.id /\ (k.straight => Follows(k.run, k.who))

Knows(i) ==
  /\ api.imports[i.run] = "running" /\ i.run <= run.id
  /\ i.straight => Follows(i.run, api.platform[i.run])
  /\ i.pc = "events" => (i.run = run.id => run.st \in {"completed", "lost"})
  /\ i.pc \in {"store", "record"} => i.got.id = i.run /\ i.got.st = "completed" /\ (i.straight => i.got.owner = api.platform[i.run])

\* One loop imports a run.
ImportersKnow ==
  /\ \A i \in importers : Knows(i)
  /\ \A i, j \in importers : i.run = j.run => i = j

IInv == SessionTyped /\ ServiceTyped /\ Honest(session) /\ RunTyped /\ ClicksKnow /\ ImportersKnow /\ WholeRunStored /\ RightAccount

-------------------------------------------------------------------------------
LEMMA Initially == Init => IInv
<1> SUFFICES ASSUME Init PROVE IInv
  OBVIOUS
<1> USE DEF Init
<1>1. SessionTyped
  BY BoundAssumption DEF SessionTyped, Sessions, Calls, NoSession, States, Pages
<1>2. ServiceTyped
  BY BoundAssumption DEF ServiceTyped, Clicks, Importers, NoApi
<1>3. Honest(session)
  BY DEF Honest, NoSession
<1>4. RunTyped
  <2>1. run \in Collections
    BY BoundAssumption DEF NoRun, Collections
  <2> QED
    BY <2>1 DEF RunTyped, NoRun, FiledNearby
<1>5. ClicksKnow /\ ImportersKnow /\ WholeRunStored /\ RightAccount
  BY DEF ClicksKnow, ImportersKnow, WholeRunStored, RightAccount
<1> QED
  BY <1>1, <1>2, <1>3, <1>4, <1>5 DEF IInv

\* What followed a run goes on following it while the binding of its session stands.
LEMMA FollowsOn ==
  ASSUME NEW r \in Nat, NEW who, Follows(r, who), run.id \in Nat, run'.id \in Nat,
         run.id <= run'.id,
         run'.id = run.id /\ run'.st # "lost" => run.st # "lost" /\ (session.bound # None => session'.bound = session.bound)
  PROVE  Follows(r, who)'
BY DEF Follows

-------------------------------------------------------------------------------
(* Steps of the session *)

LEMMA SessionKeeps ==
  ASSUME IInv, SessionTyped', Honest(session)', session.bound # None => session'.bound = session.bound,
         requests <= requests', faults' \in 0..MaxFaults, UNCHANGED <<run, service, boots>>
  PROVE  IInv'
<1> USE DEF service
<1>1. requests \in Nat /\ requests' \in Nat /\ run.id \in Nat
  BY BoundAssumption DEF IInv, SessionTyped, RunTyped, Collections
<1>2. clicks \subseteq Clicks'
  BY <1>1 DEF IInv, ServiceTyped, Clicks
<1>3. ServiceTyped'
  BY <1>2 DEF IInv, ServiceTyped, Importers, Evidence, Collections
<1>4. RunTyped'
  BY DEF IInv, RunTyped, Collections, FiledNearby
<1>5. ASSUME NEW r \in Nat, NEW who, Follows(r, who)
      PROVE  Follows(r, who)'
  BY <1>1, <1>5, FollowsOn
<1>6. ClicksKnow'
  <2>1. \A k \in clicks : k.who # None /\ k.run \in Nat
    BY AccountAssumption, BoundAssumption DEF IInv, ServiceTyped, Clicks
  <2> QED
    BY <1>5, <2>1 DEF IInv, ClicksKnow
<1>7. ImportersKnow'
  <2>1. \A i \in importers : Knows(i) => Knows(i)'
    <3> SUFFICES ASSUME NEW i \in importers, Knows(i) PROVE Knows(i)'
      OBVIOUS
    <3>1. i.straight => Follows(i.run, api.platform[i.run])'
      BY <1>5, BoundAssumption DEF Knows, IInv, ServiceTyped, Importers, Runs
    <3> QED
      BY <3>1 DEF Knows
  <2> QED
    BY <2>1 DEF IInv, ImportersKnow
<1>8. WholeRunStored' /\ RightAccount'
  BY DEF IInv, WholeRunStored, RightAccount
<1> QED
  BY <1>3, <1>4, <1>6, <1>7, <1>8 DEF IInv

\* A request that returns leaves the shared promise only when it is its own.
LEMMA ReturnKeeps ==
  ASSUME IInv, NEW c \in calls, NEW s \in Sessions, Return(c, s), Honest(s),
         session.bound # None => s.bound = session.bound,
         browser' \in 0..launched, page' \in Pages, UNCHANGED <<launched, run, service, bounds>>
  PROVE  IInv'
<1> USE DEF bounds
<1>1. session' \in {s, [s EXCEPT !.launching = 0]} /\ calls' \subseteq calls
  BY DEF Return
<1>2. 0 \in 0..requests
  BY BoundAssumption DEF IInv, SessionTyped
<1>3. session' \in Sessions /\ session'.state = s.state /\ session'.shown = s.shown /\ session'.bound = s.bound
      /\ (session'.qr <=> s.qr)
  BY <1>1, <1>2 DEF Sessions
<1>4. SessionTyped'
  BY <1>1, <1>3 DEF IInv, SessionTyped, Sessions, Calls
<1>5. Honest(session)'
  BY <1>3 DEF Honest
<1>6. requests <= requests' /\ faults' \in 0..MaxFaults
  BY DEF IInv, SessionTyped, ServiceTyped
<1> QED
  BY <1>3, <1>4, <1>5, <1>6, SessionKeeps

\* A request that goes on, with another session of the same binding.
LEMMA ContinueKeeps ==
  ASSUME IInv, calls' \subseteq Calls', session' \in Sessions', Honest(session'), launched \in Nat, launched <= launched',
         session.bound # None => session'.bound = session.bound, launched' \in 0..MaxBrowsers,
         browser' \in 0..launched', page' \in Pages, requests <= requests', requests' \in 0..MaxRequests,
         faults' \in 0..MaxFaults, UNCHANGED <<run, service, boots>>
  PROVE  IInv'
<1>1. SessionTyped'
  BY DEF SessionTyped
<1>2. Honest(session)'
  BY DEF Honest
<1> QED
  BY <1>1, <1>2, SessionKeeps

LEMMA StateSet ==
  ASSUME NEW s \in Sessions, NEW state \in States
  PROVE  /\ SetState(s, state) \in Sessions /\ SetState(s, state).bound = s.bound /\ SetState(s, state).state = state
         /\ SetState(s, state).qr = s.qr
BY DEF SetState, Sessions

LEMMA StateSetHonest ==
  ASSUME NEW s \in Sessions, NEW state \in States \ {"authenticated", "closed"}
  PROVE  /\ SetState(s, state) \in Sessions /\ Honest(SetState(s, state))
         /\ SetState(s, state).bound = s.bound
BY StateSet DEF Honest

\* What is known of the session and of a request.
LEMMA Known ==
  ASSUME IInv
  PROVE  /\ session \in Sessions /\ Honest(session) /\ calls \subseteq Calls
         /\ launched \in Nat /\ launched <= launched /\ launched \in 0..MaxBrowsers
         /\ requests \in Nat /\ requests <= requests /\ requests \in 0..MaxRequests
         /\ browser \in 0..launched /\ page \in Pages /\ faults \in 0..MaxFaults
BY BoundAssumption DEF IInv, SessionTyped, ServiceTyped

LEMMA BrowserKeeps ==
  ASSUME IInv, PageTurns \/ WindowClosed \/ ExpireQr
  PROVE  IInv'
<1> USE DEF service, bounds
<1>1. CASE PageTurns \/ WindowClosed
  <2>1. browser' \in 0..launched /\ page' \in Pages /\ faults' \in 0..MaxFaults
    BY <1>1, Known, BoundAssumption DEF PageTurns, WindowClosed, Fault, Pages
  <2>2. UNCHANGED <<launched, session, calls, run, service, requests, boots>>
    BY <1>1 DEF PageTurns, WindowClosed
  <2>3. calls' \subseteq Calls' /\ session' \in Sessions'
    BY <2>2, Known DEF Sessions, Calls
  <2> QED
    BY <2>1, <2>2, <2>3, Known, ContinueKeeps
<1>2. CASE ExpireQr
  <2>1. session' = [session EXCEPT !.qr = FALSE] /\ UNCHANGED <<browser, page, launched, calls, run, service, bounds>>
    BY <1>2 DEF ExpireQr
  <2>2. session' \in Sessions' /\ calls' \subseteq Calls' /\ session'.bound = session.bound
    BY <2>1, Known DEF Sessions, Calls
  <2>3. Honest(session')
    BY <2>1, Known DEF Honest, Sessions
  <2> QED
    BY <2>1, <2>2, <2>3, Known, ContinueKeeps
<1> QED
  BY <1>1, <1>2

\* A request begins.
LEMMA AskKeeps ==
  ASSUME IInv, NEW pc \in {"launch", "detect", "wait"}, Ask(pc), session' \in Sessions', Honest(session'),
         session'.bound = session.bound
  PROVE  IInv'
<1> USE DEF service, bounds
<1>1. requests' = requests + 1 /\ requests' \in 0..MaxRequests /\ requests <= requests'
  BY Known, BoundAssumption DEF Ask
<1>2. UNCHANGED <<browser, page, launched, run, service, boots, faults>>
  BY DEF Ask
<1>3. session.launching \in 0..requests'
  BY <1>1, Known DEF Sessions
<1>4. calls \subseteq Calls'
  BY <1>1, <1>2, Known DEF Calls
<1>5. calls' \subseteq Calls'
  <2>1. calls' = calls \cup {[no |-> requests', pc |-> pc, pending |-> session.launching, handle |-> 0]}
    BY DEF Ask
  <2>2. requests' \in 1..requests' /\ 0 \in 0..launched'
    BY <1>1, <1>2, Known
  <2>3. [no |-> requests', pc |-> pc, pending |-> session.launching, handle |-> 0] \in Calls'
    BY <1>3, <2>2 DEF Calls
  <2> QED
    BY <1>4, <2>1, <2>3
<1> QED
  BY <1>1, <1>2, <1>5, Known, ContinueKeeps

LEMMA RequestsKeep ==
  ASSUME IInv, Start \/ Refresh \/ Close
  PROVE  IInv'
<1>1. CASE Start
  <2> DEFINE s == SetState(session, "launching")
  <2>1. Ask("launch") /\ session' = [s EXCEPT !.launching = requests'] /\ requests' = requests + 1 /\ launched' = launched
    BY <1>1 DEF Start, Ask
  <2>2. s \in Sessions /\ Honest(s) /\ s.bound = session.bound
    BY Known, StateSetHonest DEF States
  <2> HIDE DEF s
  <2>3. requests' \in 0..requests' /\ 0..requests \subseteq 0..requests'
    BY <2>1, Known
  <2>4. session' \in Sessions' /\ session'.bound = s.bound
    BY <2>1, <2>2, <2>3, Known DEF Sessions
  <2>5. Honest(session')
    BY <2>1, <2>2 DEF Honest, Sessions
  <2> QED
    BY <2>1, <2>2, <2>4, <2>5, AskKeeps
<1>2. CASE Refresh \/ Close
  <2>1. PICK pc \in {"detect", "wait"} : Ask(pc)
    BY <1>2 DEF Refresh, Close
  <2>2. session' = session /\ requests' = requests + 1 /\ launched' = launched
    BY <1>2 DEF Refresh, Close, Ask
  <2>3. session' \in Sessions'
    BY <2>2, Known DEF Sessions
  <2> QED
    BY <2>1, <2>2, <2>3, Known, AskKeeps
<1> QED
  BY <1>1, <1>2

LEMMA LaunchKeeps ==
  ASSUME IInv, NEW c \in calls, Launch(c)
  PROVE  IInv'
<1> USE DEF service, bounds
<1>1. UNCHANGED <<run, service, bounds>>
  BY DEF Launch
<1>2. CASE Return(c, SetState(session, "error")) /\ UNCHANGED <<browser, page, launched>>
  BY <1>1, <1>2, Known, StateSetHonest, ReturnKeeps DEF States
<1>3. CASE ~(Return(c, SetState(session, "error")) /\ UNCHANGED <<browser, page, launched>>)
  <2>1. /\ launched < MaxBrowsers /\ launched' = launched + 1 /\ browser' = launched' /\ page' = "loading"
        /\ session' = [session EXCEPT !.handle = launched', !.adapter = IF @ = 0 THEN launched' ELSE @]
        /\ calls' = (calls \ {c}) \cup {[c EXCEPT !.pc = "detect"]}
    BY <1>3 DEF Launch, Continue
  <2>2. launched' \in 0..MaxBrowsers /\ browser' \in 0..launched' /\ page' \in Pages /\ launched <= launched'
    BY <2>1, Known, BoundAssumption DEF Pages
  <2>3. 0..launched \subseteq 0..launched' /\ launched' \in 0..launched' /\ requests' = requests
    BY <1>1, <2>1, Known
  <2>4. session' \in Sessions'
    <3>1. session.handle \in 0..launched /\ session.adapter \in 0..launched /\ session \in Sessions
      BY Known DEF Sessions
    <3> QED
      BY <2>1, <2>3, <3>1 DEF Sessions
  <2>5. session'.bound = session.bound /\ Honest(session')
    BY <2>1, Known DEF Sessions, Honest
  <2>6. calls' \subseteq Calls'
    BY <2>1, <2>3, Known DEF Calls
  <2> QED
    BY <1>1, <2>2, <2>4, <2>5, <2>6, Known, ContinueKeeps
<1> QED
  BY <1>2, <1>3

LEMMA DetectKeeps ==
  ASSUME IInv, NEW c \in calls, Detect(c)
  PROVE  IInv'
<1> USE DEF service, bounds
<1> DEFINE clean == [session EXCEPT !.qr = FALSE]
<1>1. UNCHANGED <<browser, page, launched, run, service, bounds>> /\ c.pc = "detect" /\ c \in Calls
  BY Known DEF Detect
<1>2. clean \in Sessions /\ Honest(clean) /\ clean.bound = session.bound
  BY Known DEF Sessions, Honest
<1>3. \/ Return(c, session) \/ Return(c, SetState(session, "launching")) \/ Return(c, SetState(clean, "verification_required"))
      \/ Continue(c, [c EXCEPT !.pc = "qr"]) /\ UNCHANGED session
      \/ Continue(c, [c EXCEPT !.pc = "identity"]) /\ session' = clean
  BY DEF Detect
<1> HIDE DEF clean
<1>4. CASE Return(c, session) \/ Return(c, SetState(session, "launching")) \/ Return(c, SetState(clean, "verification_required"))
  <2>1. PICK s \in {session, SetState(session, "launching"), SetState(clean, "verification_required")} : Return(c, s)
    BY <1>4
  <2>2. s \in Sessions /\ Honest(s) /\ s.bound = session.bound
    BY <1>2, <2>1, Known, StateSetHonest DEF States
  <2> QED
    BY <1>1, <2>1, <2>2, Known, ReturnKeeps
<1>5. CASE \/ Continue(c, [c EXCEPT !.pc = "qr"]) /\ UNCHANGED session
           \/ Continue(c, [c EXCEPT !.pc = "identity"]) /\ session' = clean
  <2>1. [c EXCEPT !.pc = "qr"] \in Calls /\ [c EXCEPT !.pc = "identity"] \in Calls
    BY <1>1 DEF Calls
  <2>2. calls' \subseteq Calls
    BY <1>5, <2>1, Known DEF Continue
  <2>3. session' \in Sessions /\ Honest(session') /\ session'.bound = session.bound
    BY <1>2, <1>5, Known
  <2>4. calls' \subseteq Calls' /\ session' \in Sessions'
    BY <1>1, <2>2, <2>3 DEF Calls, Sessions
  <2> QED
    BY <1>1, <2>3, <2>4, Known, ContinueKeeps
<1> QED
  BY <1>3, <1>4, <1>5

LEMMA QrKeeps ==
  ASSUME IInv, NEW c \in calls, CaptureQr(c)
  PROVE  IInv'
<1> USE DEF bounds
<1> DEFINE s == SetState(session, "awaiting_scan")
           q == [s EXCEPT !.qr = TRUE]
<1>1. s \in Sessions /\ s.bound = session.bound /\ s.state = "awaiting_scan"
  BY Known, StateSet DEF States
<1> HIDE DEF s
<1>2. q \in Sessions /\ q.bound = session.bound /\ Honest(q)
  BY <1>1 DEF Sessions, Honest
<1>3. PICK r \in {session, q} : Return(c, r)
  BY DEF CaptureQr, s
<1> HIDE DEF q
<1>4. r \in Sessions /\ r.bound = session.bound /\ Honest(r)
  BY <1>2, <1>3, Known
<1>5. UNCHANGED <<browser, page, launched, run, service, bounds>>
  BY DEF CaptureQr
<1> QED
  BY <1>3, <1>4, <1>5, Known, ReturnKeeps

\* The first identity binds; another one does not show.
LEMMA BindingKeeps ==
  ASSUME IInv, NEW account \in Accounts
  PROVE  LET s == BindFirst(session, account) IN
         s \in Sessions /\ Honest(s) /\ (session.bound # None => s.bound = session.bound)
<1>1. session \in Sessions /\ Honest(session) /\ account # None
  BY Known, AccountAssumption
<1>2. CASE session.bound \in {None, account}
  BY <1>1, <1>2 DEF BindFirst, Sessions, Honest, States
<1>3. CASE session.bound \notin {None, account}
  BY <1>1, <1>3 DEF BindFirst
<1> QED
  BY <1>2, <1>3

LEMMA IdentityKeeps ==
  ASSUME IInv, NEW c \in calls, ReadIdentity(c)
  PROVE  IInv'
<1> USE DEF bounds
<1>1. UNCHANGED <<browser, page, launched, run, service, bounds>>
  BY DEF ReadIdentity
<1>2. PICK s : Return(c, s) /\ s = IF Reachable /\ page \in Accounts THEN BindFirst(session, page) ELSE session
  BY DEF ReadIdentity
<1>3. s \in Sessions /\ Honest(s) /\ (session.bound # None => s.bound = session.bound)
  BY <1>2, Known, BindingKeeps
<1> QED
  BY <1>1, <1>2, <1>3, Known, ReturnKeeps

LEMMA CloseKeeps ==
  ASSUME IInv, NEW c \in calls, TakeHandle(c) \/ CloseBrowser(c)
  PROVE  IInv'
<1> USE DEF service, bounds
<1>1. CASE TakeHandle(c)
  <2>1. /\ session' = [session EXCEPT !.handle = 0]
        /\ calls' = (calls \ {c}) \cup {[c EXCEPT !.pc = "closing", !.handle = session.handle]}
        /\ UNCHANGED <<browser, page, launched, run, service, bounds>>
    BY <1>1 DEF TakeHandle, Continue
  <2>2. 0 \in 0..launched /\ session.handle \in 0..launched
    BY Known DEF Sessions
  <2>3. calls' \subseteq Calls /\ session' \in Sessions /\ session'.bound = session.bound /\ Honest(session')
    BY <2>1, <2>2, Known DEF Calls, Sessions, Honest
  <2>4. calls' \subseteq Calls' /\ session' \in Sessions'
    BY <2>1, <2>3 DEF Calls, Sessions
  <2> QED
    BY <2>1, <2>3, <2>4, Known, ContinueKeeps
<1>2. CASE CloseBrowser(c)
  <2> DEFINE quiet == [session EXCEPT !.qr = FALSE]
  <2>1. quiet \in Sessions /\ quiet.bound = session.bound /\ quiet.qr = FALSE
    BY Known DEF Sessions
  <2>2. Shut(session) = SetState(quiet, "closed")
    BY DEF Shut
  <2> HIDE DEF quiet
  <2>3. Shut(session) \in Sessions /\ Honest(Shut(session)) /\ Shut(session).bound = session.bound
    BY <2>1, <2>2, StateSet DEF Honest, States
  <2>4. browser' \in 0..launched /\ page' \in Pages /\ UNCHANGED <<launched, run, service, bounds>> /\ Return(c, Shut(session))
    BY <1>2, Known DEF CloseBrowser, Pages
  <2> QED
    BY <2>3, <2>4, ReturnKeeps
<1> QED
  BY <1>1, <1>2

\* A restart loses the session and the run, and its number stands.
LEMMA RestartKeeps == IInv /\ CollectorRestarts => IInv'
<1> SUFFICES ASSUME IInv, CollectorRestarts PROVE IInv'
  OBVIOUS
<1> USE DEF service
<1>1. /\ boots' = boots + 1 /\ faults' = faults + 1 /\ faults < MaxFaults /\ browser' = 0 /\ page' = "loading"
      /\ session' = NoSession /\ calls' = {} /\ run' = [NoRun EXCEPT !.id = run.id, !.st = "lost"]
      /\ UNCHANGED <<launched, service, requests>>
  BY DEF CollectorRestarts, Fault
<1>2. run.id \in 0..MaxRuns /\ boots \in Nat
  BY DEF IInv, RunTyped, Collections, ServiceTyped
<1>3. /\ run' \in Collections /\ run'.id = run.id /\ run'.st = "lost" /\ run'.owner = None /\ run'.pc = "none"
      /\ run'.open = 0 /\ run'.visit = 0 /\ run'.filed = {}
  BY <1>1, <1>2 DEF NoRun, Collections
<1>4. SessionTyped' /\ Honest(session)'
  BY <1>1, Known DEF SessionTyped, NoSession, Sessions, States, Pages, Honest
<1>5. ServiceTyped'
  BY <1>1, BoundAssumption DEF IInv, ServiceTyped, Clicks, Importers, Evidence, Collections
<1>6. RunTyped'
  BY <1>3 DEF RunTyped, FiledNearby
<1>7. ClicksKnow'
  <2>1. \A k \in clicks : k.boot \in Nat /\ k.boot <= boots
    BY DEF IInv, ServiceTyped, Clicks, ClicksKnow
  <2>2. \A k \in clicks : k.boot <= boots' /\ k.boot # boots'
    BY <1>1, <1>2, <2>1
  <2>3. \A k \in clicks : k.pc = "reply" => k.run # 0 /\ k.run <= run'.id /\ (k.straight => Follows(k.run, k.who)')
    BY <1>1, <1>3 DEF IInv, ClicksKnow, Follows
  <2> QED
    BY <1>1, <2>2, <2>3 DEF ClicksKnow
<1>8. ImportersKnow'
  BY <1>1, <1>3 DEF IInv, ImportersKnow, Knows, Follows
<1>9. WholeRunStored' /\ RightAccount'
  BY <1>1 DEF IInv, WholeRunStored, RightAccount
<1> QED
  BY <1>4, <1>5, <1>6, <1>7, <1>8, <1>9 DEF IInv

-------------------------------------------------------------------------------
(* Steps of the run *)

LEMMA RunKeeps ==
  ASSUME IInv, UNCHANGED <<collector, service, bounds>>, RunTyped', run'.id = run.id, run.st = "running",
         run'.st \in {"running", "failed", "completed"}
  PROVE  IInv'
<1> USE DEF collector, service, bounds
<1>1. SessionTyped' /\ ServiceTyped' /\ Honest(session)'
  BY DEF IInv, SessionTyped, Sessions, Calls, ServiceTyped, Clicks, Importers, Evidence, Collections, Honest
<1>2. ClicksKnow'
  BY DEF IInv, ClicksKnow, Follows
<1>3. ImportersKnow'
  BY DEF IInv, ImportersKnow, Knows, Follows
<1>4. WholeRunStored' /\ RightAccount'
  BY DEF IInv, WholeRunStored, RightAccount
<1> QED
  BY <1>1, <1>2, <1>3, <1>4 DEF IInv

LEMMA CollectionKeeps ==
  ASSUME IInv, RunFails \/ CheckIdentity \/ VisitNext \/ PageOpens \/ CommentsArrive \/ EmitEvents
  PROVE  IInv'
<1>1. /\ run \in Collections /\ run.st = "running" /\ run.id # 0 /\ UNCHANGED <<collector, service, bounds>>
      /\ session' = session
  BY DEF IInv, RunTyped, RunFails, CheckIdentity, VisitNext, PageOpens, CommentsArrive, EmitEvents, RunStep, collector
<1>2. CASE RunFails \/ EmitEvents
  <2>1. PICK st \in {"failed", "completed"} : run' = Ended(st) /\ (st = "completed" => run.pc = "visit")
    BY <1>2 DEF RunFails, EmitEvents, RunStep
  <2>2. run' \in Collections /\ run'.id = run.id /\ run'.st = st /\ run'.pc = "none" /\ run'.owner = run.owner
        /\ run'.open = 0 /\ run'.visit = 0 /\ run'.filed = {}
    BY <1>1, <2>1 DEF Ended, Collections
  <2>3. RunTyped'
    BY <1>1, <2>1, <2>2 DEF IInv, RunTyped, FiledNearby
  <2> QED
    BY <1>1, <2>2, <2>3, RunKeeps
<1>3. CASE CheckIdentity
  <2>1. run' = [run EXCEPT !.pc = "visit", !.owner = page] /\ page \in Accounts /\ page = session.bound
    BY <1>3 DEF CheckIdentity, RunStep
  <2>2. run' \in Collections /\ run'.id = run.id /\ run'.st = "running" /\ run'.owner = page
        /\ run'.open = run.open /\ run'.visit = run.visit /\ run'.filed = run.filed
    BY <1>1, <2>1 DEF Collections
  <2>3. RunTyped'
    BY <1>1, <2>1, <2>2, AccountAssumption DEF IInv, RunTyped, FiledNearby
  <2> QED
    BY <1>1, <2>2, <2>3, RunKeeps
<1>4. CASE VisitNext \/ PageOpens
  <2>1. \/ run' = [run EXCEPT !.visit = @ + 1] /\ run.open = run.visit
        \/ run' = [run EXCEPT !.open = run.visit]
    BY <1>4 DEF VisitNext, PageOpens, RunStep
  <2>2. run.visit \in Nat /\ run.open \in Nat
    BY <1>1 DEF Collections
  <2>3. run' \in Collections /\ run'.id = run.id /\ run'.st = "running" /\ run'.owner = run.owner /\ run'.pc = run.pc
        /\ run'.filed = run.filed
    BY <1>1, <2>1, <2>2 DEF Collections
  <2>4. run'.visit \in {run'.open, run'.open + 1}
    BY <1>1, <2>1, <2>2 DEF Collections
  <2>5. RunTyped'
    BY <1>1, <2>3, <2>4 DEF IInv, RunTyped, FiledNearby
  <2> QED
    BY <1>1, <2>3, <2>5, RunKeeps
<1>5. CASE CommentsArrive
  <2>1. run' = [run EXCEPT !.filed = @ \cup {<<run.open, run.visit>>}]
    BY <1>5 DEF CommentsArrive, RunStep
  <2>2. run.visit \in Nat /\ run.open \in Nat /\ run.filed \cup {<<run.open, run.visit>>} \in SUBSET (Nat \X Nat)
    <3>1. run.visit \in Nat /\ run.open \in Nat /\ run.filed \in SUBSET (Nat \X Nat)
      BY <1>1 DEF Collections
    <3> QED
      BY <3>1
  <2>3. run' \in Collections /\ run'.id = run.id /\ run'.st = "running" /\ run'.owner = run.owner /\ run'.pc = run.pc
        /\ run'.open = run.open /\ run'.visit = run.visit /\ run'.filed = run.filed \cup {<<run.open, run.visit>>}
    BY <1>1, <2>1, <2>2 DEF Collections
  <2>4. FiledNearby'
    BY <2>2, <2>3 DEF IInv, RunTyped, FiledNearby
  <2>5. RunTyped'
    BY <1>1, <2>3, <2>4 DEF IInv, RunTyped
  <2> QED
    BY <1>1, <2>3, <2>5, RunKeeps
<1> QED
  BY <1>2, <1>3, <1>4, <1>5

-------------------------------------------------------------------------------
(* Steps of the API *)

\* A step of the API that leaves the collector alone.
LEMMA ServiceKeeps ==
  ASSUME IInv, UNCHANGED <<collector, run, boots>>, requests' \in 0..MaxRequests, requests <= requests', ServiceTyped',
         ClicksKnow', ImportersKnow', WholeRunStored', RightAccount'
  PROVE  IInv'
<1> USE DEF collector
<1>1. 0..requests \subseteq 0..requests' /\ 1..requests \subseteq 1..requests'
  BY Known, BoundAssumption
<1>2. calls \subseteq Calls' /\ session \in Sessions'
  BY <1>1, Known DEF Calls, Sessions
<1>3. SessionTyped'
  BY <1>2, Known DEF SessionTyped
<1>4. Honest(session)' /\ RunTyped'
  BY DEF IInv, Honest, RunTyped, Collections, FiledNearby
<1> QED
  BY <1>3, <1>4 DEF IInv

LEMMA AskStatusKeeps == IInv /\ AskStatus => IInv'
<1> SUFFICES ASSUME IInv, AskStatus PROVE IInv'
  OBVIOUS
<1> DEFINE k == [no |-> requests', pc |-> "bind", who |-> session.shown, boot |-> boots, run |-> 0, straight |-> TRUE]
<1>1. /\ requests' = requests + 1 /\ requests' \in 0..MaxRequests /\ requests <= requests'
      /\ clicks' = clicks \cup {k} /\ UNCHANGED <<collector, run, api, importers, db, boots, faults>>
  BY Known, BoundAssumption DEF AskStatus
<1>2. session.shown \in Accounts /\ session.shown = session.bound
  BY Known DEF AskStatus, Honest, Sessions
<1>3. k \in Clicks'
  BY <1>1, <1>2, Known, BoundAssumption DEF Clicks, IInv, ServiceTyped
<1>4. k.pc = "bind" /\ k.who = session.bound /\ k.boot = boots
  BY <1>2
<1> HIDE DEF k
<1>5. 1..requests \subseteq 1..requests'
  BY <1>1, Known
<1>6. ServiceTyped'
  BY <1>1, <1>3, <1>5 DEF IInv, ServiceTyped, Clicks, Importers, Evidence, Collections
<1>7. boots \in Nat
  BY DEF IInv, ServiceTyped
<1>8. ClicksKnow'
  BY <1>1, <1>4, <1>7 DEF IInv, ClicksKnow, Follows, collector
<1>9. ImportersKnow' /\ WholeRunStored' /\ RightAccount'
  BY <1>1 DEF IInv, ImportersKnow, Knows, Follows, WholeRunStored, RightAccount, collector
<1> QED
  BY <1>1, <1>6, <1>8, <1>9, ServiceKeeps

LEMMA BindAccountKeeps ==
  ASSUME IInv, NEW k \in clicks, BindAccount(k) \/ ClickFails(k)
  PROVE  IInv'
<1> USE DEF bounds
<1>1. k \in Clicks
  BY DEF IInv, ServiceTyped
<1>2. UNCHANGED <<collector, run, api, importers, requests, boots>> /\ faults' \in 0..MaxFaults /\ db'.stored = db.stored
      /\ db' \in [accounts : SUBSET (Accounts \cup {Placeholder}), stored : SUBSET Evidence, jobs : SUBSET Runs]
  <2>1. CASE BindAccount(k)
    <3>1. db' \in {db, [db EXCEPT !.accounts = (@ \ {Placeholder}) \cup {k.who}]}
      BY <2>1 DEF BindAccount, IInv, ServiceTyped
    <3> QED
      BY <1>1, <2>1, <3>1 DEF BindAccount, IInv, ServiceTyped, Clicks
  <2>2. CASE ClickFails(k)
    BY <2>2, BoundAssumption DEF ClickFails, Fault, IInv, ServiceTyped
  <2> QED
    BY <2>1, <2>2
<1>3. clicks' \subseteq Clicks /\ \A c \in clicks' \ clicks : c.pc = "sync" /\ c.who = k.who /\ c.boot = k.boot /\ k.pc = "bind"
  <2>1. CASE BindAccount(k)
    <3>1. clicks' = (clicks \ {k}) \cup {[k EXCEPT !.pc = "sync"]} /\ k.pc = "bind"
      BY <2>1 DEF BindAccount, GoOn
    <3> QED
      BY <1>1, <3>1 DEF Clicks, IInv, ServiceTyped
  <2>2. CASE ClickFails(k)
    BY <2>2 DEF ClickFails, IInv, ServiceTyped
  <2> QED
    BY <2>1, <2>2
<1>4. ServiceTyped'
  BY <1>2, <1>3 DEF IInv, ServiceTyped, Clicks, Importers, Evidence, Collections
<1>5. ClicksKnow'
  BY <1>2, <1>3 DEF IInv, ClicksKnow, Follows, collector
<1>6. ImportersKnow' /\ WholeRunStored' /\ RightAccount'
  BY <1>2 DEF IInv, ImportersKnow, Knows, Follows, WholeRunStored, RightAccount, collector
<1> QED
  BY <1>2, <1>4, <1>5, <1>6, Known, ServiceKeeps

\* The run found or started is one of the process the click has asked, if it is that still.
LEMMA StartRunKeeps ==
  ASSUME IInv, NEW k \in clicks, StartRun(k)
  PROVE  IInv'
<1> USE DEF collector, bounds
<1> DEFINE same == k.boot = boots
<1>1. k \in Clicks /\ k.pc = "sync" /\ UNCHANGED <<collector, api, importers, db, bounds>>
  BY DEF StartRun, IInv, ServiceTyped
<1>2. PICK c : c = [k EXCEPT !.pc = "reply", !.run = run'.id, !.straight = same] /\ clicks' = (clicks \ {k}) \cup {c}
  BY DEF StartRun, GoOn
<1>3. run \in Collections /\ run.id \in 0..MaxRuns /\ MaxRuns \in Nat
  BY BoundAssumption DEF IInv, RunTyped, Collections
<1>4. /\ run' \in Collections /\ run'.st = "running" /\ run'.id \in Runs /\ run.id <= run'.id
      /\ run'.id = run.id => run' = run
      /\ RunTyped'
  <2>1. CASE run.st = "running"
    <3>1. run' = run /\ run.id # 0
      BY <2>1 DEF StartRun, IInv, RunTyped
    <3> QED
      BY <1>1, <1>3, <2>1, <3>1 DEF IInv, RunTyped, Runs, Collections, FiledNearby
  <2>2. CASE run.st # "running"
    <3>1. run' = [NoRun EXCEPT !.id = run.id + 1, !.st = "running", !.pc = "check"] /\ run.id < MaxRuns
      BY <2>2 DEF StartRun
    <3>2. run.id + 1 \in 0..MaxRuns /\ run.id + 1 \in Runs /\ run.id <= run.id + 1 /\ run.id # run.id + 1 /\ run.id + 1 # 0
      BY <1>3, <3>1 DEF Runs
    <3>3. run' \in Collections /\ run'.id = run.id + 1 /\ run'.st = "running" /\ run'.pc = "check" /\ run'.owner = None
          /\ run'.open = 0 /\ run'.visit = 0 /\ run'.filed = {}
      BY <3>1, <3>2 DEF NoRun, Collections
    <3> QED
      BY <3>2, <3>3 DEF RunTyped, FiledNearby
  <2> QED
    BY <2>1, <2>2
<1>5. \A r \in Nat : \A who : Follows(r, who) => Follows(r, who)'
  <2> SUFFICES ASSUME NEW r \in Nat, NEW who, Follows(r, who) PROVE Follows(r, who)'
    OBVIOUS
  <2>1. run.id \in Nat /\ run'.id \in Nat
    BY <1>3, <1>4 DEF Runs
  <2> QED
    BY <1>1, <1>4, <2>1, FollowsOn
<1>6. same \in BOOLEAN
  OBVIOUS
<1>7. same => k.who = session.bound
  BY <1>1 DEF IInv, ClicksKnow
<1> HIDE DEF same
<1>8. c \in Clicks /\ c.pc = "reply" /\ c.run = run'.id /\ c.who = k.who /\ c.boot = k.boot /\ (c.straight <=> same)
  BY <1>1, <1>2, <1>4, <1>6 DEF Clicks, Collections
<1>9. SessionTyped' /\ Honest(session)'
  BY <1>1 DEF IInv, SessionTyped, Sessions, Calls, Honest
<1>10. ServiceTyped'
  BY <1>1, <1>2, <1>8 DEF IInv, ServiceTyped, Clicks, Importers, Evidence, Collections
<1>11. \A x \in clicks : x.run \in Nat /\ (x.pc = "reply" => x.run <= run'.id)
  BY <1>3, <1>4 DEF IInv, ServiceTyped, Clicks, ClicksKnow, Runs
<1>12. ClicksKnow'
  <2>1. c.boot <= boots /\ c.run # 0 /\ c.run <= run'.id /\ (c.straight => Follows(c.run, c.who)')
    <3>1. c.who # None /\ k.boot <= boots
      BY <1>1, <1>8, AccountAssumption DEF Clicks, IInv, ClicksKnow
    <3>2. c.run # 0 /\ c.run <= run'.id
      BY <1>4, <1>8 DEF Runs
    <3>3. c.straight => c.who = session'.bound
      BY <1>1, <1>7, <1>8
    <3>4. c.straight => Follows(c.run, c.who)'
      BY <3>1, <3>2, <3>3 DEF Follows
    <3>5. c.boot <= boots
      BY <1>8, <3>1
    <3> QED
      BY <3>2, <3>4, <3>5
  <2>2. \A x \in clicks : /\ x.boot <= boots
                          /\ x.pc # "reply" /\ x.boot = boots => x.who = session.bound
                          /\ x.pc = "reply" => x.run # 0 /\ x.run <= run'.id /\ (x.straight => Follows(x.run, x.who)')
    BY <1>5, <1>11 DEF IInv, ClicksKnow
  <2>3. boots' = boots /\ session' = session /\ clicks' \subseteq clicks \cup {c}
    BY <1>1, <1>2
  <2>4. \A x \in clicks \cup {c} :
          /\ x.boot <= boots
          /\ x.pc # "reply" /\ x.boot = boots => x.who = session.bound
          /\ x.pc = "reply" => x.run # 0 /\ x.run <= run'.id /\ (x.straight => Follows(x.run, x.who)')
    BY <1>8, <2>1, <2>2
  <2> QED
    BY <2>3, <2>4 DEF ClicksKnow
<1>13. ImportersKnow'
  <2>1. ASSUME NEW i \in importers PROVE Knows(i)'
    <3>1. Knows(i) /\ i.run \in Nat
      BY BoundAssumption DEF IInv, ImportersKnow, ServiceTyped, Importers, Runs
    <3>2. i.straight => Follows(i.run, api.platform[i.run])'
      BY <1>1, <1>5, <3>1 DEF Knows
    <3>3. i.run <= run'.id
      BY <1>3, <1>4, <3>1 DEF Knows, Runs
    <3>4. i.pc = "events" => (i.run = run'.id => run'.st \in {"completed", "lost"})
      <4>1. i.run = run'.id => run' = run
        BY <1>3, <1>4, <3>1 DEF Knows, Runs
      <4> QED
        BY <3>1, <4>1 DEF Knows
    <3> QED
      BY <1>1, <3>1, <3>2, <3>3, <3>4 DEF Knows
  <2> QED
    BY <1>1, <2>1 DEF IInv, ImportersKnow
<1>14. WholeRunStored' /\ RightAccount'
  BY <1>1 DEF IInv, WholeRunStored, RightAccount
<1> QED
  BY <1>4, <1>9, <1>10, <1>12, <1>13, <1>14 DEF IInv

\* A loop that begins is the only one of its run.
LEMMA StartImportKeeps ==
  ASSUME IInv, NEW k \in clicks, StartImport(k)
  PROVE  IInv'
<1> USE DEF collector, bounds
<1> DEFINE r == k.run
           i == [by |-> k.no, run |-> r, pc |-> "poll", polls |-> 0, straight |-> k.straight, got |-> NoRun]
<1>1. /\ k \in Clicks /\ k.pc = "reply" /\ clicks' = clicks \ {k} /\ r \in Runs /\ r <= run.id
      /\ k.straight => Follows(r, k.who)
      /\ UNCHANGED <<collector, run, db, bounds>>
  BY DEF StartImport, IInv, ServiceTyped, Clicks, ClicksKnow, Runs
<1>2. ClicksKnow'
  BY <1>1 DEF IInv, ClicksKnow, Follows
<1>3. WholeRunStored' /\ RightAccount'
  BY <1>1 DEF IInv, WholeRunStored, RightAccount
<1>4. requests' = requests /\ boots' = boots /\ UNCHANGED <<collector, run>>
  BY <1>1
<1>5. CASE NotImporting(r)
  <2>1. /\ api' = [api EXCEPT !.platform[r] = k.who, !.imports[r] = "running"]
        /\ importers' = importers \cup {i}
    BY <1>5 DEF StartImport
  <2>2. /\ api' \in [imports : [Runs -> {None, "running", "completed", "failed"}], platform : [Runs -> Accounts \cup {None}]]
        /\ api'.platform[r] = k.who /\ api'.imports[r] = "running"
        /\ \A x \in Runs \ {r} : api'.platform[x] = api.platform[x] /\ api'.imports[x] = api.imports[x]
    BY <1>1, <2>1 DEF IInv, ServiceTyped, Clicks
  <2>3. NoRun \in Collections
    BY BoundAssumption DEF NoRun, Collections
  <2>4. i \in Importers /\ i.run = r /\ i.pc = "poll" /\ (i.straight <=> k.straight)
    <3>1. k.no \in Nat /\ 0 \in 0..MaxPolls - 1 /\ k.straight \in BOOLEAN
      BY <1>1, BoundAssumption, Known DEF Clicks
    <3>2. i.run = r /\ i.pc = "poll" /\ (i.straight <=> k.straight)
      OBVIOUS
    <3>3. i \in Importers
      BY <1>1, <2>3, <3>1, Zenon DEF Importers
    <3> QED
      BY <3>2, <3>3
  <2> HIDE DEF i
  <2>5. ServiceTyped'
    BY <1>1, <2>1, <2>2, <2>4 DEF IInv, ServiceTyped, Clicks, Importers, Evidence, Collections
  <2>6. \A x \in importers : x.run \in Runs \ {r}
    BY <1>5 DEF IInv, ImportersKnow, Knows, NotImporting, ServiceTyped, Importers
  <2>7. Knows(i)'
    BY <1>1, <2>2, <2>4 DEF Knows, Follows
  <2>8. \A x \in importers : Knows(x)'
    BY <1>1, <2>2, <2>6 DEF IInv, ImportersKnow, Knows, Follows
  <2>9. ImportersKnow'
    BY <2>1, <2>4, <2>6, <2>7, <2>8 DEF IInv, ImportersKnow
  <2> QED
    BY <1>2, <1>3, <1>4, <2>5, <2>9, Known, ServiceKeeps
<1>6. CASE ~NotImporting(r)
  <2>1. UNCHANGED <<api, importers>>
    BY <1>6 DEF StartImport
  <2>2. ServiceTyped'
    BY <1>1, <2>1 DEF IInv, ServiceTyped, Clicks, Importers, Evidence, Collections
  <2>3. ImportersKnow'
    BY <1>1, <2>1 DEF IInv, ImportersKnow, Knows, Follows
  <2> QED
    BY <1>2, <1>3, <1>4, <2>2, <2>3, Known, ServiceKeeps
<1> QED
  BY <1>5, <1>6

\* A loop goes on with its run.
LEMMA StepKeeps ==
  ASSUME IInv, NEW i \in importers, NEW j \in Importers, Step(i, j), j.run = i.run, Knows(j),
         UNCHANGED <<collector, run, clicks, api, bounds>>,
         db' \in [accounts : SUBSET (Accounts \cup {Placeholder}), stored : SUBSET Evidence, jobs : SUBSET Runs],
         WholeRunStored', RightAccount'
  PROVE  IInv'
<1> USE DEF collector, bounds
<1>1. importers' = (importers \ {i}) \cup {j}
  BY DEF Step
<1>2. ServiceTyped'
  BY <1>1 DEF IInv, ServiceTyped, Clicks, Importers, Evidence, Collections
<1>3. ClicksKnow'
  BY DEF IInv, ClicksKnow, Follows
<1>4. \A x \in importers \cup {j} : Knows(x)'
  BY DEF IInv, ImportersKnow, Knows, Follows
<1>5. \A x, y \in importers' : x.run = y.run => x = y
  BY <1>1 DEF IInv, ImportersKnow
<1>6. ImportersKnow'
  BY <1>1, <1>4, <1>5 DEF ImportersKnow
<1> QED
  BY <1>2, <1>3, <1>6, Known, ServiceKeeps

\* A loop ends, and its run is free.
LEMMA EndsKeeps ==
  ASSUME IInv, NEW i \in importers, NEW how \in {"completed", "failed"}, Ends(i, how),
         UNCHANGED <<collector, run, clicks, requests, boots>>, faults' \in 0..MaxFaults,
         db' \in [accounts : SUBSET (Accounts \cup {Placeholder}), stored : SUBSET Evidence, jobs : SUBSET Runs],
         db'.stored = db.stored
  PROVE  IInv'
<1> USE DEF collector
<1>1. importers' = importers \ {i} /\ api' = [api EXCEPT !.imports[i.run] = how, !.platform[i.run] = None]
  BY DEF Ends
<1>2. i.run \in Runs
  BY DEF IInv, ServiceTyped, Importers
<1>3. /\ api' \in [imports : [Runs -> {None, "running", "completed", "failed"}], platform : [Runs -> Accounts \cup {None}]]
      /\ \A x \in Runs \ {i.run} : api'.platform[x] = api.platform[x] /\ api'.imports[x] = api.imports[x]
  BY <1>1, <1>2 DEF IInv, ServiceTyped
<1>4. ServiceTyped'
  BY <1>1, <1>3 DEF IInv, ServiceTyped, Clicks, Importers, Evidence, Collections
<1>5. ClicksKnow'
  BY DEF IInv, ClicksKnow, Follows
<1>6. \A x \in importers' : x.run \in Runs \ {i.run}
  BY <1>1 DEF IInv, ImportersKnow, ServiceTyped, Importers
<1>7. ImportersKnow'
  BY <1>1, <1>3, <1>6 DEF IInv, ImportersKnow, Knows, Follows
<1>8. WholeRunStored' /\ RightAccount'
  BY DEF IInv, WholeRunStored, RightAccount
<1> QED
  BY <1>4, <1>5, <1>7, <1>8, Known, ServiceKeeps

LEMMA PollKeeps ==
  ASSUME IInv, NEW i \in importers, Poll(i)
  PROVE  IInv'
<1> USE DEF bounds
<1>1. i \in Importers /\ Knows(i) /\ i.pc = "poll" /\ UNCHANGED <<collector, run, clicks, bounds>> /\ run.id \in Nat
  BY DEF Poll, IInv, ServiceTyped, ImportersKnow, RunTyped, Collections
<1>2. CASE ImportFails(i)
  <2>1. Ends(i, "failed") /\ db' = db
    BY <1>2 DEF ImportFails
  <2> QED
    BY <1>1, <2>1, EndsKeeps DEF IInv, ServiceTyped
<1>3. CASE ~ImportFails(i)
  <2> DEFINE next == [i EXCEPT !.pc = "events"]
             again == [i EXCEPT !.polls = @ + 1]
  <2>1. \/ Step(i, next) /\ run.id = i.run /\ run.st = "completed"
        \/ Step(i, again) /\ ~LastPoll(i)
    BY <1>3 DEF Poll
  <2>2. UNCHANGED <<api, db>>
    BY <1>3 DEF Poll
  <2>3. next \in Importers /\ next.run = i.run /\ next.pc = "events" /\ (next.straight <=> i.straight)
    BY <1>1 DEF Importers
  <2>4. ~LastPoll(i) => again \in Importers
    <3>1. i.polls \in 0..MaxPolls - 1 /\ MaxPolls \in Nat \ {0}
      BY <1>1, BoundAssumption DEF Importers
    <3>2. ~LastPoll(i) => i.polls + 1 \in 0..MaxPolls - 1
      BY <3>1 DEF LastPoll
    <3> QED
      BY <1>1, <3>2 DEF Importers
  <2>5. again.run = i.run /\ again.pc = "poll" /\ (again.straight <=> i.straight)
    BY <1>1 DEF Importers
  <2> HIDE DEF next, again
  <2>6. run.id = i.run /\ run.st = "completed" => Knows(next)
    BY <1>1, <2>3 DEF Knows
  <2>7. Knows(again)
    BY <1>1, <2>5 DEF Knows
  <2>8. WholeRunStored' /\ RightAccount' /\ db' = db
        /\ db \in [accounts : SUBSET (Accounts \cup {Placeholder}), stored : SUBSET Evidence, jobs : SUBSET Runs]
    BY <2>2 DEF IInv, WholeRunStored, RightAccount, ServiceTyped
  <2>9. UNCHANGED <<collector, run, clicks, api, bounds>>
    BY <1>1, <2>2
  <2> QED
    BY <2>1, <2>3, <2>4, <2>5, <2>6, <2>7, <2>8, <2>9, StepKeeps
<1> QED
  BY <1>2, <1>3

\* The events fetched are those of the run that completed, of the account it was bound to.
LEMMA FetchKeeps ==
  ASSUME IInv, NEW i \in importers, Fetch(i)
  PROVE  IInv'
<1> USE DEF bounds
<1>1. i \in Importers /\ Knows(i) /\ i.pc = "events" /\ UNCHANGED <<collector, run, clicks, bounds>> /\ run \in Collections
  BY DEF Fetch, IInv, ServiceTyped, ImportersKnow, RunTyped
<1>2. CASE ~Serves(i.run)
  <2>1. Ends(i, "failed") /\ db' = db
    BY <1>2 DEF Fetch, ImportFails
  <2> QED
    BY <1>1, <2>1, EndsKeeps DEF IInv, ServiceTyped
<1>3. CASE Serves(i.run)
  <2> DEFINE j == [i EXCEPT !.pc = "store", !.got = run]
  <2>1. Step(i, j) /\ UNCHANGED <<api, db>>
    BY <1>3 DEF Fetch
  <2>2. run.id = i.run /\ run.st = "completed"
    BY <1>1, <1>3 DEF Serves, Knows
  <2>3. i.straight => run.owner = api.platform[i.run]
    BY <1>1, <2>2 DEF Knows, Follows, IInv, RunTyped
  <2>4. j \in Importers /\ j.run = i.run /\ j.pc = "store" /\ j.got = run /\ (j.straight <=> i.straight)
    BY <1>1 DEF Importers
  <2> HIDE DEF j
  <2>5. Knows(j)
    BY <1>1, <2>2, <2>3, <2>4 DEF Knows
  <2>6. WholeRunStored' /\ RightAccount' /\ db' = db
        /\ db \in [accounts : SUBSET (Accounts \cup {Placeholder}), stored : SUBSET Evidence, jobs : SUBSET Runs]
    BY <2>1 DEF IInv, WholeRunStored, RightAccount, ServiceTyped
  <2>7. UNCHANGED <<collector, run, clicks, api, bounds>>
    BY <1>1, <2>1
  <2> QED
    BY <2>1, <2>4, <2>5, <2>6, <2>7, StepKeeps
<1> QED
  BY <1>2, <1>3

LEMMA StoreKeeps ==
  ASSUME IInv, NEW i \in importers, Store(i)
  PROVE  IInv'
<1> USE DEF bounds
<1>1. i \in Importers /\ Knows(i) /\ i.pc = "store" /\ UNCHANGED <<collector, run, clicks, bounds>>
  BY DEF Store, IInv, ServiceTyped, ImportersKnow
<1>2. CASE api.platform[i.run] = None
  <2>1. Ends(i, "failed") /\ db' = db
    BY <1>2 DEF Store, ImportFails
  <2> QED
    BY <1>1, <2>1, EndsKeeps DEF IInv, ServiceTyped
<1>3. CASE api.platform[i.run] # None
  <2> DEFINE j == [i EXCEPT !.pc = "record"]
             e == [run |-> i.run, account |-> api.platform[i.run], got |-> i.got, straight |-> i.straight]
  <2>1. Step(i, j) /\ UNCHANGED api /\ db' = [db EXCEPT !.stored = @ \cup {e}]
    BY <1>3 DEF Store
  <2>2. j \in Importers /\ j.run = i.run /\ j.pc = "record" /\ j.got = i.got /\ (j.straight <=> i.straight)
    BY <1>1 DEF Importers
  <2>3. e \in Evidence
    <3>1. i.run \in Runs /\ i.got \in Collections /\ i.straight \in BOOLEAN /\ api.platform[i.run] \in Accounts \cup {None}
      BY <1>1 DEF Importers, IInv, ServiceTyped
    <3> QED
      BY <3>1, Zenon DEF Evidence
  <2>4. e.got.id = e.run /\ e.got.st = "completed" /\ (e.straight => e.account = e.got.owner)
    BY <1>1 DEF Knows
  <2> HIDE DEF e, j
  <2>5. /\ db' \in [accounts : SUBSET (Accounts \cup {Placeholder}), stored : SUBSET Evidence, jobs : SUBSET Runs]
        /\ db'.stored = db.stored \cup {e}
    BY <2>1, <2>3 DEF IInv, ServiceTyped
  <2>6. WholeRunStored' /\ RightAccount'
    BY <2>4, <2>5 DEF IInv, WholeRunStored, RightAccount
  <2>7. Knows(j)
    BY <1>1, <2>2 DEF Knows
  <2>8. UNCHANGED <<collector, run, clicks, api, bounds>>
    BY <1>1, <2>1
  <2> QED
    BY <2>1, <2>2, <2>5, <2>6, <2>7, <2>8, StepKeeps
<1> QED
  BY <1>2, <1>3

LEMMA RecordKeeps ==
  ASSUME IInv, NEW i \in importers, Record(i) \/ ImportBreaks(i)
  PROVE  IInv'
<1> USE DEF bounds
<1>1. PICK how \in {"completed", "failed"} : Ends(i, how)
  BY DEF Record, ImportBreaks, ImportFails
<1>2. UNCHANGED <<collector, run, clicks, requests, boots>> /\ faults' \in 0..MaxFaults
  BY BoundAssumption, Known DEF Record, ImportBreaks, Fault
<1>3. db' \in {db, [db EXCEPT !.jobs = @ \cup {i.run}]}
  BY DEF Record, ImportBreaks, ImportFails
<1>4. i.run \in Runs
  BY DEF IInv, ServiceTyped, Importers
<1>5. /\ db' \in [accounts : SUBSET (Accounts \cup {Placeholder}), stored : SUBSET Evidence, jobs : SUBSET Runs]
      /\ db'.stored = db.stored
  BY <1>3, <1>4 DEF IInv, ServiceTyped
<1> QED
  BY <1>1, <1>2, <1>5, EndsKeeps

LEMMA ApiRestartsKeeps == IInv /\ ApiRestarts => IInv'
<1> SUFFICES ASSUME IInv, ApiRestarts PROVE IInv'
  OBVIOUS
<1>1. /\ api' = NoApi /\ importers' = {} /\ clicks' = {} /\ faults' \in 0..MaxFaults
      /\ UNCHANGED <<collector, run, db, requests, boots>>
  BY Known, BoundAssumption DEF ApiRestarts, Fault
<1>2. ServiceTyped'
  BY <1>1 DEF IInv, ServiceTyped, NoApi, Evidence, Collections
<1>3. ClicksKnow' /\ ImportersKnow' /\ WholeRunStored' /\ RightAccount'
  BY <1>1 DEF IInv, ClicksKnow, ImportersKnow, WholeRunStored, RightAccount
<1> QED
  BY <1>1, <1>2, <1>3, Known, ServiceKeeps

-------------------------------------------------------------------------------
LEMMA Inductive == IInv /\ [Next]_vars => IInv'
<1> SUFFICES ASSUME IInv, [Next]_vars PROVE IInv'
  OBVIOUS
<1>1. CASE UNCHANGED vars
  <2>1. UNCHANGED <<run, service, boots>> /\ requests' = requests /\ faults' = faults
    BY <1>1 DEF vars, bounds
  <2>2. SessionTyped' /\ Honest(session)' /\ session' = session
    BY <1>1 DEF vars, collector, bounds, IInv, SessionTyped, Sessions, Calls, Honest
  <2> QED
    BY <2>1, <2>2, Known, SessionKeeps
<1>2. CASE PageTurns \/ WindowClosed \/ CollectorRestarts \/ ExpireQr \/ Start \/ Refresh \/ Close
  BY <1>2, BrowserKeeps, RestartKeeps, RequestsKeep
<1>3. CASE \E c \in calls : Launch(c) \/ Detect(c) \/ CaptureQr(c) \/ ReadIdentity(c) \/ TakeHandle(c) \/ CloseBrowser(c)
  BY <1>3, LaunchKeeps, DetectKeeps, QrKeeps, IdentityKeeps, CloseKeeps
<1>4. CASE RunFails \/ CheckIdentity \/ VisitNext \/ PageOpens \/ CommentsArrive \/ EmitEvents
  BY <1>4, CollectionKeeps
<1>5. CASE AskStatus \/ ApiRestarts
  BY <1>5, AskStatusKeeps, ApiRestartsKeeps
<1>6. CASE \E k \in clicks : BindAccount(k) \/ StartRun(k) \/ StartImport(k) \/ ClickFails(k)
  BY <1>6, BindAccountKeeps, StartRunKeeps, StartImportKeeps
<1>7. CASE \E i \in importers : ImportRun(i) \/ ImportBreaks(i)
  BY <1>7, PollKeeps, FetchKeeps, StoreKeeps, RecordKeeps DEF ImportRun
<1> QED
  BY <1>1, <1>2, <1>3, <1>4, <1>5, <1>6, <1>7 DEF Next

\* The invariant of the session, the run and the imports holds always.
THEOREM Invariance == Spec => []IInv
BY Initially, Inductive, PTL DEF Spec

\* While nothing fails, the browser of a session that shows an account is open.
Attended == session.state = "authenticated" => Reachable \/ faults > 0

LEMMA AttendedKept == IInv /\ Attended /\ [Next]_vars => Attended'
<1> SUFFICES ASSUME IInv, Attended, [Next]_vars PROVE Attended'
  OBVIOUS
<1> USE DEF collector, service, bounds
<1>1. session \in Sessions /\ faults \in Nat /\ launched \in Nat
  BY Known, BoundAssumption
<1>2. ASSUME faults' = faults + 1 PROVE Attended'
  BY <1>1, <1>2 DEF Attended
<1>3. ASSUME UNCHANGED <<browser, faults>>, session'.adapter = session.adapter,
             session'.state = "authenticated" => session.state = "authenticated"
      PROVE  Attended'
  BY <1>3 DEF Attended, Reachable
<1>4. ASSUME NEW c \in calls, NEW s, Return(c, s), s \in Sessions, UNCHANGED <<browser, faults>>, s.adapter = session.adapter,
             s.state = "authenticated" => session.state = "authenticated"
      PROVE  Attended'
  <2>1. session' \in {s, [s EXCEPT !.launching = 0]}
    BY <1>4 DEF Return
  <2>2. session'.adapter = s.adapter /\ session'.state = s.state
    BY <1>4, <2>1 DEF Sessions
  <2> QED
    BY <1>3, <1>4, <2>2
<1>5. CASE UNCHANGED vars
  BY <1>3, <1>5 DEF vars
<1>6. CASE PageTurns \/ ExpireQr \/ Start \/ Refresh \/ Close
  <2>1. UNCHANGED <<browser, faults>>
    BY <1>6 DEF PageTurns, ExpireQr, Start, Refresh, Close, Ask
  <2>2. session' \in {session, [session EXCEPT !.qr = FALSE], [SetState(session, "launching") EXCEPT !.launching = requests']}
    BY <1>6 DEF PageTurns, ExpireQr, Start, Refresh, Close, Ask
  <2> QED
    BY <1>1, <1>3, <2>1, <2>2 DEF SetState, Sessions
<1>7. CASE WindowClosed \/ CollectorRestarts \/ ApiRestarts
  BY <1>2, <1>7 DEF WindowClosed, CollectorRestarts, ApiRestarts, Fault
<1>8. CASE \E c \in calls : Launch(c) \/ Detect(c) \/ CaptureQr(c) \/ ReadIdentity(c) \/ TakeHandle(c) \/ CloseBrowser(c)
  <2>0. PICK c \in calls : Launch(c) \/ Detect(c) \/ CaptureQr(c) \/ ReadIdentity(c) \/ TakeHandle(c) \/ CloseBrowser(c)
    BY <1>8
  <2>1. \A st \in States \ {"authenticated"} :
          /\ SetState(session, st) \in Sessions /\ SetState(session, st).adapter = session.adapter
          /\ SetState(session, st).state # "authenticated"
    BY <1>1 DEF SetState, Sessions
  <2>2. ASSUME NEW s, s = [session EXCEPT !.qr = FALSE]
        PROVE  /\ s \in Sessions /\ s.adapter = session.adapter /\ s.state = session.state
               /\ \A st \in States \ {"authenticated"} :
                    /\ SetState(s, st) \in Sessions /\ SetState(s, st).adapter = session.adapter
                    /\ SetState(s, st).state # "authenticated"
    BY <1>1, <2>2 DEF SetState, Sessions
  <2>3. CASE Launch(c)
    <3>1. CASE Return(c, SetState(session, "error")) /\ UNCHANGED <<browser, page, launched>>
      BY <1>4, <2>1, <2>3, <3>1 DEF Launch, States
    <3>2. CASE browser = 0 /\ session' = [session EXCEPT !.handle = launched', !.adapter = IF @ = 0 THEN launched' ELSE @]
      <4>1. session'.state = session.state /\ faults' = faults
        BY <1>1, <2>3, <3>2 DEF Launch, Sessions
      <4>2. ~Reachable
        BY <3>2 DEF Reachable
      <4> QED
        BY <4>1, <4>2 DEF Attended
    <3> QED
      BY <2>3, <3>1, <3>2 DEF Launch
  <2>4. CASE Detect(c)
    <3>1. UNCHANGED <<browser, faults>>
      BY <2>4 DEF Detect
    <3>2. PICK clean : clean = [session EXCEPT !.qr = FALSE]
      OBVIOUS
    <3>3. \/ Return(c, session) \/ Return(c, SetState(session, "launching")) \/ Return(c, SetState(clean, "verification_required"))
          \/ session' \in {session, clean}
      BY <2>4, <3>2 DEF Detect
    <3>4. clean \in Sessions /\ clean.adapter = session.adapter /\ clean.state = session.state
          /\ SetState(clean, "verification_required") \in Sessions
          /\ SetState(clean, "verification_required").adapter = session.adapter
          /\ SetState(clean, "verification_required").state # "authenticated"
      BY <2>2, <3>2 DEF States
    <3>5. CASE session' \in {session, clean}
      BY <1>3, <3>1, <3>4, <3>5
    <3>6. CASE \E s \in {session, SetState(session, "launching"), SetState(clean, "verification_required")} : Return(c, s)
      BY <1>1, <1>4, <2>1, <3>1, <3>4, <3>6 DEF States
    <3> QED
      BY <3>3, <3>5, <3>6
  <2>5. CASE CaptureQr(c)
    <3>1. UNCHANGED <<browser, faults>>
      BY <2>5 DEF CaptureQr
    <3>2. PICK q : q = [SetState(session, "awaiting_scan") EXCEPT !.qr = TRUE]
      OBVIOUS
    <3>3. q \in Sessions /\ q.adapter = session.adapter /\ q.state # "authenticated"
      BY <1>1, <3>2 DEF SetState, Sessions, States
    <3>4. Return(c, session) \/ Return(c, q)
      BY <2>5, <3>2 DEF CaptureQr
    <3> QED
      BY <1>1, <1>4, <3>1, <3>3, <3>4
  <2>6. CASE ReadIdentity(c)
    <3>1. UNCHANGED <<browser, faults>>
      BY <2>6 DEF ReadIdentity
    <3>2. CASE Reachable /\ page \in Accounts
      <4>1. Return(c, BindFirst(session, page))
        BY <2>6, <3>2 DEF ReadIdentity
      <4>2. BindFirst(session, page) \in Sessions /\ BindFirst(session, page).adapter = session.adapter
        BY <1>1, <3>2, BindingKeeps DEF BindFirst, Sessions
      <4>3. session'.adapter = session.adapter
        BY <4>1, <4>2 DEF Return, Sessions
      <4> QED
        BY <3>1, <3>2, <4>3 DEF Attended, Reachable
    <3>3. CASE ~(Reachable /\ page \in Accounts)
      <4>1. Return(c, session)
        BY <2>6, <3>3 DEF ReadIdentity
      <4> QED
        BY <1>1, <1>4, <3>1, <4>1
    <3> QED
      BY <3>2, <3>3
  <2>7. CASE TakeHandle(c)
    BY <1>1, <1>3, <2>7 DEF TakeHandle, Sessions
  <2>8. CASE CloseBrowser(c)
    <3>1. PICK s : s = Shut(session) /\ Return(c, s)
      BY <2>8 DEF CloseBrowser
    <3>2. s \in Sessions /\ s.state = "closed"
      <4>1. PICK quiet : quiet = [session EXCEPT !.qr = FALSE]
        OBVIOUS
      <4>2. s = SetState(quiet, "closed") /\ quiet \in Sessions
        BY <2>2, <3>1, <4>1 DEF Shut
      <4> QED
        BY <4>2, StateSet DEF States
    <3>3. session'.state = "closed"
      BY <3>1, <3>2 DEF Return, Sessions
    <3> QED
      BY <3>3 DEF Attended
  <2> QED
    BY <2>0, <2>3, <2>4, <2>5, <2>6, <2>7, <2>8
<1>9. CASE RunFails \/ CheckIdentity \/ VisitNext \/ PageOpens \/ CommentsArrive \/ EmitEvents
  BY <1>3, <1>9 DEF RunFails, CheckIdentity, VisitNext, PageOpens, CommentsArrive, EmitEvents, RunStep
<1>10. CASE AskStatus
  BY <1>3, <1>10 DEF AskStatus
<1>11. CASE \E k \in clicks : BindAccount(k) \/ StartRun(k) \/ StartImport(k) \/ ClickFails(k)
  <2>1. UNCHANGED <<browser, session>> /\ faults' \in {faults, faults + 1}
    BY <1>11 DEF BindAccount, StartRun, StartImport, ClickFails, Fault
  <2> QED
    BY <1>2, <1>3, <2>1
<1>12. CASE \E i \in importers : ImportRun(i) \/ ImportBreaks(i)
  <2>1. UNCHANGED <<browser, session>> /\ faults' \in {faults, faults + 1}
    BY <1>12 DEF ImportRun, Poll, Fetch, Store, Record, ImportBreaks, Fault
  <2> QED
    BY <1>2, <1>3, <2>1
<1> QED
  BY <1>5, <1>6, <1>7, <1>8, <1>9, <1>10, <1>11, <1>12 DEF Next

\* A session that shows an account is bound to it and, while nothing fails, has its browser
\* open; a closed one keeps no login code, however its requests interleave (session-manager.ts).
THEOREM SessionsAreHonest == Spec => []SessionHonest
<1>1. Init => Attended
  BY DEF Init, NoSession, Attended
<1>2. IInv /\ Attended => SessionHonest
  BY DEF IInv, Honest, Attended, SessionHonest
<1> QED
  BY <1>1, <1>2, AttendedKept, Invariance, PTL DEF Spec

\* What is imported for a run are its own events, after it completed.
THEOREM WholeRuns == Spec => []WholeRunStored
<1>1. IInv => WholeRunStored
  BY DEF IInv
<1> QED
  BY <1>1, Invariance, PTL

\* Without a restart of the collector within startSync, evidence is stored under the
\* account its run has verified.
THEOREM RightAccounts == Spec => []RightAccount
<1>1. IInv => RightAccount
  BY DEF IInv
<1> QED
  BY <1>1, Invariance, PTL

\* A nameless comment is filed under the note of its page or under the next one, for every
\* number of notes: one from the lists reaches the first note at most.
THEOREM FiledNextDoor == Spec => []FiledNearby
<1>1. IInv => FiledNearby
  BY DEF IInv, RunTyped
<1> QED
  BY <1>1, Invariance, PTL
===============================================================================
