------------------------- MODULE DouyinSessionsProofs -------------------------
(* Theorems about DouyinSessions for every set of sessions and accounts and    *)
(* every bound, overlapping updates of the session file included.              *)
EXTENDS DouyinSessions, TLAPS

Entries == Accounts \cup {None, Absent}
Managers == [no : Nat, on : BOOLEAN, record : Accounts \cup {None}, state : States, shown : Accounts \cup {None},
             handle : BOOLEAN, page : BOOLEAN, payload : Accounts \cup {None}]
Collections == [id : 0..MaxRuns, st : {"idle", "running", "completed", "failed"}, checked : BOOLEAN, owner : Accounts \cup {None}]
Quiet == {"made", "launch", "detect", "qr", "identity", "reply", "close", "remove"}
Requests == [no : Nat, s : Sessions, pc : Quiet \cup {"read", "push", "bind", "bound", "drop", "delete"},
             copy : [Sessions -> Entries], who : Accounts \cup {None}, of : Nat]
Going == Quiet \ {"close", "remove"}
Created == answered.created
Closing == answered.closing

Typed ==
  /\ file \in [Sessions -> Entries] /\ dirs \subseteq Sessions
  /\ open \subseteq Sessions /\ shows \in [Sessions -> Pages]
  /\ manager \in [Sessions -> Managers] /\ run \in [Sessions -> Collections] /\ tasks \subseteq Requests
  /\ rows \in [Accounts -> {Absent, "douyin-local", "self-scrape"}] /\ imports \subseteq [s : Sessions, run : Nat]
  /\ answered \in [created : SUBSET Sessions, closing : SUBSET Sessions, unbound : SUBSET Sessions]
  /\ ever \subseteq Sessions \X Accounts
  /\ requests \in 0..MaxRequests /\ faults \in 0..MaxFaults

\* A manager shows and was restored for accounts the file has named, and the same one.
Sound(s, m) ==
  /\ m.state = "authenticated" <=> m.shown # None
  /\ m.record # None => <<s, m.record>> \in ever
  /\ m.shown # None => <<s, m.shown>> \in ever
  /\ m.record # None /\ m.shown # None => m.shown = m.record
ManagersSound == \A s \in Sessions : Sound(s, manager[s])

\* A checked run has an owner the file has named, and only a checked run completes.
RunSound(s, r) ==
  /\ r.st = "completed" => r.checked
  /\ r.checked => r.owner # None
  /\ r.owner # None => <<s, r.owner>> \in ever
RunsSound == (\A s \in Sessions : RunSound(s, run[s])) /\ OwnerWasBound

\* The file and the copies of it name accounts it has named.
FilesSound ==
  /\ \A s \in Sessions : file[s] \in Accounts => <<s, file[s]>> \in ever
  /\ \A t \in tasks, s \in Sessions : t.copy[s] \in Accounts => <<s, t.copy[s]>> \in ever

\* A session that is not created yet has one request at most, its creation.
Fresh ==
  /\ \A s \in Sessions \ Created : file[s] = Absent /\ ~manager[s].on /\ ~manager[s].page
  /\ \A t \in tasks, s \in Sessions \ Created : t.copy[s] = Absent
  /\ \A t \in tasks : t.pc = "made" => t.copy = NoCopy
  /\ \A t \in tasks : t.pc \in {"read", "push"} <=> t.s \notin Created
  /\ \A t \in tasks : t.s \notin Created => t.s \in dirs
  /\ \A t, u \in tasks : t.s \notin Created /\ u.s = t.s => t = u

\* An identity about to be bound, or to be shown, fits the manager it was read for.
Binding ==
  \A t \in tasks : t.pc \in {"bind", "bound"} =>
    /\ t.who # None /\ t.of <= manager[t.s].no
    /\ t.pc = "bind" => t.copy[t.s] # Absent
    /\ t.pc = "bound" => <<t.s, t.who>> \in ever
    /\ manager[t.s].no = t.of => manager[t.s].record \in {None, t.who}

\* Without an overlap one request at most holds a copy, and it is what the file says.
Disk ==
  /\ \A t \in tasks : t.pc \in {"close", "remove", "drop", "delete"} => t.s \in Closing
  /\ ~overlap => /\ \A t, u \in tasks : t.pc \in Updating /\ u.pc \in Updating => t = u
                 /\ \A t \in tasks : t.pc \in Updating => t.copy = file
                 /\ \A t \in tasks : t.pc = "delete" => file[t.s] = Absent
  /\ FileMatchesDisk

IInv == Typed /\ ManagersSound /\ RunsSound /\ FilesSound /\ Fresh /\ Binding /\ Disk

\* A manager keeps its account; a new one has the next number.
Evolves(s, m) ==
  /\ manager[s].no <= m.no
  /\ m.no = manager[s].no => m.record \in {None, manager[s].record}

-------------------------------------------------------------------------------
LEMMA Names == /\ None # Absent /\ None \notin Accounts /\ Absent \notin Accounts
               /\ NoCopy \in [Sessions -> Entries] /\ \A s \in Sessions : NoCopy[s] = Absent
               /\ NoManager \in Managers /\ \A s, n : Sound(s, [NoManager EXCEPT !.no = n])
BY AccountAssumption DEF None, Absent, NoCopy, Entries, NoManager, Managers, States, Sound

LEMMA Initially == Init => IInv
<1> SUFFICES ASSUME Init PROVE IInv
  OBVIOUS
<1>1. NoManager \in Managers /\ NoRun \in Collections
  BY BoundAssumption DEF NoManager, Managers, States, NoRun, Collections
<1>2. Typed
  BY <1>1, BoundAssumption DEF Init, Typed, Entries, Pages
<1>3. ManagersSound
  BY DEF Init, ManagersSound, Sound, NoManager
<1>4. RunsSound
  BY DEF Init, RunsSound, RunSound, NoRun, OwnerWasBound
<1>5. FilesSound /\ Fresh /\ Binding /\ Disk
  BY Names DEF Init, FilesSound, Fresh, Binding, Disk, FileMatchesDisk, NoManager, Created
<1> QED
  BY <1>2, <1>3, <1>4, <1>5 DEF IInv

\* A step that leaves the disk alone: requests go on without a copy, managers evolve.
LEMMA Frame ==
  ASSUME IInv, Typed', RunsSound', UNCHANGED <<disk, ever, overlap>>,
         Created' = Created, Closing \subseteq Closing',
         \A s \in Sessions : \/ manager'[s] = manager[s]
                             \/ s \in Created /\ Sound(s, manager'[s]) /\ Evolves(s, manager'[s]),
         \A u \in tasks' \ tasks : /\ u.s \in Created /\ u.pc \in Quiet /\ u.copy = NoCopy
                                   /\ u.pc \in {"close", "remove"} => u.s \in Closing'
  PROVE  IInv'
<1> USE DEF disk
<1>1. ManagersSound'
  BY DEF IInv, ManagersSound, Sound
<1>2. FilesSound'
  BY Names DEF IInv, FilesSound
<1>3. Fresh'
  <2>1. \A u \in tasks' : u \in tasks \/ (u.s \in Created /\ u.pc \notin {"read", "push"} /\ u.copy = NoCopy)
    BY DEF Quiet
  <2>2. \A t \in tasks', s \in Sessions \ Created : t.copy[s] = Absent
    BY <2>1, Names DEF IInv, Fresh
  <2>3. \A s \in Sessions \ Created : manager'[s] = manager[s]
    OBVIOUS
  <2>4. \A t \in tasks' : t.pc \in {"read", "push"} <=> t.s \notin Created
    BY <2>1 DEF IInv, Fresh
  <2>5. \A t \in tasks' : t.s \notin Created => t.s \in dirs
    BY <2>1 DEF IInv, Fresh
  <2>6. \A t, u \in tasks' : t.s \notin Created /\ u.s = t.s => t = u
    BY <2>1 DEF IInv, Fresh
  <2> QED
    BY <2>2, <2>3, <2>4, <2>5, <2>2 DEF IInv, Fresh
<1>4. Binding'
  <2> SUFFICES ASSUME NEW t \in tasks', t.pc \in {"bind", "bound"}
               PROVE  /\ t.who # None /\ t.of <= manager'[t.s].no
                      /\ t.pc = "bind" => t.copy[t.s] # Absent
                      /\ t.pc = "bound" => <<t.s, t.who>> \in ever
                      /\ manager'[t.s].no = t.of => manager'[t.s].record \in {None, t.who}
    BY DEF Binding
  <2>1. t \in tasks /\ t.s \in Sessions /\ t.of \in Nat
    BY DEF Quiet, IInv, Typed, Requests
  <2>2. /\ t.who # None /\ t.of <= manager[t.s].no
        /\ t.pc = "bind" => t.copy[t.s] # Absent
        /\ t.pc = "bound" => <<t.s, t.who>> \in ever
        /\ manager[t.s].no = t.of => manager[t.s].record \in {None, t.who}
    BY <2>1 DEF IInv, Binding
  <2>3. CASE manager'[t.s] = manager[t.s]
    BY <2>2, <2>3
  <2>4. CASE Evolves(t.s, manager'[t.s])
    <3>1. manager[t.s].no \in Nat /\ manager'[t.s].no \in Nat
      BY <2>1 DEF IInv, Typed, Managers
    <3> QED
      BY <2>1, <2>2, <2>4, <3>1 DEF Evolves
  <2> QED
    BY <2>1, <2>3, <2>4
<1>5. Disk'
  <2>1. \A u \in tasks' : u \in tasks \/ u.pc \notin Updating \cup {"drop", "delete"}
    BY DEF Quiet, Updating
  <2>2. \A t \in tasks' : t.pc \in {"close", "remove", "drop", "delete"} => t.s \in Closing'
    BY <2>1 DEF IInv, Disk, Quiet
  <2>3. FileMatchesDisk'
    BY DEF IInv, Disk, FileMatchesDisk, Created, Closing
  <2> QED
    BY <2>1, <2>2, <2>3 DEF IInv, Disk
<1> QED
  BY <1>1, <1>2, <1>3, <1>4, <1>5 DEF IInv

-------------------------------------------------------------------------------
(* What the operators return *)

LEMMA StateSet ==
  ASSUME NEW s, NEW m \in Managers, NEW state \in States \ {"authenticated"}
  PROVE  /\ SetState(m, state) \in Managers /\ SetState(m, state).no = m.no /\ SetState(m, state).record = m.record
         /\ Sound(s, m) => Sound(s, SetState(m, state))
BY DEF SetState, Managers, Sound

\* The manager found for a session of the file, or restored from it.
LEMMA FoundSound ==
  ASSUME IInv, NEW s \in Sessions, file[s] # Absent
  PROVE  /\ s \in Created /\ Found(s) \in Managers /\ Sound(s, Found(s)) /\ Evolves(s, Found(s))
         /\ Found(s).no = (IF manager[s].on THEN manager[s].no ELSE manager[s].no + 1)
<1>1. s \in Created /\ manager[s] \in Managers /\ Sound(s, manager[s]) /\ file[s] \in Accounts \cup {None}
  BY DEF IInv, Fresh, Typed, ManagersSound, Entries
<1>2. manager[s].no \in Nat
  BY <1>1 DEF Managers
<1>3. CASE manager[s].on
  BY <1>1, <1>2, <1>3 DEF Found, Evolves
<1>4. CASE ~manager[s].on
  <2>1. Found(s) = Restored(s)
    BY <1>4 DEF Found
  <2>2. Restored(s).no = manager[s].no + 1 /\ Restored(s).record = file[s] /\ Restored(s).state = "idle" /\ Restored(s).shown = None
    BY DEF Restored, NoManager
  <2>7. \A n \in Nat, r \in Accounts \cup {None} : [NoManager EXCEPT !.no = n, !.on = TRUE, !.record = r] \in Managers
    BY DEF NoManager, Managers, States
  <2>8. Restored(s) \in Managers
    <3>1. manager[s].no + 1 \in Nat /\ file[s] \in Accounts \cup {None}
      BY <1>1, <1>2
    <3> QED
      BY <2>7, <3>1, Zenon DEF Restored
  <2>3. file[s] # None => <<s, file[s]>> \in ever
    BY <1>1 DEF IInv, FilesSound
  <2>4. Sound(s, Restored(s))
    BY <2>2, <2>3 DEF Sound
  <2>5. Evolves(s, Restored(s))
    BY <1>2, <2>2 DEF Evolves
  <2> QED
    BY <1>1, <1>4, <2>1, <2>2, <2>4, <2>5, <2>8
<1> QED
  BY <1>3, <1>4

\* A request in progress, once its session is created.
LEMMA AtWork ==
  ASSUME IInv, NEW t \in tasks, t.pc \notin {"read", "push"}
  PROVE  t \in Requests /\ t.s \in Sessions /\ t.s \in Created /\ manager[t.s] \in Managers /\ Sound(t.s, manager[t.s])
BY DEF IInv, Fresh, Typed, Requests, ManagersSound

\* A request ends or goes on without a copy; its manager may change.
LEMMA TaskKeeps ==
  ASSUME IInv, NEW t \in tasks, t.pc \notin {"read", "push"}, NEW m \in Managers,
         Sound(t.s, m), m.no = manager[t.s].no, m.record = manager[t.s].record,
         manager' = manager \/ BecomeMine(t, m),
         End(t) \/ \E pc \in Going : Goto(t, pc),
         open' \subseteq Sessions, shows' \in [Sessions -> Pages],
         rows' \in [Accounts -> {Absent, "douyin-local", "self-scrape"}],
         answered' \in [created : SUBSET Sessions, closing : SUBSET Sessions, unbound : SUBSET Sessions],
         Created' = Created, Closing' = Closing, faults' \in 0..MaxFaults,
         UNCHANGED <<disk, run, imports, stored, ever, overlap, requests>>
  PROVE  IInv'
<1> USE DEF disk
<1>1. t \in Requests /\ t.s \in Sessions /\ t.s \in Created /\ manager[t.s] \in Managers
  BY AtWork
<1>2. manager' = manager \/ manager' = [manager EXCEPT ![t.s] = m]
  BY DEF BecomeMine, Become
<1>3. manager' \in [Sessions -> Managers] /\ \A s \in Sessions : manager'[s] = manager[s] \/ (s = t.s /\ manager'[s] = m)
  BY <1>2 DEF IInv, Typed
<1>4. tasks' \subseteq Requests
      /\ \A u \in tasks' \ tasks : u.s \in Created /\ u.pc \in Quiet /\ u.copy = NoCopy /\ u.pc \notin {"close", "remove"}
  <2>1. CASE End(t)
    BY <2>1 DEF End, IInv, Typed
  <2>2. CASE \E pc \in Going : Goto(t, pc)
    <3>1. PICK pc \in Going : tasks' = (tasks \ {t}) \cup {[t EXCEPT !.pc = pc, !.copy = NoCopy]}
      BY <2>2 DEF Goto
    <3>2. [t EXCEPT !.pc = pc, !.copy = NoCopy] \in Requests /\ [t EXCEPT !.pc = pc, !.copy = NoCopy].s = t.s
          /\ [t EXCEPT !.pc = pc, !.copy = NoCopy].pc = pc /\ [t EXCEPT !.pc = pc, !.copy = NoCopy].copy = NoCopy
      BY <1>1, Names DEF Requests, Going
    <3> QED
      BY <1>1, <3>1, <3>2 DEF IInv, Typed, Going
  <2> QED
    BY <2>1, <2>2
<1>5. Evolves(t.s, m)
  BY <1>1 DEF Evolves, Managers
<1>6. Typed'
  BY <1>3, <1>4 DEF IInv, Typed
<1>7. RunsSound'
  BY DEF IInv, RunsSound, RunSound, OwnerWasBound
<1> QED
  BY <1>1, <1>3, <1>4, <1>5, <1>6, <1>7, Frame

\* A request begins on a session of the file, with the manager found or another.
LEMMA AskKeeps ==
  ASSUME IInv, NEW s \in Sessions, file[s] # Absent, NEW pc \in {"detect", "launch", "reply", "close"},
         NEW who \in Accounts \cup {None}, AskFor(s, pc, who),
         NEW m \in Managers, Sound(s, m), Evolves(s, m), manager' = manager \/ Become(s, m),
         answered' \in [created : SUBSET Sessions, closing : SUBSET Sessions, unbound : SUBSET Sessions],
         Created' = Created, Closing \subseteq Closing', pc = "close" => s \in Closing',
         UNCHANGED <<disk, browsers, run, database, ever, overlap, faults>>
  PROVE  IInv'
<1> USE DEF disk, browsers, database
<1>1. s \in Created
  BY FoundSound
<1>2. manager' \in [Sessions -> Managers] /\ \A x \in Sessions : manager'[x] = manager[x] \/ (x = s /\ manager'[x] = m)
  BY DEF Become, IInv, Typed
<1>3. requests' \in 0..MaxRequests /\ requests' \in Nat
  BY BoundAssumption DEF AskFor, IInv, Typed
<1>4. PICK u : /\ u = [no |-> requests', s |-> s, pc |-> pc, copy |-> NoCopy, who |-> who,
                       of |-> IF manager[s].on THEN manager[s].no ELSE manager[s].no + 1]
               /\ tasks' = tasks \cup {u}
  BY DEF AskFor
<1>5. u \in Requests /\ u.s = s /\ u.pc = pc /\ u.copy = NoCopy
  <2>1. manager[s].no \in Nat
    BY DEF IInv, Typed, Managers
  <2> QED
    BY <1>3, <1>4, <2>1, Names DEF Requests, Quiet
<1>6. Typed'
  BY <1>2, <1>3, <1>4, <1>5 DEF IInv, Typed
<1>7. RunsSound'
  BY DEF IInv, RunsSound, RunSound, OwnerWasBound
<1>8. \A x \in tasks' \ tasks : x.s \in Created /\ x.pc \in Quiet /\ x.copy = NoCopy /\ (x.pc \in {"close", "remove"} => x.s \in Closing')
  BY <1>1, <1>4, <1>5 DEF Quiet
<1> QED
  BY <1>1, <1>2, <1>6, <1>7, <1>8, Frame

\* A step beside the requests, of which a manager may learn.
LEMMA BesideKeeps ==
  ASSUME IInv, NEW s \in Sessions, NEW m \in Managers,
         manager' = manager \/ (Become(s, m) /\ s \in Created /\ Sound(s, m) /\ Evolves(s, m)),
         open' \subseteq Sessions, shows' \in [Sessions -> Pages], run' \in [Sessions -> Collections],
         rows' \in [Accounts -> {Absent, "douyin-local", "self-scrape"}], imports' \subseteq [s : Sessions, run : Nat],
         faults' \in 0..MaxFaults, RunsSound',
         UNCHANGED <<disk, tasks, ever, answered, overlap, requests>>
  PROVE  IInv'
<1> USE DEF disk
<1>1. manager' \in [Sessions -> Managers]
      /\ \A x \in Sessions : \/ manager'[x] = manager[x]
                             \/ x \in Created /\ Sound(x, manager'[x]) /\ Evolves(x, manager'[x])
  <2>1. CASE manager' = manager
    BY <2>1 DEF IInv, Typed
  <2>2. CASE Become(s, m) /\ s \in Created /\ Sound(s, m) /\ Evolves(s, m)
    <3>1. manager' \in [Sessions -> Managers] /\ \A x \in Sessions : manager'[x] = manager[x] \/ (x = s /\ manager'[x] = m)
      BY <2>2 DEF Become, IInv, Typed
    <3> QED
      BY <2>2, <3>1
  <2> QED
    BY <2>1, <2>2
<1>2. Typed'
  BY <1>1 DEF IInv, Typed
<1>3. Created' = Created /\ Closing' = Closing
  BY DEF Created, Closing
<1> QED
  BY <1>1, <1>2, <1>3, Frame

\* The page of a manager belongs to a session that is created.
LEMMA Opened ==
  ASSUME IInv, NEW s \in Sessions
  PROVE  manager[s] \in Managers /\ run[s] \in Collections /\ Sound(s, manager[s]) /\ (manager[s].page => s \in Created)
BY DEF IInv, Typed, ManagersSound, Fresh

-------------------------------------------------------------------------------
(* The user, the browsers and the collections *)

LEMMA OutsideKeeps ==
  ASSUME IInv, NEW s \in Sessions, PageTurns(s) \/ IdentitySeen(s) \/ WindowClosed(s)
  PROVE  IInv'
<1> USE DEF browsers, database
<1>1. manager[s] \in Managers /\ Sound(s, manager[s]) /\ (manager[s].page => s \in Created)
  BY Opened
<1>2. RunsSound'
  BY DEF PageTurns, IdentitySeen, WindowClosed, IInv, RunsSound, RunSound, OwnerWasBound
<1>3. open' \subseteq Sessions /\ shows' \in [Sessions -> Pages] /\ faults' \in 0..MaxFaults
  BY BoundAssumption DEF PageTurns, IdentitySeen, WindowClosed, IInv, Typed, Pages
<1>4. run' \in [Sessions -> Collections] /\ rows' \in [Accounts -> {Absent, "douyin-local", "self-scrape"}]
      /\ imports' \subseteq [s : Sessions, run : Nat]
  BY DEF PageTurns, IdentitySeen, WindowClosed, IInv, Typed
<1>5. UNCHANGED <<disk, tasks, ever, answered, overlap, requests>>
  BY DEF PageTurns, IdentitySeen, WindowClosed
<1>6. CASE IdentitySeen(s)
  <2>1. PICK who \in Accounts : Become(s, [manager[s] EXCEPT !.payload = who])
    BY <1>6 DEF IdentitySeen
  <2>2. PICK m : m = [manager[s] EXCEPT !.payload = who]
    OBVIOUS
  <2>3. m \in Managers /\ m.no = manager[s].no /\ m.record = manager[s].record /\ m.shown = manager[s].shown /\ m.state = manager[s].state
    BY <1>1, <2>2 DEF Managers
  <2>4. Sound(s, m) /\ Evolves(s, m) /\ s \in Created
    BY <1>1, <1>6, <2>3 DEF Sound, Evolves, IdentitySeen, Reachable, Managers
  <2> QED
    BY <1>2, <1>3, <1>4, <1>5, <2>1, <2>2, <2>3, <2>4, BesideKeeps
<1>7. CASE manager' = manager
  BY <1>1, <1>2, <1>3, <1>4, <1>5, <1>7, BesideKeeps
<1> QED
  BY <1>6, <1>7 DEF PageTurns, WindowClosed

LEMMA StartKeeps == ASSUME IInv, NEW s \in Sessions, StartCollection(s) PROVE IInv'
<1> USE DEF browsers
<1>1. s \in Created /\ Found(s) \in Managers /\ Sound(s, Found(s)) /\ Evolves(s, Found(s)) /\ Become(s, Found(s))
  BY FoundSound DEF StartCollection
<1>2. run[s] \in Collections
  BY Opened
<1>3. PICK r : RunOf(s, r) /\ r = (IF run[s].st = "running" THEN run[s] ELSE [NoRun EXCEPT !.id = run[s].id + 1, !.st = "running"])
  BY DEF StartCollection
<1>4. r \in Collections /\ (r = run[s] \/ (r.st = "running" /\ r.checked = FALSE /\ r.owner = None))
  <2>1. CASE run[s].st = "running"
    BY <1>2, <1>3, <2>1
  <2>2. CASE run[s].st # "running"
    <3>1. run[s].id + 1 \in 0..MaxRuns
      BY <1>2, <2>2, BoundAssumption DEF StartCollection, Collections
    <3>2. r = [NoRun EXCEPT !.id = run[s].id + 1, !.st = "running"]
      BY <1>3, <2>2
    <3> QED
      BY <3>1, <3>2 DEF NoRun, Collections
  <2> QED
    BY <2>1, <2>2
<1>5. run' = [run EXCEPT ![s] = r]
  BY <1>3 DEF RunOf
<1>6. run' \in [Sessions -> Collections] /\ run'[s] = r
  BY <1>4, <1>5 DEF IInv, Typed
<1>7. imports' \subseteq [s : Sessions, run : Nat]
  <2>1. r.id \in Nat
    BY <1>4, BoundAssumption DEF Collections
  <2> QED
    BY <1>6, <2>1 DEF StartCollection, IInv, Typed
<1>8. RunsSound'
  <2>1. OwnerWasBound'
    BY DEF StartCollection, IInv, RunsSound, RunSound, OwnerWasBound
  <2> QED
    BY <1>4, <1>5, <1>6, <2>1 DEF StartCollection, IInv, Typed, RunsSound, RunSound
<1>9. open' \subseteq Sessions /\ shows' \in [Sessions -> Pages] /\ faults' \in 0..MaxFaults
      /\ rows' \in [Accounts -> {Absent, "douyin-local", "self-scrape"}]
      /\ UNCHANGED <<disk, tasks, ever, answered, overlap, requests>>
  BY DEF StartCollection, IInv, Typed
<1> QED
  BY <1>1, <1>6, <1>7, <1>8, <1>9, BesideKeeps

LEMMA RunKeeps == ASSUME IInv, NEW s \in Sessions, CheckIdentity(s) \/ EndRun(s) PROVE IInv'
<1> USE DEF browsers, database
<1>1. manager[s] \in Managers /\ run[s] \in Collections /\ Sound(s, manager[s])
  BY Opened
<1>2. PICK r \in Collections : RunOf(s, r) /\ RunSound(s, r)
  <2>1. CASE CheckIdentity(s)
    <3>1. manager[s].payload = BoundId(s) /\ BoundId(s) # None /\ manager[s].payload \in Accounts
      BY <1>1, <2>1 DEF CheckIdentity, StillBound, Managers
    <3>2. <<s, manager[s].payload>> \in ever
      BY <1>1, <3>1 DEF BoundId, Sound
    <3>3. PICK r : r = [run[s] EXCEPT !.checked = TRUE, !.owner = manager[s].payload]
      OBVIOUS
    <3>4. RunOf(s, r)
      BY <2>1, <3>3 DEF CheckIdentity
    <3>5. r \in Collections /\ r.owner = manager[s].payload /\ r.checked
      BY <1>1, <3>1, <3>3 DEF Collections
    <3>6. r.owner # None /\ <<s, r.owner>> \in ever
      BY <3>1, <3>2, <3>5
    <3> QED
      BY <3>4, <3>5, <3>6 DEF RunSound
  <2>2. CASE EndRun(s) /\ RunOf(s, [run[s] EXCEPT !.st = "failed"])
    <3>1. PICK r : r = [run[s] EXCEPT !.st = "failed"]
      OBVIOUS
    <3>2. r \in Collections /\ r.st = "failed" /\ r.owner = run[s].owner /\ r.checked = run[s].checked
      BY <1>1, <3>1 DEF Collections
    <3> QED
      BY <2>2, <3>1, <3>2 DEF IInv, RunsSound, RunSound
  <2>3. CASE EndRun(s) /\ run[s].checked /\ RunOf(s, [run[s] EXCEPT !.st = "completed"])
    <3>1. PICK r : r = [run[s] EXCEPT !.st = "completed"]
      OBVIOUS
    <3>2. r \in Collections /\ r.owner = run[s].owner /\ r.checked = run[s].checked
      BY <1>1, <3>1 DEF Collections
    <3> QED
      BY <2>3, <3>1, <3>2 DEF IInv, RunsSound, RunSound
  <2> QED
    BY <2>1, <2>2, <2>3 DEF EndRun
<1>3. run' = [run EXCEPT ![s] = r]
  BY <1>2 DEF RunOf
<1>4. run' \in [Sessions -> Collections] /\ \A x \in Sessions : run'[x] = run[x] \/ (x = s /\ run'[x] = r)
  BY <1>3 DEF IInv, Typed
<1>5. UNCHANGED <<disk, browsers, manager, tasks, database, ever, answered, overlap, requests, faults>>
  BY DEF CheckIdentity, EndRun
<1>6. RunsSound'
  <2>1. OwnerWasBound'
    BY <1>5 DEF IInv, RunsSound, RunSound, OwnerWasBound
  <2>2. ever' = ever
    BY <1>5
  <2>3. \A x \in Sessions : RunSound(x, run'[x])
    BY <1>2, <1>4 DEF IInv, RunsSound
  <2> QED
    BY <2>1, <2>2, <2>3 DEF RunsSound, RunSound
<1> QED
  BY <1>1, <1>4, <1>5, <1>6, BesideKeeps DEF IInv, Typed

LEMMA ImportKeeps == ASSUME IInv, NEW i \in imports, Import(i) PROVE IInv'
<1> USE DEF browsers
<1>1. i.s \in Sessions /\ run[i.s] \in Collections
  BY Opened DEF IInv, Typed
<1>2. UNCHANGED <<disk, open, shows, run, tasks, ever, answered, overlap, requests, faults>>
  BY DEF Import
<1>3. imports' \subseteq imports
  BY DEF Import
<1>5. RunsSound' /\ rows' \in [Accounts -> {Absent, "douyin-local", "self-scrape"}]
  <2>1. CASE stored' = stored /\ rows' = rows
    BY <1>2, <2>1 DEF IInv, RunsSound, RunSound, OwnerWasBound, Typed
  <2>2. CASE run[i.s].st = "completed" /\ stored' = stored \cup {[s |-> i.s, account |-> run[i.s].owner]}
             /\ rows' = [rows EXCEPT ![run[i.s].owner] = "self-scrape"]
    <3>1. <<i.s, run[i.s].owner>> \in ever
      BY <1>1, <2>2 DEF IInv, RunsSound, RunSound
    <3>2. OwnerWasBound'
      <4>1. PICK e : e = [s |-> i.s, account |-> run[i.s].owner]
        OBVIOUS
      <4>2. <<e.s, e.account>> \in ever /\ stored' = stored \cup {e} /\ ever' = ever
        BY <1>2, <2>2, <3>1, <4>1
      <4> QED
        BY <4>2 DEF IInv, RunsSound, RunSound, OwnerWasBound
    <3> QED
      BY <1>2, <2>2, <3>2 DEF IInv, RunsSound, RunSound, Typed
  <2> QED
    BY <2>1, <2>2 DEF Import
<1>6. CASE file[i.s] # Absent
  BY <1>1, <1>2, <1>3, <1>5, <1>6, FoundSound, BesideKeeps DEF Import, IInv, Typed
<1>7. CASE file[i.s] = Absent
  <2>1. manager[i.s] \in Managers /\ manager' = manager
    BY <1>1, <1>7, Opened DEF Import
  <2> QED
    BY <1>1, <1>2, <1>3, <1>5, <2>1, BesideKeeps DEF IInv, Typed
<1> QED
  BY <1>6, <1>7

-------------------------------------------------------------------------------
(* Requests that leave the file alone *)

LEMMA BeginKeeps == ASSUME IInv, NEW s \in Sessions, Status(s) \/ Refresh(s) \/ List(s) \/ Close(s) PROVE IInv'
<1> USE DEF database
<1>1. file[s] # Absent
  BY DEF Status, Refresh, List, Close
<1>2. s \in Created /\ Found(s) \in Managers /\ Sound(s, Found(s)) /\ Evolves(s, Found(s))
  BY <1>1, FoundSound
<1>3. answered \in [created : SUBSET Sessions, closing : SUBSET Sessions, unbound : SUBSET Sessions]
  BY DEF IInv, Typed
<1>4. CASE Status(s)
  <2>1. UNCHANGED <<disk, browsers, run, database, ever, answered, overlap, faults>>
    BY <1>4 DEF Status
  <2>2. CASE manager[s].on
    BY <1>1, <1>2, <1>3, <1>4, <2>1, <2>2, AskKeeps DEF Status, Ask, Created, Closing
  <2>3. CASE ~manager[s].on
    <3>1. PICK m : m = SetState(Restored(s), "launching")
      OBVIOUS
    <3>2. Found(s) = Restored(s) /\ Become(s, m) /\ Ask(s, "launch")
      BY <1>4, <2>3, <3>1 DEF Found, Status
    <3>3. m \in Managers /\ m.no = Found(s).no /\ m.record = Found(s).record /\ Sound(s, m)
      BY <1>2, <3>1, <3>2, StateSet DEF States
    <3>4. Evolves(s, m)
      BY <1>2, <3>3 DEF Evolves
    <3> QED
      BY <1>1, <1>3, <2>1, <3>2, <3>3, <3>4, AskKeeps DEF Ask, Created, Closing
  <2> QED
    BY <2>2, <2>3
<1>5. CASE Refresh(s)
  BY <1>1, <1>2, <1>3, <1>5, AskKeeps DEF Refresh, Ask, Created, Closing
<1>7. CASE List(s)
  <2>1. manager[s].shown \in Accounts \cup {None}
    BY Opened DEF Managers
  <2> QED
    BY <1>1, <1>2, <1>3, <1>7, <2>1, AskKeeps DEF List, Created, Closing
<1>6. CASE Close(s)
  <2> DEFINE page == Found(s).page /\ ~Found(s).handle
             payload == IF Found(s).handle THEN None ELSE Found(s).payload
  <2>1. page \in BOOLEAN /\ payload \in Accounts \cup {None}
    BY <1>2 DEF Managers
  <2>2. Become(s, [Found(s) EXCEPT !.page = page, !.payload = payload]) /\ Ask(s, "close")
        /\ answered' = [answered EXCEPT !.closing = @ \cup {s}]
        /\ UNCHANGED <<disk, browsers, run, database, ever, overlap, faults>>
    BY <1>6 DEF Close
  <2> HIDE DEF page, payload
  <2>3. PICK m : m = [Found(s) EXCEPT !.page = page, !.payload = payload]
    OBVIOUS
  <2>4. m \in Managers /\ m.no = Found(s).no /\ m.record = Found(s).record /\ m.shown = Found(s).shown /\ m.state = Found(s).state
    BY <1>2, <2>1, <2>3 DEF Managers
  <2>5. Sound(s, m) /\ Evolves(s, m)
    BY <1>2, <2>4 DEF Sound, Evolves
  <2>6. answered' \in [created : SUBSET Sessions, closing : SUBSET Sessions, unbound : SUBSET Sessions]
        /\ Created' = Created /\ Closing \subseteq Closing' /\ s \in Closing'
    BY <1>3, <2>2 DEF Created, Closing
  <2> QED
    BY <1>1, <2>2, <2>3, <2>4, <2>5, <2>6, AskKeeps DEF Ask
<1> QED
  BY <1>4, <1>5, <1>6, <1>7

LEMMA LaunchKeeps == ASSUME IInv, NEW t \in tasks, Launch(t) PROVE IInv'
<1>1. t.pc = "launch" /\ t.s \in Sessions /\ manager[t.s] \in Managers /\ Sound(t.s, manager[t.s])
  BY AtWork DEF Launch
<1>2. /\ UNCHANGED <<disk, run, imports, stored, ever, overlap, requests>>
      /\ rows' \in [Accounts -> {Absent, "douyin-local", "self-scrape"}]
      /\ answered' \in [created : SUBSET Sessions, closing : SUBSET Sessions, unbound : SUBSET Sessions]
      /\ Created' = Created /\ Closing' = Closing
  BY DEF Launch, database, IInv, Typed, Created, Closing
<1>3. faults' \in 0..MaxFaults /\ open' \subseteq Sessions /\ shows' \in [Sessions -> Pages]
  BY <1>1, BoundAssumption DEF Launch, browsers, IInv, Typed
<1>4. PICK e : e = SetState(manager[t.s], "error")
  OBVIOUS
<1>5. e \in Managers /\ e.no = manager[t.s].no /\ e.record = manager[t.s].record /\ Sound(t.s, e)
  BY <1>1, <1>4, StateSet DEF States
<1>6. CASE BecomeMine(t, [manager[t.s] EXCEPT !.handle = TRUE, !.page = TRUE]) /\ Goto(t, "detect")
  <2>1. PICK m : m = [manager[t.s] EXCEPT !.handle = TRUE, !.page = TRUE]
    OBVIOUS
  <2>2. m \in Managers /\ m.no = manager[t.s].no /\ m.record = manager[t.s].record
        /\ m.shown = manager[t.s].shown /\ m.state = manager[t.s].state
    BY <1>1, <2>1 DEF Managers
  <2>3. Sound(t.s, m)
    BY <1>1, <2>2 DEF Sound
  <2>4. \E pc \in Going : Goto(t, pc)
    BY <1>6 DEF Quiet, Going
  <2> QED
    BY <1>1, <1>2, <1>3, <1>6, <2>1, <2>2, <2>3, <2>4, TaskKeeps
<1>7. CASE BecomeMine(t, [SetState(manager[t.s], "error") EXCEPT !.page = TRUE]) /\ End(t)
  <2>1. PICK m : m = [e EXCEPT !.page = TRUE]
    OBVIOUS
  <2>2. m \in Managers /\ m.no = e.no /\ m.record = e.record /\ m.shown = e.shown /\ m.state = e.state
    BY <1>5, <2>1 DEF Managers
  <2>3. Sound(t.s, m)
    BY <1>5, <2>2 DEF Sound
  <2> QED
    BY <1>1, <1>2, <1>3, <1>4, <1>5, <1>7, <2>1, <2>2, <2>3, TaskKeeps
<1>8. CASE BecomeMine(t, e) /\ End(t)
  BY <1>1, <1>2, <1>3, <1>5, <1>8, TaskKeeps
<1> QED
  BY <1>4, <1>6, <1>7, <1>8 DEF Launch

LEMMA StateKeeps ==
  ASSUME IInv, NEW t \in tasks, t.pc \in Quiet, NEW state \in States \ {"authenticated"},
         BecomeMine(t, SetState(manager[t.s], state)) \/ UNCHANGED manager,
         End(t) \/ \E pc \in Going : Goto(t, pc),
         UNCHANGED <<disk, browsers, run, database, ever, answered, overlap, requests, faults>>
  PROVE  IInv'
<1>1. t.pc \notin {"read", "push"}
  BY DEF Quiet
<1>2. manager[t.s] \in Managers /\ Sound(t.s, manager[t.s])
  BY <1>1, AtWork
<1>3. PICK m : m = SetState(manager[t.s], state)
  OBVIOUS
<1>4. m \in Managers /\ m.no = manager[t.s].no /\ m.record = manager[t.s].record /\ Sound(t.s, m)
  BY <1>2, <1>3, StateSet
<1>5. /\ UNCHANGED <<disk, run, imports, stored, ever, overlap, requests>>
      /\ rows' \in [Accounts -> {Absent, "douyin-local", "self-scrape"}]
      /\ answered' \in [created : SUBSET Sessions, closing : SUBSET Sessions, unbound : SUBSET Sessions]
      /\ Created' = Created /\ Closing' = Closing
      /\ faults' \in 0..MaxFaults /\ open' \subseteq Sessions /\ shows' \in [Sessions -> Pages]
  BY DEF browsers, database, IInv, Typed, Created, Closing
<1>6. manager' = manager \/ BecomeMine(t, m)
  BY <1>3
<1> QED
  BY <1>1, <1>4, <1>5, <1>6, TaskKeeps

LEMMA DetectKeeps == ASSUME IInv, NEW t \in tasks, Detect(t) \/ CaptureQr(t) PROVE IInv'
<1>1. t.pc \in Quiet /\ UNCHANGED <<disk, browsers, run, database, ever, answered, overlap, requests, faults>>
  BY DEF Detect, CaptureQr, Quiet
<1>2. End(t) \/ \E pc \in Going : Goto(t, pc)
  BY DEF Detect, CaptureQr, Quiet, Going
<1>3. PICK state \in States \ {"authenticated"} : BecomeMine(t, SetState(manager[t.s], state)) \/ UNCHANGED manager
  BY DEF Detect, CaptureQr, States
<1> QED
  BY <1>1, <1>2, <1>3, StateKeeps

LEMMA BindAccountKeeps == ASSUME IInv, NEW t \in tasks, BindAccount(t) PROVE IInv'
<1>1. t.pc = "reply" /\ End(t) /\ manager' = manager
  BY DEF BindAccount
<1>2. t.s \in Sessions /\ manager[t.s] \in Managers /\ Sound(t.s, manager[t.s])
  BY <1>1, AtWork
<1>3. /\ UNCHANGED <<disk, run, imports, stored, ever, overlap, requests>>
      /\ faults' \in 0..MaxFaults /\ open' \subseteq Sessions /\ shows' \in [Sessions -> Pages]
  BY DEF BindAccount, browsers, IInv, Typed
<1>4. /\ rows' \in [Accounts -> {Absent, "douyin-local", "self-scrape"}]
      /\ answered' \in [created : SUBSET Sessions, closing : SUBSET Sessions, unbound : SUBSET Sessions]
      /\ Created' = Created /\ Closing' = Closing
  BY <1>2 DEF BindAccount, IInv, Typed, Created, Closing
<1> QED
  BY <1>1, <1>2, <1>3, <1>4, TaskKeeps

-------------------------------------------------------------------------------
(* Requests that read the file, and what they write to it later *)

\* Managers that stay or, once the session is created, evolve.
Managed ==
  \A s \in Sessions :
    \/ manager'[s] = manager[s]
    \/ s \in Created /\ Sound(s, manager'[s]) /\ Evolves(s, manager'[s])

LEMMA ReadKeeps ==
  ASSUME IInv, NEW t \in tasks, NEW pc \in Updating, NEW who \in Accounts \cup {None}, ReadFile(t, pc, who),
         t.pc # "push", t.pc = "read" <=> pc = "push", pc = "drop" => t.s \in Closing,
         pc = "bind" => file[t.s] # Absent /\ manager' = manager /\ Mine(t) /\ Admits(t.s, who),
         manager' \in [Sessions -> Managers], Managed,
         open' \subseteq Sessions, shows' \in [Sessions -> Pages], run' \in [Sessions -> Collections], RunsSound',
         UNCHANGED <<disk, database, ever, answered, requests, faults>>
  PROVE  IInv'
<1> USE DEF disk, database
<1>1. t \in Requests /\ t.s \in Sessions /\ t.of \in Nat /\ file \in [Sessions -> Entries]
  BY DEF IInv, Typed, Requests
<1>2. PICK u : u = [t EXCEPT !.pc = pc, !.copy = file, !.who = who] /\ tasks' = (tasks \ {t}) \cup {u}
  BY DEF ReadFile
<1>3. u \in Requests /\ u.s = t.s /\ u.of = t.of /\ u.pc = pc /\ u.copy = file /\ u.who = who
  BY <1>1, <1>2 DEF Requests, Updating
<1>4. Typed'
  BY <1>2, <1>3 DEF IInv, Typed
<1>5. ManagersSound'
  BY DEF Managed, IInv, ManagersSound, Sound
<1>6. FilesSound'
  BY <1>2, <1>3 DEF IInv, FilesSound
<1>7. Created' = Created /\ Closing' = Closing
  BY DEF Created, Closing
<1>8. Fresh'
  <2>1. \A s \in Sessions \ Created : manager'[s] = manager[s]
    BY DEF Managed
  <2>2. \A x \in tasks', s \in Sessions \ Created : x.copy[s] = Absent
    <3>1. \A x \in tasks, s \in Sessions \ Created : x.copy[s] = Absent
      BY DEF IInv, Fresh
    <3>2. \A s \in Sessions \ Created : u.copy[s] = Absent
      BY <1>3 DEF IInv, Fresh
    <3> QED
      BY <1>2, <3>1, <3>2
  <2>3. \A x \in tasks' : x.pc \in {"read", "push"} <=> x.s \notin Created
    BY <1>2, <1>3 DEF IInv, Fresh, Updating
  <2>4. \A x \in tasks' : x.s \notin Created => x.s \in dirs
    BY <1>2, <1>3 DEF IInv, Fresh
  <2>5. \A x, y \in tasks' : x.s \notin Created /\ y.s = x.s => x = y
    <3>1. \A x, y \in tasks : x.s \notin Created /\ y.s = x.s => x = y
      BY DEF IInv, Fresh
    <3>2. \A x \in tasks \ {t} : t.s \notin Created => x.s # t.s
      BY <3>1
    <3> SUFFICES ASSUME NEW x \in tasks', NEW y \in tasks', x.s \notin Created, y.s = x.s PROVE x = y
      OBVIOUS
    <3>3. CASE x = u \/ y = u
      BY <1>2, <1>3, <3>2, <3>3
    <3>4. CASE x # u /\ y # u
      BY <1>2, <3>1, <3>4
    <3> QED
      BY <3>3, <3>4
  <2>6. \A x \in tasks' : x.pc = "made" => x.copy = NoCopy
    BY <1>2, <1>3 DEF IInv, Fresh, Updating
  <2> QED
    BY <1>7, <2>1, <2>2, <2>3, <2>4, <2>5, <2>6 DEF IInv, Fresh
<1>9. Binding'
  <2> SUFFICES ASSUME NEW x \in tasks', x.pc \in {"bind", "bound"}
               PROVE  /\ x.who # None /\ x.of <= manager'[x.s].no
                      /\ x.pc = "bind" => x.copy[x.s] # Absent
                      /\ x.pc = "bound" => <<x.s, x.who>> \in ever'
                      /\ manager'[x.s].no = x.of => manager'[x.s].record \in {None, x.who}
    BY DEF Binding
  <2>1. CASE x = u
    BY <1>1, <1>3, <2>1 DEF Mine, Admits, Updating
  <2>2. CASE x \in tasks
    <3>1. x.s \in Sessions /\ x.of \in Nat /\ manager[x.s].no \in Nat /\ manager'[x.s].no \in Nat
      BY <2>2 DEF IInv, Typed, Requests, Managers
    <3>2. manager'[x.s] = manager[x.s] \/ Evolves(x.s, manager'[x.s])
      BY <3>1 DEF Managed
    <3> QED
      BY <2>2, <3>1, <3>2 DEF IInv, Binding, Evolves
  <2> QED
    BY <1>2, <2>1, <2>2
<1>10. Disk'
  <2>1. \A x \in tasks' : x.pc \in {"close", "remove", "drop", "delete"} => x.s \in Closing
    BY <1>2, <1>3 DEF IInv, Disk, Updating
  <2>2. ~overlap' => ~overlap /\ \A x \in tasks' : x.pc \in Updating => x = u
    BY <1>2 DEF ReadFile
  <2>3. ~overlap' => \A x \in tasks' : x.pc = "delete" => file[x.s] = Absent
    BY <1>2, <1>3, <2>2 DEF IInv, Disk, Updating
  <2>4. FileMatchesDisk'
    BY <2>2 DEF IInv, Disk, FileMatchesDisk
  <2> QED
    BY <1>3, <1>7, <2>1, <2>2, <2>3, <2>4 DEF Disk
<1> QED
  BY <1>4, <1>5, <1>6, <1>8, <1>9, <1>10 DEF IInv

LEMMA ReadForCreateKeeps == ASSUME IInv, NEW t \in tasks, ReadForCreate(t) PROVE IInv'
<1>1. t.pc = "read" /\ ReadFile(t, "push", None) /\ manager' = manager
      /\ UNCHANGED <<disk, database, ever, answered, requests, faults>>
  BY DEF ReadForCreate
<1>2. UNCHANGED <<open, shows, run>>
  BY DEF ReadForCreate, browsers
<1>3. Managed /\ RunsSound'
  <2>1. Managed
    BY <1>1 DEF Managed
  <2> QED
    BY <1>1, <1>2, <2>1 DEF database, IInv, RunsSound, RunSound, OwnerWasBound
<1>4. manager' \in [Sessions -> Managers] /\ open' \subseteq Sessions /\ shows' \in [Sessions -> Pages]
      /\ run' \in [Sessions -> Collections]
  BY <1>1, <1>2 DEF IInv, Typed
<1> QED
  BY <1>1, <1>3, <1>4, ReadKeeps DEF Updating

LEMMA ReadIdentityKeeps == ASSUME IInv, NEW t \in tasks, ReadIdentity(t) PROVE IInv'
<1>1. t.pc = "identity" /\ manager' = manager
      /\ UNCHANGED <<disk, browsers, run, database, ever, answered, requests, faults>>
  BY DEF ReadIdentity
<1>2. CASE End(t) /\ UNCHANGED overlap
  <2>1. PICK state \in States \ {"authenticated"} : TRUE
    BY DEF States
  <2>2. t.pc \in Quiet
    BY <1>1 DEF Quiet
  <2> QED
    BY <1>1, <1>2, <2>1, <2>2, StateKeeps
<1>3. CASE /\ Mine(t) /\ Admits(t.s, manager[t.s].payload) /\ file[t.s] # Absent
           /\ ReadFile(t, "bind", manager[t.s].payload)
  <2>1. t.s \in Sessions /\ manager[t.s].payload \in Accounts \cup {None}
    BY <1>1, AtWork DEF Managers
  <2>2. Managed /\ RunsSound'
    <3>1. Managed
      BY <1>1 DEF Managed
    <3> QED
      BY <1>1, <3>1 DEF database, IInv, RunsSound, RunSound, OwnerWasBound
  <2>3. manager' \in [Sessions -> Managers] /\ open' \subseteq Sessions /\ shows' \in [Sessions -> Pages]
        /\ run' \in [Sessions -> Collections]
    BY <1>1 DEF browsers, IInv, Typed
  <2> QED
    BY <1>1, <1>3, <2>1, <2>2, <2>3, ReadKeeps DEF Updating
<1> QED
  BY <1>2, <1>3 DEF ReadIdentity

LEMMA ReadForRemoveKeeps == ASSUME IInv, NEW t \in tasks, ReadForRemove(t) PROVE IInv'
<1>1. t.pc = "remove" /\ manager' = manager
      /\ UNCHANGED <<disk, browsers, run, database, ever, answered, requests, faults>>
  BY DEF ReadForRemove
<1>2. CASE End(t) /\ UNCHANGED overlap
  <2>1. PICK state \in States \ {"authenticated"} : TRUE
    BY DEF States
  <2>2. t.pc \in Quiet
    BY <1>1 DEF Quiet
  <2> QED
    BY <1>1, <1>2, <2>1, <2>2, StateKeeps
<1>3. CASE ReadFile(t, "drop", None)
  <2>1. t.s \in Closing
    BY <1>1 DEF IInv, Disk
  <2>2. Managed /\ RunsSound'
    <3>1. Managed
      BY <1>1 DEF Managed
    <3> QED
      BY <1>1, <3>1 DEF database, IInv, RunsSound, RunSound, OwnerWasBound
  <2>3. manager' \in [Sessions -> Managers] /\ open' \subseteq Sessions /\ shows' \in [Sessions -> Pages]
        /\ run' \in [Sessions -> Collections]
    BY <1>1 DEF browsers, IInv, Typed
  <2> QED
    BY <1>1, <1>3, <2>1, <2>2, <2>3, ReadKeeps DEF Updating
<1> QED
  BY <1>2, <1>3 DEF ReadForRemove

\* A request goes on without a copy and with no run left to its manager, which may change.
LEMMA ResetKeeps ==
  ASSUME IInv, NEW t \in tasks, NEW u \in Requests, tasks' = (tasks \ {t}) \cup {u},
         u.s = t.s, t.s \in Created, u.pc \in Quiet, u.copy = NoCopy, u.pc \in {"close", "remove"} => t.s \in Closing,
         NEW m \in Managers, Become(t.s, m), Sound(t.s, m), Evolves(t.s, m),
         open' \subseteq Sessions, shows' \in [Sessions -> Pages],
         run' = [run EXCEPT ![t.s] = [NoRun EXCEPT !.id = run[t.s].id]],
         UNCHANGED <<disk, database, ever, answered, overlap, requests, faults>>
  PROVE  IInv'
<1> USE DEF database
<1>1. t.s \in Sessions /\ run[t.s] \in Collections
  BY Opened DEF IInv, Typed, Requests
<1>2. PICK r : r = [NoRun EXCEPT !.id = run[t.s].id] /\ run' = [run EXCEPT ![t.s] = r]
  OBVIOUS
<1>3. r \in Collections /\ RunSound(t.s, r)
  BY <1>1, <1>2 DEF NoRun, Collections, RunSound
<1>4. run' \in [Sessions -> Collections] /\ RunsSound'
  <2>1. OwnerWasBound'
    BY DEF IInv, RunsSound, OwnerWasBound
  <2>2. run' \in [Sessions -> Collections] /\ \A s \in Sessions : run'[s] = run[s] \/ (s = t.s /\ run'[s] = r)
    BY <1>1, <1>2, <1>3 DEF IInv, Typed
  <2>3. \A s \in Sessions : RunSound(s, run'[s])
    BY <1>3, <2>2 DEF IInv, RunsSound
  <2> QED
    BY <2>1, <2>2, <2>3 DEF RunsSound, RunSound
<1>5. manager' \in [Sessions -> Managers] /\ \A s \in Sessions : manager'[s] = manager[s] \/ (s = t.s /\ manager'[s] = m)
  BY DEF Become, IInv, Typed
<1>6. Typed'
  BY <1>4, <1>5 DEF disk, IInv, Typed
<1>7. Created' = Created /\ Closing' = Closing
  BY DEF Created, Closing
<1> QED
  BY <1>4, <1>5, <1>6, <1>7, Frame

LEMMA ShutKeeps == ASSUME IInv, NEW t \in tasks, Shut(t) PROVE IInv'
<1>1. t.pc = "close" /\ UNCHANGED <<disk, database, ever, answered, overlap, requests, faults>>
      /\ run' = [run EXCEPT ![t.s] = [NoRun EXCEPT !.id = run[t.s].id]]
  BY DEF Shut
<1>2. t \in Requests /\ t.s \in Sessions /\ t.s \in Created /\ manager[t.s] \in Managers /\ Sound(t.s, manager[t.s])
  BY <1>1, AtWork
<1>3. t.s \in Closing
  BY <1>1 DEF IInv, Disk
<1>4. open' \subseteq Sessions /\ shows' \in [Sessions -> Pages]
  BY DEF Shut, browsers, IInv, Typed, Pages
<1>5. PICK c : c = SetState(manager[t.s], "closed")
  OBVIOUS
<1>6. c \in Managers /\ c.no = manager[t.s].no /\ c.record = manager[t.s].record /\ Sound(t.s, c)
  BY <1>2, <1>5, StateSet DEF States
<1>7. PICK m \in Managers : Become(t.s, m) /\ Sound(t.s, m) /\ Evolves(t.s, m)
  <2>1. CASE Mine(t)
    <3>1. PICK m : m = [c EXCEPT !.on = FALSE, !.handle = FALSE]
      OBVIOUS
    <3>2. m \in Managers /\ m.no = c.no /\ m.record = c.record /\ m.shown = c.shown /\ m.state = c.state
      BY <1>6, <3>1 DEF Managers
    <3>3. Become(t.s, m)
      BY <1>5, <2>1, <3>1 DEF Shut
    <3>4. Sound(t.s, m) /\ Evolves(t.s, m)
      BY <1>2, <1>6, <3>2 DEF Sound, Evolves, Managers
    <3> QED
      BY <3>2, <3>3, <3>4
  <2>2. CASE ~Mine(t)
    <3>1. PICK m : m = [manager[t.s] EXCEPT !.on = FALSE]
      OBVIOUS
    <3>2. m \in Managers /\ m.no = manager[t.s].no /\ m.record = manager[t.s].record
          /\ m.shown = manager[t.s].shown /\ m.state = manager[t.s].state
      BY <1>2, <3>1 DEF Managers
    <3>3. Become(t.s, m)
      BY <2>2, <3>1 DEF Shut
    <3>4. Sound(t.s, m) /\ Evolves(t.s, m)
      BY <1>2, <3>2 DEF Sound, Evolves, Managers
    <3> QED
      BY <3>2, <3>3, <3>4
  <2> QED
    BY <2>1, <2>2
<1>8. PICK u : u = [t EXCEPT !.pc = "remove", !.copy = NoCopy] /\ tasks' = (tasks \ {t}) \cup {u}
  BY DEF Shut, Goto
<1>9. u \in Requests /\ u.s = t.s /\ u.pc = "remove" /\ u.pc \in Quiet /\ u.copy = NoCopy
  BY <1>2, <1>8, Names DEF Requests, Quiet
<1> QED
  BY <1>1, <1>2, <1>3, <1>4, <1>7, <1>8, <1>9, ResetKeeps

LEMMA EnterKeeps == ASSUME IInv, NEW t \in tasks, Enter(t) PROVE IInv'
<1>1. t.pc = "made" /\ UNCHANGED <<disk, browsers, database, ever, answered, overlap, requests, faults>>
      /\ run' = [run EXCEPT ![t.s] = [NoRun EXCEPT !.id = run[t.s].id]]
  BY DEF Enter
<1>2. t \in Requests /\ t.s \in Sessions /\ t.s \in Created /\ manager[t.s].no \in Nat
  BY <1>1, AtWork DEF Managers
<1>3. PICK n \in Nat : n = manager[t.s].no + 1
  BY <1>2
<1>4. PICK m : m = [NoManager EXCEPT !.no = n, !.on = TRUE, !.state = "launching"]
  OBVIOUS
<1>5. m \in Managers /\ m.no = n /\ m.record = None /\ m.shown = None /\ m.state = "launching"
  BY <1>4 DEF NoManager, Managers, States
<1>6. Become(t.s, m) /\ Sound(t.s, m) /\ Evolves(t.s, m)
  BY <1>2, <1>3, <1>4, <1>5 DEF Enter, Sound, Evolves
<1>7. PICK u : u = [t EXCEPT !.pc = "launch", !.of = n] /\ tasks' = (tasks \ {t}) \cup {u}
  BY <1>3 DEF Enter
<1>8. t.copy = NoCopy
  BY <1>1 DEF IInv, Fresh
<1>9. u \in Requests /\ u.s = t.s /\ u.pc = "launch" /\ u.pc \in Quiet /\ u.copy = NoCopy
  BY <1>2, <1>7, <1>8 DEF Requests, Quiet
<1> QED
  BY <1>1, <1>2, <1>5, <1>6, <1>7, <1>9, ResetKeeps DEF browsers, IInv, Typed

LEMMA ShowKeeps == ASSUME IInv, NEW t \in tasks, Show(t) PROVE IInv'
<1>1. t.pc = "bound" /\ Goto(t, "reply") /\ UNCHANGED <<disk, browsers, run, database, ever, answered, overlap, requests, faults>>
  BY DEF Show
<1>2. t.s \in Sessions /\ t.who \in Accounts /\ <<t.s, t.who>> \in ever
      /\ (Mine(t) => manager[t.s].record \in {None, t.who})
  BY <1>1 DEF IInv, Typed, Requests, Binding, Mine
<1>3. manager[t.s] \in Managers /\ Sound(t.s, manager[t.s])
  BY <1>2, Opened
<1>4. /\ open' \subseteq Sessions /\ shows' \in [Sessions -> Pages] /\ faults' \in 0..MaxFaults
      /\ rows' \in [Accounts -> {Absent, "douyin-local", "self-scrape"}]
      /\ answered' \in [created : SUBSET Sessions, closing : SUBSET Sessions, unbound : SUBSET Sessions]
      /\ Created' = Created /\ Closing' = Closing
      /\ UNCHANGED <<disk, run, imports, stored, ever, overlap, requests>>
      /\ \E pc \in Going : Goto(t, pc)
  BY <1>1 DEF browsers, database, IInv, Typed, Created, Closing, Going, Quiet
<1>5. PICK m \in Managers : /\ Sound(t.s, m) /\ m.no = manager[t.s].no /\ m.record = manager[t.s].record
                            /\ manager' = manager \/ BecomeMine(t, m)
  <2>1. CASE Mine(t)
    <3>1. PICK n : n = [manager[t.s] EXCEPT !.state = "authenticated", !.shown = t.who]
      OBVIOUS
    <3>2. n \in Managers /\ n.no = manager[t.s].no /\ n.record = manager[t.s].record /\ n.shown = t.who /\ n.state = "authenticated"
      BY <1>2, <1>3, <3>1 DEF Managers, States
    <3>3. Sound(t.s, n)
      BY <1>2, <1>3, <2>1, <3>2, Names DEF Sound
    <3>4. BecomeMine(t, n)
      BY <3>1 DEF Show
    <3> QED
      BY <3>2, <3>3, <3>4
  <2>2. CASE ~Mine(t)
    BY <1>3, <2>2 DEF Show, BecomeMine
  <2> QED
    BY <2>1, <2>2
<1>6. t.pc \notin {"read", "push"}
  BY <1>1
<1> QED
  BY <1>4, <1>5, <1>6, TaskKeeps

\* What a request writes: its copy, with the entry of its own session.
LEMMA WriteKeeps ==
  ASSUME IInv, NEW t \in tasks, t.pc \in Updating, NEW account \in Entries, WriteFile(t, account),
         NEW pc \in {"made", "bound", "delete"}, Goto(t, pc),
         t.pc = "push" <=> pc = "made", pc = "delete" <=> t.pc = "drop", t.pc = "bind" <=> account = t.who /\ pc = "bound",
         account = Absent <=> t.pc = "drop", t.pc = "bind" => <<t.s, t.who>> \in ever',
         account \in Accounts => <<t.s, account>> \in ever',
         ever \subseteq ever', ever' \subseteq Sessions \X Accounts,
         Created' = Created \cup (IF t.pc = "push" THEN {t.s} ELSE {}), Closing' = Closing,
         answered' \in [created : SUBSET Sessions, closing : SUBSET Sessions, unbound : SUBSET Sessions],
         UNCHANGED <<dirs, browsers, manager, run, database, overlap, requests, faults>>
  PROVE  IInv'
<1> USE DEF browsers, database
<1>1. t \in Requests /\ t.s \in Sessions /\ t.copy \in [Sessions -> Entries] /\ (t.s \in Created <=> t.pc # "push")
  BY DEF IInv, Typed, Requests, Fresh, Updating
<1>2. file' \in [Sessions -> Entries] /\ file'[t.s] = account /\ \A s \in Sessions \ {t.s} : file'[s] = t.copy[s]
  BY <1>1 DEF WriteFile
<1>3. PICK u : u = [t EXCEPT !.pc = pc, !.copy = NoCopy] /\ tasks' = (tasks \ {t}) \cup {u}
  BY DEF Goto
<1>4. u \in Requests /\ u.s = t.s /\ u.pc = pc /\ u.copy = NoCopy /\ u.who = t.who /\ u.of = t.of
  BY <1>1, <1>3, Names DEF Requests, Quiet
<1>5. \A s \in Sessions : u.copy[s] = Absent /\ u.copy[s] \notin Accounts
  BY <1>4, Names
<1>6. Typed'
  BY <1>2, <1>3, <1>4 DEF IInv, Typed
<1>7. ManagersSound'
  BY DEF IInv, ManagersSound, Sound
<1>8. RunsSound'
  BY DEF IInv, RunsSound, RunSound, OwnerWasBound
<1>9. FilesSound'
  <2>1. \A s \in Sessions : file'[s] \in Accounts => <<s, file'[s]>> \in ever'
    BY <1>2 DEF IInv, FilesSound
  <2>2. \A x \in tasks', s \in Sessions : x.copy[s] \in Accounts => <<s, x.copy[s]>> \in ever'
    BY <1>3, <1>5 DEF IInv, FilesSound
  <2> QED
    BY <2>1, <2>2 DEF FilesSound
<1>10. Fresh'
  <2>1. \A s \in Sessions \ Created' : s \in Sessions \ Created /\ s # t.s
    BY <1>1
  <2>2. \A s \in Sessions \ Created' : file'[s] = Absent
    BY <1>2, <2>1 DEF IInv, Fresh
  <2>3. \A x \in tasks', s \in Sessions \ Created' : x.copy[s] = Absent
    <3>1. \A x \in tasks, s \in Sessions \ Created : x.copy[s] = Absent
      BY DEF IInv, Fresh
    <3> QED
      BY <1>3, <1>5, <2>1, <3>1
  <2>4. \A x, y \in tasks : x.s \notin Created /\ y.s = x.s => x = y
    BY DEF IInv, Fresh
  <2>5. \A x \in tasks' : x = u \/ (x \in tasks /\ (x.s \in Created' <=> x.s \in Created))
    BY <1>1, <1>3, <2>4
  <2>6. u.s \in Created' /\ u.pc \notin {"read", "push"}
    BY <1>1, <1>4
  <2>7. \A x \in tasks' : x.pc \in {"read", "push"} <=> x.s \notin Created'
    BY <2>5, <2>6 DEF IInv, Fresh
  <2>8. \A x \in tasks' : x.s \notin Created' => x.s \in dirs
    BY <2>5, <2>6 DEF IInv, Fresh
  <2>9. \A x, y \in tasks' : x.s \notin Created' /\ y.s = x.s => x = y
    BY <1>4, <2>4, <2>5, <2>6
  <2>10. \A x \in tasks' : x.pc = "made" => x.copy = NoCopy
    BY <1>3, <1>4 DEF IInv, Fresh
  <2> QED
    BY <2>1, <2>2, <2>3, <2>7, <2>8, <2>9, <2>10 DEF IInv, Fresh
<1>11. Binding'
  <2> SUFFICES ASSUME NEW x \in tasks', x.pc \in {"bind", "bound"}
               PROVE  /\ x.who # None /\ x.of <= manager'[x.s].no
                      /\ x.pc = "bind" => x.copy[x.s] # Absent
                      /\ x.pc = "bound" => <<x.s, x.who>> \in ever'
                      /\ manager'[x.s].no = x.of => manager'[x.s].record \in {None, x.who}
    BY DEF Binding
  <2>1. CASE x = u
    <3>1. t.pc = "bind" /\ u.pc = "bound" /\ <<t.s, t.who>> \in ever'
      BY <1>4, <2>1 DEF Updating
    <3>2. t.who # None /\ t.of <= manager[t.s].no /\ (manager[t.s].no = t.of => manager[t.s].record \in {None, t.who})
      BY <3>1 DEF IInv, Binding
    <3> QED
      BY <1>4, <2>1, <3>1, <3>2
  <2>2. CASE x \in tasks
    BY <2>2 DEF IInv, Binding
  <2> QED
    BY <1>3, <2>1, <2>2
<1>12. Disk'
  <2>1. \A x \in tasks' : x.pc \in {"close", "remove", "drop", "delete"} => x.s \in Closing'
    BY <1>3, <1>4 DEF IInv, Disk
  <2>2. ~overlap => /\ t.copy = file
                    /\ \A x \in tasks' : x.pc \notin Updating
    BY <1>3, <1>4 DEF IInv, Disk, Updating
  <2>3. ~overlap => \A s \in Sessions \ {t.s} : file'[s] = file[s]
    BY <1>2, <2>2
  <2>4. ~overlap => \A x \in tasks : x.pc = "delete" => file[x.s] = Absent /\ x.s \in Sessions /\ x.s \in Created
    BY DEF IInv, Disk, Fresh, Typed, Requests
  <2>5. ~overlap /\ t.pc = "bind" => file[t.s] # Absent
    BY <2>2 DEF IInv, Binding
  <2>6. ~overlap => \A x \in tasks' : x.pc = "delete" => file'[x.s] = Absent
    <3> SUFFICES ASSUME ~overlap, NEW x \in tasks', x.pc = "delete" PROVE file'[x.s] = Absent
      OBVIOUS
    <3>1. CASE x = u
      BY <1>2, <1>4, <3>1
    <3>2. CASE x \in tasks
      BY <1>1, <1>2, <2>3, <2>4, <2>5, <3>2 DEF Updating
    <3> QED
      BY <1>3, <3>1, <3>2
  <2>7. FileMatchesDisk'
    <3>1. t.pc = "push" => t.s \in dirs
      BY <1>1 DEF IInv, Fresh
    <3>2. t.pc = "drop" => t.s \in Closing
      BY DEF IInv, Disk
    <3>3. ~overlap => \A s \in Sessions : file'[s] # Absent => s \in dirs
      BY <1>1, <1>2, <2>3, <2>5, <3>1 DEF IInv, Disk, FileMatchesDisk, Updating
    <3>4. ~overlap => \A s \in Created' \ Closing : file'[s] # Absent
      <4> SUFFICES ASSUME ~overlap, NEW s \in Created' \ Closing PROVE file'[s] # Absent
        OBVIOUS
      <4>1. CASE s = t.s
        BY <1>2, <3>2, <4>1
      <4>2. CASE s # t.s
        BY <2>3, <4>2 DEF IInv, Typed, Disk, FileMatchesDisk, Created, Closing
      <4> QED
        BY <4>1, <4>2
    <3> QED
      BY <3>3, <3>4 DEF FileMatchesDisk, Created, Closing
  <2> QED
    BY <2>1, <2>2, <2>6, <2>7 DEF Disk
<1> QED
  BY <1>6, <1>7, <1>8, <1>9, <1>10, <1>11, <1>12 DEF IInv

LEMMA PushKeeps == ASSUME IInv, NEW t \in tasks, Push(t) PROVE IInv'
<1>1. t.pc = "push" /\ t.s \in Sessions
  BY DEF Push, IInv, Typed, Requests
<1>2. /\ WriteFile(t, None) /\ Goto(t, "made")
      /\ answered' = [answered EXCEPT !.created = @ \cup {t.s}]
      /\ UNCHANGED <<dirs, browsers, manager, run, database, ever, overlap, requests, faults>>
  BY DEF Push
<1>3. /\ answered' \in [created : SUBSET Sessions, closing : SUBSET Sessions, unbound : SUBSET Sessions]
      /\ Created' = Created \cup (IF t.pc = "push" THEN {t.s} ELSE {}) /\ Closing' = Closing
  BY <1>1, <1>2 DEF IInv, Typed, Created, Closing
<1>4. ever' = ever /\ ever' \subseteq Sessions \X Accounts
  BY <1>2 DEF IInv, Typed
<1> QED
  BY <1>1, <1>2, <1>3, <1>4, Names, WriteKeeps DEF Updating, Entries

LEMMA BindKeeps == ASSUME IInv, NEW t \in tasks, Bind(t) PROVE IInv'
<1>1. t.pc = "bind" /\ t.s \in Sessions /\ t.who \in Accounts
  BY DEF Bind, IInv, Typed, Requests, Binding
<1>2. /\ WriteFile(t, t.who) /\ Goto(t, "bound") /\ ever' = ever \cup {<<t.s, t.who>>}
      /\ UNCHANGED <<dirs, browsers, manager, run, database, answered, overlap, requests, faults>>
  BY DEF Bind
<1>3. ever \subseteq ever' /\ ever' \subseteq Sessions \X Accounts /\ <<t.s, t.who>> \in ever'
      /\ answered' \in [created : SUBSET Sessions, closing : SUBSET Sessions, unbound : SUBSET Sessions]
      /\ Created' = Created \cup (IF t.pc = "push" THEN {t.s} ELSE {}) /\ Closing' = Closing
  BY <1>1, <1>2 DEF IInv, Typed, Created, Closing
<1>4. t.who \in Entries /\ t.who # Absent /\ t.who # None
  BY <1>1, Names DEF Entries
<1> QED
  BY <1>1, <1>2, <1>3, <1>4, WriteKeeps DEF Updating

LEMMA DropKeeps == ASSUME IInv, NEW t \in tasks, Drop(t) PROVE IInv'
<1>1. t.s \in Sessions /\ manager' = manager
  BY DEF Drop, IInv, Typed, Requests
<1>4. UNCHANGED <<browsers, run, database, ever, answered, overlap, requests, faults>>
  BY DEF Drop
<1>5. answered' \in [created : SUBSET Sessions, closing : SUBSET Sessions, unbound : SUBSET Sessions]
      /\ Created' = Created /\ Closing' = Closing /\ ever' \subseteq Sessions \X Accounts
  BY <1>4 DEF IInv, Typed, Created, Closing
<1>6. CASE t.pc = "drop"
  <2>1. WriteFile(t, Absent) /\ Goto(t, "delete") /\ dirs' = dirs
    BY <1>6 DEF Drop
  <2>3. Absent \in Entries /\ Absent \notin Accounts
    BY Names DEF Entries
  <2> QED
    BY <1>1, <1>4, <1>5, <1>6, <2>1, <2>3, WriteKeeps DEF Updating
<1>7. CASE t.pc = "delete"
  <2>1. dirs' = dirs \ {t.s} /\ tasks' = tasks \ {t} /\ file' = file
    BY <1>7 DEF Drop, End
  <2>2. t.s \in Created
    BY <1>7, AtWork
  <2>3. Typed' /\ ManagersSound' /\ RunsSound' /\ FilesSound' /\ Binding'
    <3>1. Typed'
      BY <1>1, <1>4, <1>5, <2>1 DEF browsers, database, IInv, Typed
    <3>2. ManagersSound' /\ RunsSound'
      BY <1>1, <1>4 DEF database, IInv, ManagersSound, Sound, RunsSound, RunSound, OwnerWasBound
    <3>3. FilesSound' /\ Binding'
      BY <1>1, <1>4, <2>1 DEF IInv, FilesSound, Binding
    <3> QED
      BY <3>1, <3>2, <3>3
  <2>4. Fresh'
    BY <1>1, <1>5, <2>1, <2>2 DEF IInv, Fresh
  <2>5. ~overlap => file[t.s] = Absent
    BY <1>7 DEF IInv, Disk
  <2>6. FileMatchesDisk'
    BY <1>4, <2>1, <2>5 DEF IInv, Disk, FileMatchesDisk
  <2>7. Disk'
    BY <1>4, <1>5, <2>1, <2>6 DEF IInv, Disk
  <2> QED
    BY <2>3, <2>4, <2>7 DEF IInv
<1> QED
  BY <1>6, <1>7 DEF Drop

LEMMA CreateKeeps == ASSUME IInv, NEW s \in Sessions, Create(s) PROVE IInv'
<1>1. s \notin Created /\ s \notin dirs /\ dirs' = dirs \cup {s}
      /\ UNCHANGED <<file, browsers, manager, run, database, ever, answered, overlap, faults>>
  BY DEF Create, Created
<1>2. manager[s].no \in Nat
  BY DEF IInv, Typed, Managers
<1>3. PICK u : /\ u = [no |-> requests', s |-> s, pc |-> "read", copy |-> NoCopy, who |-> None,
                       of |-> IF manager[s].on THEN manager[s].no ELSE manager[s].no + 1]
               /\ tasks' = tasks \cup {u}
  BY DEF Create, Ask, AskFor
<1>4. requests' \in 0..MaxRequests /\ requests' \in Nat
  BY BoundAssumption DEF Create, Ask, AskFor, IInv, Typed
<1>5. u \in Requests /\ u.s = s /\ u.pc = "read" /\ u.copy = NoCopy
  BY <1>2, <1>3, <1>4, Names DEF Requests
<1>6. Typed'
  BY <1>1, <1>3, <1>4, <1>5 DEF browsers, database, IInv, Typed
<1>7. ManagersSound' /\ RunsSound'
  BY <1>1 DEF database, IInv, ManagersSound, Sound, RunsSound, RunSound, OwnerWasBound
<1>8. FilesSound' /\ Binding'
  BY <1>1, <1>3, <1>5, Names DEF IInv, FilesSound, Binding
<1>9. Created' = Created /\ Closing' = Closing
  BY <1>1 DEF Created, Closing
<1>10. Fresh'
  <2>1. \A t \in tasks : t.s # s
    BY <1>1 DEF IInv, Fresh
  <2>2. \A t \in tasks', x \in Sessions \ Created : t.copy[x] = Absent
    <3>1. \A t \in tasks, x \in Sessions \ Created : t.copy[x] = Absent
      BY DEF IInv, Fresh
    <3> QED
      BY <1>3, <1>5, <3>1, Names
  <2>3. \A t \in tasks' : t.pc \in {"read", "push"} <=> t.s \notin Created
    BY <1>1, <1>3, <1>5 DEF IInv, Fresh
  <2>4. \A t \in tasks' : t.s \notin Created => t.s \in dirs'
    BY <1>1, <1>3, <1>5 DEF IInv, Fresh
  <2>5. \A t, x \in tasks' : t.s \notin Created /\ x.s = t.s => t = x
    <3>1. \A t, x \in tasks : t.s \notin Created /\ x.s = t.s => t = x
      BY DEF IInv, Fresh
    <3> QED
      BY <1>3, <1>5, <2>1, <3>1
  <2>6. \A t \in tasks' : t.pc = "made" => t.copy = NoCopy
    BY <1>3, <1>5 DEF IInv, Fresh
  <2> QED
    BY <1>1, <1>9, <2>2, <2>3, <2>4, <2>5, <2>6 DEF IInv, Fresh
<1>11. Disk'
  <2>1. \A t \in tasks' : t.pc \in Updating \cup {"close", "remove", "drop", "delete"} => t \in tasks
    BY <1>3, <1>5 DEF Updating
  <2>2. FileMatchesDisk'
    BY <1>1 DEF IInv, Disk, FileMatchesDisk
  <2> QED
    BY <1>1, <1>9, <2>1, <2>2 DEF IInv, Disk
<1> QED
  BY <1>6, <1>7, <1>8, <1>10, <1>11 DEF IInv

\* No manager survives a restart, and no request but those the API has the answer of; the disk does.
LEMMA RestartKeeps == ASSUME IInv, CollectorRestarts PROVE IInv'
<1>1. /\ open' = {} /\ shows' = [s \in Sessions |-> "loading"] /\ faults' \in 0..MaxFaults
      /\ \A t \in tasks' : t \in tasks /\ t.pc = "reply"
      /\ manager' = [s \in Sessions |-> [NoManager EXCEPT !.no = manager[s].no]]
      /\ run' = [s \in Sessions |-> [NoRun EXCEPT !.id = run[s].id]]
      /\ UNCHANGED <<disk, database, ever, answered, overlap, requests>>
  BY BoundAssumption DEF CollectorRestarts, IInv, Typed
<1>2. \A s \in Sessions : /\ manager'[s] \in Managers /\ manager'[s].no = manager[s].no
                          /\ manager'[s].on = FALSE /\ manager'[s].page = FALSE /\ Sound(s, manager[s])'
  <2> SUFFICES ASSUME NEW s \in Sessions
               PROVE  /\ manager'[s] \in Managers /\ manager'[s].no = manager[s].no
                      /\ manager'[s].on = FALSE /\ manager'[s].page = FALSE /\ Sound(s, manager[s])'
    OBVIOUS
  <2>1. PICK m : m = [NoManager EXCEPT !.no = manager[s].no]
    OBVIOUS
  <2>2. manager'[s] = m /\ manager[s].no \in Nat
    BY <1>1, <2>1 DEF IInv, Typed, Managers
  <2>3. m \in Managers /\ m.no = manager[s].no /\ m.on = FALSE /\ m.page = FALSE
        /\ m.record = None /\ m.shown = None /\ m.state = "idle"
    BY <2>1, <2>2 DEF NoManager, Managers, States
  <2> QED
    BY <2>2, <2>3 DEF Sound
<1>3. \A s \in Sessions : run'[s] \in Collections /\ RunSound(s, run[s])'
  BY <1>1 DEF IInv, Typed, NoRun, Collections, RunSound
<1>4. Typed'
  <2>1. manager' \in [Sessions -> Managers] /\ run' \in [Sessions -> Collections] /\ shows' \in [Sessions -> Pages]
    BY <1>1, <1>2, <1>3 DEF Pages
  <2> QED
    BY <1>1, <2>1 DEF disk, database, IInv, Typed
<1>5. ManagersSound' /\ RunsSound'
  BY <1>1, <1>2, <1>3 DEF database, IInv, ManagersSound, RunsSound, OwnerWasBound
<1>6. FilesSound' /\ Binding'
  BY <1>1 DEF disk, IInv, FilesSound, Binding
<1>7. Fresh'
  BY <1>1, <1>2 DEF disk, IInv, Fresh, Created
<1>8. Disk'
  BY <1>1 DEF disk, IInv, Disk, FileMatchesDisk, Created, Closing, Updating
<1> QED
  BY <1>4, <1>5, <1>6, <1>7, <1>8 DEF IInv

-------------------------------------------------------------------------------
(* The theorems *)

LEMMA Inductive == IInv /\ [Next]_vars => IInv'
<1> SUFFICES ASSUME IInv, [Next]_vars PROVE IInv'
  OBVIOUS
<1>1. CASE UNCHANGED vars
  <2>1. Typed' /\ ManagersSound' /\ RunsSound'
    BY <1>1 DEF vars, disk, browsers, database, IInv, Typed, ManagersSound, Sound, RunsSound, RunSound, OwnerWasBound
  <2>2. Managed /\ Created' = Created /\ Closing' = Closing /\ tasks' = tasks /\ UNCHANGED <<disk, ever, overlap>>
    BY <1>1 DEF vars, disk, Managed, Created, Closing
  <2> QED
    BY <2>1, <2>2, Frame DEF Managed
<1>2. ASSUME NEW s \in Sessions,
             Create(s) \/ Status(s) \/ Refresh(s) \/ List(s) \/ Close(s) \/ PageTurns(s) \/ IdentitySeen(s) \/ WindowClosed(s)
             \/ StartCollection(s) \/ CheckIdentity(s) \/ EndRun(s)
      PROVE  IInv'
  BY <1>2, CreateKeeps, BeginKeeps, OutsideKeeps, StartKeeps, RunKeeps
<1>3. ASSUME NEW t \in tasks,
             ReadForCreate(t) \/ Push(t) \/ Enter(t) \/ Launch(t) \/ Detect(t) \/ CaptureQr(t) \/ ReadIdentity(t)
             \/ Bind(t) \/ Show(t) \/ BindAccount(t) \/ Shut(t) \/ ReadForRemove(t) \/ Drop(t)
      PROVE  IInv'
  BY <1>3, ReadForCreateKeeps, PushKeeps, EnterKeeps, LaunchKeeps, DetectKeeps, ReadIdentityKeeps, BindKeeps, ShowKeeps,
     BindAccountKeeps, ShutKeeps, ReadForRemoveKeeps, DropKeeps
<1>4. CASE \E i \in imports : Import(i)
  BY <1>4, ImportKeeps
<1>5. CASE CollectorRestarts
  BY <1>5, RestartKeeps
<1> QED
  BY <1>1, <1>2, <1>3, <1>4, <1>5 DEF Next

\* The inductive invariant holds of every behaviour.
THEOREM Invariance == Spec => []IInv
<1>1. Init => IInv
  BY Initially
<1>2. IInv /\ [Next]_vars => IInv'
  BY Inductive
<1> QED
  BY <1>1, <1>2, PTL DEF Spec

\* Every variable keeps its type, and a manager shows an account exactly when it reports
\* to be authenticated (setState and readIdentity of douyin-session-manager.ts).
THEOREM TypeCorrect == Spec => []TypeOK
<1>1. IInv => TypeOK
  BY DEF IInv, Typed, ManagersSound, Sound, TypeOK, Entries, Managers, Collections
<1> QED
  BY <1>1, Invariance, PTL

\* Unless two updates of sessions.json overlapped, every session in it has its profile and
\* every session created and not closed is in it, whatever was interrupted.
THEOREM FilesMatch == Spec => []FileMatchesDisk
<1>1. IInv => FileMatchesDisk
  BY DEF IInv, Disk
<1> QED
  BY <1>1, Invariance, PTL

\* Evidence is stored for accounts only that the entry of its session has named.
THEOREM OwnersWereBound == Spec => []OwnerWasBound
<1>1. IInv => OwnerWasBound
  BY DEF IInv, RunsSound
<1> QED
  BY <1>1, Invariance, PTL

\* A session restored from the file shows the account it was restored for and no other.
THEOREM RestoredKeeps == Spec => []RestoredKeepsAccount
<1>1. IInv => RestoredKeepsAccount
  BY DEF IInv, ManagersSound, Sound, RestoredKeepsAccount
<1> QED
  BY <1>1, Invariance, PTL
===============================================================================
