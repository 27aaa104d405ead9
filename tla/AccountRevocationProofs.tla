---------------------- MODULE AccountRevocationProofs ----------------------
(* Theorems about AccountRevocation for every number of requests.           *)
EXTENDS AccountRevocation, TLAPS

\* Every operation id a row or a request holds is that of a preparation in the
\* audit log, and an operation that is complete is not running any more.
Logged ==
  /\ row.op # None => row.op \in Used
  /\ row.st = "none" => row.op = None
  /\ \A r \in Requests : req[r].op # None => req[r].op \in Used
  /\ \A o \in Operations : completed[o] = 1 => o \in Used /\ (row.op = o => row.st \notin Running)

\* All preparations of one operation ask for the retention the row records.
OneRetention ==
  row.st # "none" => /\ row.retain # "null"
                     /\ \A p \in prepared : p.op = row.op => (p.keep <=> row.retain = "keep")

\* A deleted account has nothing that was to be kept.
GoneForGood == row.st = "gone" => row.retain # "keep" /\ ~history

\* The credential does not change under a running operation.
SameSecret ==
  row.st \in Running => \A r \in Requests : req[r].op = row.op => req[r].secret = secret

\* What is or was a credential of the account has been issued, and one a
\* request has reached the platform for is revoked.
Issued ==
  /\ secret # None => grant[secret] # "unissued"
  /\ \A r \in Requests : req[r].secret # None =>
       /\ grant[req[r].secret] # "unissued"
       /\ req[r].reached => grant[req[r].secret] = "revoked"

\* A call that was answered as revoked has reached the platform.
Answered == \A r \in Requests : req[r].pc = "revoked" /\ supported => req[r].reached

IInv == TypeOK /\ Logged /\ OneRetention /\ GoneForGood /\ SameSecret /\ Issued /\ Answered

---------------------------------------------------------------------------
LEMMA Initially == Init => IInv
<1> SUFFICES ASSUME Init PROVE IInv
  OBVIOUS
<1> USE DEF Init
<1>1. \A r \in Requests : req[r] = Idle
  OBVIOUS
<1>2. TypeOK
  <2>1. Idle \in [pc : {"idle", "calling", "revoked", "failed", "unknown", "answered", "lost"}, op : Operations \cup {None},
                  reached : BOOLEAN, secret : Secrets \cup {None}]
    BY DEF Idle
  <2>2. row \in [st : {"none", "completed", "gone"} \cup Running, op : Operations \cup {None}, retain : Flags]
        /\ row.st \notin Running
    BY DEF Running, Flags
  <2>3. grant \in [Secrets -> {"unissued", "granted", "revoked"}] /\ completed \in [Operations -> 0..1]
    OBVIOUS
  <2> QED
    BY <2>1, <2>2, <2>3, FirstAssumption DEF TypeOK
<1>3. Logged /\ OneRetention /\ GoneForGood /\ SameSecret
  BY <1>1 DEF Logged, OneRetention, GoneForGood, SameSecret, Idle, Running
<1>4. Issued /\ Answered
  BY <1>1, FirstAssumption DEF Issued, Answered, Idle
<1> QED
  BY <1>2, <1>3, <1>4 DEF IInv

\* A step that only moves a request, not to an answer "revoked".
LEMMA Moves ==
  ASSUME IInv, NEW r \in Requests,
         NEW pc \in {"idle", "calling", "revoked", "failed", "unknown", "answered", "lost"},
         Goto(r, pc), pc = "revoked" => req[r].reached,
         UNCHANGED <<account, platform, calls, probed, latest>>
  PROVE  IInv'
<1> USE DEF account, platform
<1>1. req \in [Requests -> [pc : {"idle", "calling", "revoked", "failed", "unknown", "answered", "lost"}, op : Operations \cup {None},
                           reached : BOOLEAN, secret : Secrets \cup {None}]]
  BY DEF IInv, TypeOK
<1>2. /\ \A t \in Requests : /\ req'[t].op = req[t].op /\ req'[t].secret = req[t].secret
                             /\ req'[t].reached = req[t].reached
      /\ \A t \in Requests : req'[t].pc = IF t = r THEN pc ELSE req[t].pc
  BY <1>1 DEF Goto
<1>3. TypeOK'
  <2>1. req' \in [Requests -> [pc : {"idle", "calling", "revoked", "failed", "unknown", "answered", "lost"}, op : Operations \cup {None},
                           reached : BOOLEAN, secret : Secrets \cup {None}]]
    BY <1>1 DEF Goto
  <2> QED
    BY <2>1 DEF IInv, TypeOK
<1>4. Used' = Used
  BY DEF Used
<1>5. Logged' /\ OneRetention' /\ GoneForGood'
  BY <1>2, <1>4 DEF IInv, Logged, OneRetention, GoneForGood
<1>6. SameSecret' /\ Issued' /\ Answered'
  BY <1>2 DEF IInv, SameSecret, Issued, Answered
<1> QED
  BY <1>3, <1>5, <1>6 DEF IInv

\* The operations of the log after one more entry.
LEMMA OperationsOf ==
  ASSUME NEW P, NEW q
  PROVE  {p.op : p \in P \cup {q}} = {p.op : p \in P} \cup {q.op}
OBVIOUS

\* A step that leaves the requests alone, and the operation of the row.
LEMMA PrepareKeeps ==
  ASSUME IInv, NEW r \in Requests, NEW keep \in BOOLEAN, Prepare(r, keep)
  PROVE  IInv'
<1> USE DEF platform
<1> DEFINE fresh(o) == [pc |-> IF supported THEN "calling" ELSE "revoked", op |-> o, reached |-> FALSE, secret |-> secret]
<1>1. PICK o \in OperationsFor :
        /\ row' = [st |-> "pending", op |-> o, retain |-> RetainOf(keep)]
        /\ prepared' = prepared \cup {[op |-> o, keep |-> RetainOf(keep) = "keep"]}
        /\ req' = [req EXCEPT ![r] = fresh(o)]
  BY DEF Prepare
<1>2. row.st = "none" \/ row.st \in Running
  BY DEF Prepare
<1>3. /\ o \in Operations /\ o # None
      /\ row.st = "none" => o \notin Used
      /\ row.st # "none" => o = row.op
  BY <1>1, <1>2, NoneAssumption DEF OperationsFor, IInv, TypeOK
<1>4. RetainOf(keep) \in {"keep", "erase"}
  BY <1>2 DEF RetainOf, IInv, TypeOK, Flags
<1>5. /\ req'[r] = fresh(o)
      /\ \A t \in Requests \ {r} : req'[t] = req[t]
      /\ DOMAIN req' = Requests
  BY <1>1 DEF IInv, TypeOK
<1>6. Used' = Used \cup {o}
  <2> DEFINE q == [op |-> o, keep |-> RetainOf(keep) = "keep"]
  <2>2. q.op = o
    OBVIOUS
  <2>1. prepared' = prepared \cup {q}
    BY <1>1
  <2> HIDE DEF q
  <2> QED
    BY <2>1, <2>2, OperationsOf DEF Used
<1>7. TypeOK'
  <2>1. row' \in [st : {"none", "completed", "gone"} \cup Running, op : Operations \cup {None}, retain : Flags]
    BY <1>1, <1>3, <1>4 DEF Running, Flags
  <2>2. prepared' \subseteq [op : Operations, keep : BOOLEAN]
    <3>1. (RetainOf(keep) = "keep") \in BOOLEAN
      OBVIOUS
    <3>2. [op |-> o, keep |-> RetainOf(keep) = "keep"] \in [op : Operations, keep : BOOLEAN]
      BY <1>3, <3>1, Zenon
    <3> QED
      BY <1>1, <3>2 DEF IInv, TypeOK
  <2>3. req' \in [Requests -> [pc : {"idle", "calling", "revoked", "failed", "unknown", "answered", "lost"}, op : Operations \cup {None},
                           reached : BOOLEAN, secret : Secrets \cup {None}]]
    BY <1>1, <1>3 DEF IInv, TypeOK
  <2>4. row'.op # None
    BY <1>1, <1>3
  <2> QED
    BY <2>1, <2>2, <2>3, <2>4 DEF Prepare, IInv, TypeOK
<1>8. Logged'
  <2>1. row'.op \in Used' /\ row'.st # "none"
    BY <1>1, <1>6
  <2>2. \A t \in Requests : req'[t].op # None => req'[t].op \in Used'
    BY <1>5, <1>6 DEF IInv, Logged
  <2>3. ASSUME NEW c \in Operations, completed[c] = 1
        PROVE  c \in Used' /\ row'.op # c
    BY <2>3, <1>1, <1>2, <1>3, <1>6 DEF IInv, Logged, Running
  <2>4. completed' = completed
    BY DEF Prepare
  <2> QED
    BY <2>1, <2>2, <2>3, <2>4 DEF Logged
<1>9. OneRetention' /\ GoneForGood'
  <2>1. row'.retain # "null" /\ row'.st = "pending" /\ row'.op = o /\ row'.retain = RetainOf(keep)
    BY <1>1, <1>4
  <2>2. ASSUME NEW p \in prepared', p.op = o
        PROVE  p.keep <=> RetainOf(keep) = "keep"
    <3>1. CASE p \in prepared
      <4>1. o \in Used
        BY <2>2, <3>1 DEF Used
      <4>2. row.st # "none" /\ o = row.op
        BY <4>1, <1>3
      <4>3. RetainOf(keep) = row.retain
        BY <4>2 DEF RetainOf, IInv, OneRetention
      <4> QED
        BY <3>1, <2>2, <4>2, <4>3 DEF IInv, OneRetention
    <3>2. CASE p = [op |-> o, keep |-> RetainOf(keep) = "keep"]
      BY <3>2
    <3> QED
      BY <3>1, <3>2, <1>1
  <2> QED
    BY <2>1, <2>2 DEF OneRetention, GoneForGood
<1>10. SameSecret'
  <2>1. secret' = secret /\ row'.op = o
    BY <1>1 DEF Prepare
  <2>2. ASSUME NEW t \in Requests, req'[t].op = o
        PROVE  req'[t].secret = secret
    <3>1. CASE t = r
      BY <3>1, <1>5
    <3>2. CASE t # r
      <4>1. req[t].op = o /\ o \in Used
        BY <2>2, <3>2, <1>5, <1>3 DEF IInv, Logged
      <4> QED
        BY <4>1, <3>2, <1>2, <1>3, <1>5 DEF IInv, SameSecret
    <3> QED
      BY <3>1, <3>2
  <2> QED
    BY <2>1, <2>2 DEF SameSecret
<1>11. Issued' /\ Answered'
  <2>1. secret' = secret /\ grant' = grant /\ supported' = supported
    BY DEF Prepare
  <2>2. req'[r].secret = secret /\ req'[r].reached = FALSE
    BY <1>5
  <2>3. req'[r].pc = "revoked" => ~supported
    BY <1>5
  <2> QED
    BY <2>1, <2>2, <2>3, <1>5 DEF IInv, Issued, Answered
<1> QED
  BY <1>7, <1>8, <1>9, <1>10, <1>11 DEF IInv

LEMMA RevokeKeeps ==
  ASSUME IInv, NEW r \in Requests, Revoke(r)
  PROVE  IInv'
<1> USE DEF account
<1>1. /\ req' = [req EXCEPT ![r].reached = TRUE]
      /\ grant' = [s \in Secrets |-> IF grant[s] = "granted" THEN "revoked" ELSE grant[s]]
      /\ calls' = calls \ {r} /\ supported' = supported
      /\ UNCHANGED <<row, enabled, secret, history, prepared, completed, probed, latest>>
  BY DEF Revoke
<1>2. req \in [Requests -> [pc : {"idle", "calling", "revoked", "failed", "unknown", "answered", "lost"}, op : Operations \cup {None},
                           reached : BOOLEAN, secret : Secrets \cup {None}]]
  BY DEF IInv, TypeOK
<1>3. /\ \A t \in Requests : req'[t].op = req[t].op /\ req'[t].secret = req[t].secret /\ req'[t].pc = req[t].pc
      /\ \A t \in Requests : req'[t].reached => t = r \/ req[t].reached
      /\ \A t \in Requests : req[t].reached => req'[t].reached
  BY <1>1, <1>2
<1>4. TypeOK'
  <2>1. req' \in [Requests -> [pc : {"idle", "calling", "revoked", "failed", "unknown", "answered", "lost"}, op : Operations \cup {None},
                           reached : BOOLEAN, secret : Secrets \cup {None}]]
    BY <1>1, <1>2
  <2>2. grant' \in [Secrets -> {"unissued", "granted", "revoked"}]
    BY <1>1 DEF IInv, TypeOK
  <2> QED
    BY <1>1, <2>1, <2>2 DEF IInv, TypeOK
<1>5. Used' = Used
  BY <1>1 DEF Used
<1>6. Logged' /\ OneRetention' /\ GoneForGood' /\ SameSecret'
  BY <1>1, <1>3, <1>5 DEF IInv, Logged, OneRetention, GoneForGood, SameSecret
<1>7. Issued'
  <2>1. grant \in [Secrets -> {"unissued", "granted", "revoked"}] /\ secret \in Secrets \cup {None}
    BY DEF IInv, TypeOK
  <2>2. \A s \in Secrets : grant[s] # "unissued" => grant'[s] = "revoked"
    BY <1>1, <2>1
  <2>3. \A t \in Requests : req[t].secret \in Secrets \cup {None}
    BY <1>2
  <2> QED
    BY <1>1, <1>3, <2>1, <2>2, <2>3 DEF IInv, Issued
<1>8. Answered'
  BY <1>1, <1>3 DEF IInv, Answered
<1> QED
  BY <1>4, <1>6, <1>7, <1>8 DEF IInv

LEMMA FailKeeps ==
  ASSUME IInv, NEW r \in Requests, Fail(r)
  PROVE  IInv'
<1>1. req \in [Requests -> [pc : {"idle", "calling", "revoked", "failed", "unknown", "answered", "lost"}, op : Operations \cup {None},
                           reached : BOOLEAN, secret : Secrets \cup {None}]]
  BY DEF IInv, TypeOK
<1>2. /\ \A t \in Requests : /\ req'[t].op = req[t].op /\ req'[t].secret = req[t].secret
                             /\ req'[t].reached = req[t].reached /\ req'[t].pc \in {req[t].pc, "answered"}
      /\ req' \in [Requests -> [pc : {"idle", "calling", "revoked", "failed", "unknown", "answered", "lost"}, op : Operations \cup {None},
                           reached : BOOLEAN, secret : Secrets \cup {None}]]
  BY <1>1 DEF Fail, Goto
<1>3. /\ UNCHANGED <<enabled, secret, history, prepared, completed, supported, grant, calls, probed, latest>>
      /\ \/ row' = row
         \/ row.st = "pending" /\ row' = [row EXCEPT !.st = req[r].pc] /\ req[r].pc \in {"failed", "unknown"}
  BY DEF Fail, Claims, Noted, platform
<1>4. row \in [st : {"none", "completed", "gone"} \cup Running, op : Operations \cup {None}, retain : Flags]
  BY DEF IInv, TypeOK
<1>5. /\ row'.op = row.op /\ row'.retain = row.retain
      /\ row'.st = row.st \/ (row.st = "pending" /\ row'.st \in {"failed", "unknown"})
      /\ row' \in [st : {"none", "completed", "gone"} \cup Running, op : Operations \cup {None}, retain : Flags]
  BY <1>3, <1>4 DEF Running
<1>6. TypeOK'
  BY <1>2, <1>3, <1>5 DEF IInv, TypeOK, Running
<1>7. Used' = Used
  BY <1>3 DEF Used
<1>8. Logged' /\ OneRetention' /\ GoneForGood' /\ SameSecret'
  BY <1>2, <1>3, <1>5, <1>7 DEF IInv, Logged, OneRetention, GoneForGood, SameSecret, Running
<1>9. Issued' /\ Answered'
  BY <1>2, <1>3 DEF IInv, Issued, Answered
<1> QED
  BY <1>6, <1>8, <1>9 DEF IInv

LEMMA CompleteKeeps ==
  ASSUME IInv, NEW r \in Requests, Complete(r)
  PROVE  IInv'
<1>1. req \in [Requests -> [pc : {"idle", "calling", "revoked", "failed", "unknown", "answered", "lost"}, op : Operations \cup {None},
                           reached : BOOLEAN, secret : Secrets \cup {None}]]
  BY DEF IInv, TypeOK
<1>2. /\ \A t \in Requests : /\ req'[t].op = req[t].op /\ req'[t].secret = req[t].secret
                             /\ req'[t].reached = req[t].reached /\ req'[t].pc \in {req[t].pc, "answered"}
      /\ req' \in [Requests -> [pc : {"idle", "calling", "revoked", "failed", "unknown", "answered", "lost"}, op : Operations \cup {None},
                           reached : BOOLEAN, secret : Secrets \cup {None}]]
  BY <1>1 DEF Complete, Goto
<1>3. /\ UNCHANGED <<enabled, history, prepared, supported, grant, calls, probed, latest>>
      /\ row.st = "pending" /\ row.op = req[r].op /\ secret' = None
      /\ row' = [row EXCEPT !.st = IF row.retain = "keep" \/ history THEN "completed" ELSE "gone"]
      /\ completed' = [completed EXCEPT ![row.op] = @ + 1]
  BY DEF Complete, Claims, platform
<1>4. row \in [st : {"none", "completed", "gone"} \cup Running, op : Operations \cup {None}, retain : Flags]
  BY DEF IInv, TypeOK
<1>5. /\ row'.op = row.op /\ row'.retain = row.retain
      /\ row'.st \in {"completed", "gone"}
      /\ row'.st = "gone" => row.retain # "keep" /\ ~history
      /\ row' \in [st : {"none", "completed", "gone"} \cup Running, op : Operations \cup {None}, retain : Flags]
  BY <1>3, <1>4
<1>6. row.op \in Operations
  BY <1>3, <1>4 DEF IInv, TypeOK, Running
<1>7. completed[row.op] = 0
  <2>1. completed[row.op] # 1
    BY <1>3, <1>6 DEF IInv, Logged, Running
  <2> QED
    BY <2>1, <1>6 DEF IInv, TypeOK
<1>8. /\ completed' \in [Operations -> 0..1]
      /\ \A o \in Operations : completed'[o] = 1 => o = row.op \/ completed[o] = 1
  BY <1>3, <1>6, <1>7 DEF IInv, TypeOK
<1>9. TypeOK'
  BY <1>2, <1>3, <1>5, <1>8 DEF IInv, TypeOK, Running
<1>10. Used' = Used
  BY <1>3 DEF Used
<1>11. Logged'
  <2>1. row.op \in Used
    BY <1>6, NoneAssumption DEF IInv, Logged
  <2> QED
    BY <2>1, <1>2, <1>5, <1>8, <1>10 DEF IInv, Logged, Running
<1>12. OneRetention' /\ GoneForGood' /\ SameSecret'
  BY <1>2, <1>3, <1>5 DEF IInv, OneRetention, GoneForGood, SameSecret, Running
<1>13. Issued' /\ Answered'
  BY <1>2, <1>3 DEF IInv, Issued, Answered
<1> QED
  BY <1>9, <1>11, <1>12, <1>13 DEF IInv

LEMMA ReauthorizeKeeps ==
  ASSUME IInv, NEW s \in Secrets, Reauthorize(s)
  PROVE  IInv'
<1>1. /\ row' = [st |-> "none", op |-> None, retain |-> "null"] /\ secret' = s
      /\ grant[s] = "unissued" /\ grant' = [grant EXCEPT ![s] = "granted"]
      /\ UNCHANGED <<enabled, history, prepared, completed, supported, calls, req, probed, latest>>
  BY DEF Reauthorize
<1>2. TypeOK'
  BY <1>1 DEF IInv, TypeOK, Running, Flags
<1>3. Used' = Used
  BY <1>1 DEF Used
<1>4. Logged'
  <2>1. \A o \in Operations : completed'[o] = 1 => o \in Used' /\ row'.op # o
    BY <1>1, <1>3, NoneAssumption DEF IInv, Logged
  <2>2. row'.op = None /\ row'.st = "none"
    BY <1>1
  <2>3. \A r \in Requests : req'[r].op # None => req'[r].op \in Used'
    BY <1>1, <1>3 DEF IInv, Logged
  <2> QED
    BY <2>1, <2>2, <2>3 DEF Logged
<1>5. OneRetention' /\ GoneForGood' /\ SameSecret'
  BY <1>1 DEF OneRetention, GoneForGood, SameSecret, Running
<1>6. \A t \in Secrets : grant'[t] = IF t = s THEN "granted" ELSE grant[t]
  BY <1>1 DEF IInv, TypeOK
<1>7. \A t \in Requests : req[t].secret \in Secrets \cup {None}
  BY DEF IInv, TypeOK
<1>8. Issued' /\ Answered'
  BY <1>1, <1>6, <1>7 DEF IInv, Issued, Answered
<1> QED
  BY <1>2, <1>4, <1>5, <1>8 DEF IInv

\* The steps that touch only enabled, probed or, before the deletion, history.
LEMMA OthersKeep ==
  ASSUME IInv, Deactivate \/ Probe \/ StoreCapabilities \/ Import
  PROVE  IInv'
<1>1. /\ UNCHANGED <<row, secret, prepared, completed, supported, grant, calls, req, latest>>
      /\ enabled' \in BOOLEAN /\ probed' \in BOOLEAN /\ history' \in BOOLEAN
      /\ row.st = "gone" => history' = history
  BY DEF Deactivate, Probe, StoreCapabilities, Import, account, platform, IInv, TypeOK
<1>2. TypeOK'
  BY <1>1 DEF IInv, TypeOK
<1>3. Used' = Used
  BY <1>1 DEF Used
<1>4. Logged' /\ OneRetention' /\ GoneForGood' /\ SameSecret'
  BY <1>1, <1>3 DEF IInv, Logged, OneRetention, GoneForGood, SameSecret
<1>5. Issued' /\ Answered'
  BY <1>1 DEF IInv, Issued, Answered
<1> QED
  BY <1>2, <1>4, <1>5 DEF IInv

LEMMA Inductive == IInv /\ [Next]_vars => IInv'
<1> SUFFICES ASSUME IInv, [Next]_vars PROVE IInv'
  OBVIOUS
<1>1. ASSUME NEW r \in Requests, NEW keep \in BOOLEAN, Prepare(r, keep) PROVE IInv'
  BY <1>1, PrepareKeeps
<1>2. ASSUME NEW r \in Requests, Tombstone(r) PROVE IInv'
  BY <1>2, Moves DEF Tombstone
<1>3. ASSUME NEW r \in Requests, Revoke(r) PROVE IInv'
  BY <1>3, RevokeKeeps
<1>4. ASSUME NEW r \in Requests, Reply(r) PROVE IInv'
  <2>1. PICK pc \in Replies(r) : Goto(r, pc)
    BY <1>4 DEF Reply
  <2>2. pc \in {"failed", "unknown", "revoked"} /\ (pc = "revoked" => req[r].reached)
    BY DEF Replies
  <2> QED
    BY <1>4, <2>1, <2>2, Moves DEF Reply
<1>5. ASSUME NEW r \in Requests, Fail(r) PROVE IInv'
  BY <1>5, FailKeeps
<1>6. ASSUME NEW r \in Requests, Complete(r) PROVE IInv'
  BY <1>6, CompleteKeeps
<1>7. ASSUME NEW r \in Requests, Stale(r) PROVE IInv'
  BY <1>7, Moves DEF Stale
<1>8. ASSUME NEW r \in Requests, Die(r) PROVE IInv'
  BY <1>8, Moves DEF Die
<1>9. ASSUME NEW s \in Secrets, Reauthorize(s) PROVE IInv'
  BY <1>9, ReauthorizeKeeps
<1>10. CASE Deactivate \/ Probe \/ StoreCapabilities \/ Import
  BY <1>10, OthersKeep
<1>11. CASE UNCHANGED vars
  <2> USE <1>11 DEF vars, account, platform
  <2>1. Used' = Used
    BY DEF Used
  <2>2. TypeOK' /\ Logged'
    BY <2>1 DEF IInv, TypeOK, Logged
  <2>3. OneRetention' /\ GoneForGood' /\ SameSecret' /\ Issued' /\ Answered'
    BY DEF IInv, OneRetention, GoneForGood, SameSecret, Issued, Answered
  <2> QED
    BY <2>2, <2>3 DEF IInv
<1> QED
  BY <1>1, <1>2, <1>3, <1>4, <1>5, <1>6, <1>7, <1>8, <1>9, <1>10, <1>11 DEF Next

---------------------------------------------------------------------------
\* The conjunction of the parts above holds in every reachable state.
THEOREM Invariance == Spec => []IInv
<1> QED
  BY Initially, Inductive, PTL DEF Spec

\* Every variable keeps its type: in particular a removal that runs has an
\* operation id, and no operation is completed twice (accounts.service.ts:97).
THEOREM TypeCorrect == Spec => []TypeOK
<1>1. IInv => TypeOK
  BY DEF IInv
<1> QED
  BY <1>1, Invariance, PTL

\* The account row is deleted only if nothing was to be kept (accounts.service.ts:70, 102).
THEOREM KeptIsKept == Spec => []NothingKeptIsDeleted
<1>1. IInv => NothingKeptIsDeleted
  BY DEF IInv, OneRetention, GoneForGood, NothingKeptIsDeleted
<1> QED
  BY <1>1, Invariance, PTL

\* A late completion deletes only the credential its own operation was prepared
\* for, which the platform has revoked by then (accounts.service.ts:80, 97).
THEOREM OwnCredentialOnly == Spec => DeletesItsOwn
<1>1. ASSUME IInv, [Next]_vars
      PROVE  [\A r \in Requests : Complete(r) => /\ req[r].secret = secret
                                                 /\ supported /\ secret # None => grant[secret] = "revoked"]_vars
  <2> SUFFICES ASSUME NEW r \in Requests, Complete(r)
               PROVE  /\ req[r].secret = secret
                      /\ supported /\ secret # None => grant[secret] = "revoked"
    OBVIOUS
  <2>1. row.st \in Running /\ row.op = req[r].op /\ req[r].pc = "revoked"
    BY DEF Complete, Claims, Running
  <2>2. req[r].secret = secret
    BY <1>1, <2>1 DEF IInv, SameSecret
  <2>3. supported => req[r].reached
    BY <1>1, <2>1 DEF IInv, Answered
  <2> QED
    BY <1>1, <2>2, <2>3 DEF IInv, Issued
<1> QED
  BY <1>1, Invariance, PTL DEF Spec, DeletesItsOwn
=============================================================================
