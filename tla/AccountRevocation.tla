------------------------- MODULE AccountRevocation -------------------------
(***************************************************************************)
(* Removal of one managed account (apps/api/src/accounts): a transaction   *)
(* prepares the revocation, the connector asks the platform to revoke, a   *)
(* second transaction completes it or notes its failure.  Requests repeat, *)
(* overlap and die between these steps, while the account is authorised    *)
(* again, deactivated, and used by a sync run of the worker.  Both         *)
(* transactions lock the account row first, so each is one step.           *)
(***************************************************************************)
EXTENDS Naturals, FiniteSets

CONSTANTS
  Requests,   \* DELETE requests for the account
  Operations, \* ids randomUUID may give to a revocation; bounds their number
  Secrets,    \* credentials the platform may issue; bounds reauthorisations
  First,      \* the credential the account starts with
  None        \* no operation, no credential

ASSUME NoneAssumption == None \notin Operations /\ None \notin Secrets
ASSUME FirstAssumption == First \in Secrets

VARIABLES
  row,       \* Account: revocationState ("gone" when the row is deleted), operation id, retain flag
  enabled,   \* a ConnectorCapability of the account is enabled
  secret,    \* the Credential of the account
  history,   \* the account has notes or reports
  prepared,  \* AuditLog: account.revocation.prepared
  completed, \* AuditLog: how often account.revocation.completed was written for an operation
  supported, \* the connector can revoke (only the mock connector is registered)
  grant,     \* what the platform thinks of each credential
  calls,     \* requests whose call may still reach the platform
  req,       \* the requests
  probed,    \* a sync run has probed the capabilities and not yet stored them
  latest     \* the request that prepared last; no code reads it

account == <<row, enabled, secret, history, prepared, completed>>
platform == <<supported, grant>>
vars == <<account, platform, calls, req, probed, latest>>

Running == {"pending", "failed", "unknown"}
Flags == {"null", "keep", "erase"}
\* secret is the credential the request found when it prepared: no code reads it.
Idle == [pc |-> "idle", op |-> None, reached |-> FALSE, secret |-> None]

TypeOK ==
  /\ row \in [st : {"none", "completed", "gone"} \cup Running, op : Operations \cup {None}, retain : Flags]
  /\ row.st \in Running => row.op # None
  /\ enabled \in BOOLEAN /\ history \in BOOLEAN /\ supported \in BOOLEAN /\ probed \in BOOLEAN
  /\ secret \in Secrets \cup {None} /\ grant \in [Secrets -> {"unissued", "granted", "revoked"}]
  /\ prepared \subseteq [op : Operations, keep : BOOLEAN]
  /\ completed \in [Operations -> 0..1]
  /\ calls \subseteq Requests
  /\ req \in [Requests -> [pc : {"idle", "calling", "revoked", "failed", "unknown", "answered", "lost"}, op : Operations \cup {None},
                           reached : BOOLEAN, secret : Secrets \cup {None}]]
  /\ latest \in Requests \cup {None}

Init ==
  /\ row = [st |-> "none", op |-> None, retain |-> "null"]
  /\ enabled \in BOOLEAN /\ secret = First /\ history \in BOOLEAN /\ prepared = {}
  /\ completed = [o \in Operations |-> 0]
  /\ supported \in BOOLEAN /\ grant = [s \in Secrets |-> IF s = First THEN "granted" ELSE "unissued"] /\ calls = {}
  /\ req = [r \in Requests |-> Idle] /\ probed = FALSE /\ latest = None

---------------------------------------------------------------------------
(* The preparing transaction.                                              *)

Goto(r, pc) == req' = [req EXCEPT ![r].pc = pc]

\* Mutant: the last request decides, as if its body were always written.
RetainOfLast(keep) == IF keep THEN "keep" ELSE "erase"

\* A retry keeps the retention the revocation was first asked for.
RetainOf(keep) == IF row.st = "none" \/ row.retain = "null" THEN IF keep THEN "keep" ELSE "erase" ELSE row.retain

Used == {p.op : p \in prepared}
OperationsFor == IF row.st = "none" THEN Operations \ Used ELSE {row.op}

Prepare(r, keep) ==
  /\ req[r].pc = "idle" /\ row.st \in {"none"} \cup Running
  /\ \E o \in OperationsFor :
       /\ row' = [st |-> "pending", op |-> o, retain |-> RetainOf(keep)]
       /\ prepared' = prepared \cup {[op |-> o, keep |-> RetainOf(keep) = "keep"]}
       /\ req' = [req EXCEPT ![r] = [pc |-> IF supported THEN "calling" ELSE "revoked", op |-> o, reached |-> FALSE, secret |-> secret]]
  /\ enabled' = FALSE /\ latest' = r
  /\ calls' = IF supported THEN calls \cup {r} ELSE calls
  /\ UNCHANGED <<secret, history, completed, platform, probed>>

\* A removed account is answered from the audit log (tombstone).
Tombstone(r) ==
  /\ req[r].pc = "idle" /\ row.st \in {"completed", "gone"} /\ Goto(r, "answered")
  /\ UNCHANGED <<account, platform, calls, probed, latest>>

---------------------------------------------------------------------------
(* The call of the connector.  It may reach the platform late, also after  *)
(* its answer was an error, and revokes what is granted at that moment.    *)

Revoke(r) ==
  /\ r \in calls /\ calls' = calls \ {r}
  /\ grant' = [s \in Secrets |-> IF grant[s] = "granted" THEN "revoked" ELSE grant[s]]
  /\ req' = [req EXCEPT ![r].reached = TRUE]
  /\ UNCHANGED <<account, supported, probed, latest>>

\* A timeout is told from other errors by its message.
Replies(r) == {"failed", "unknown"} \cup (IF req[r].reached THEN {"revoked"} ELSE {})

Reply(r) ==
  /\ req[r].pc = "calling" /\ \E pc \in Replies(r) : Goto(r, pc)
  /\ UNCHANGED <<account, platform, calls, probed, latest>>

---------------------------------------------------------------------------
(* The second transaction: it claims the revocation by its operation id.   *)

\* Mutant: any pending revocation is claimed.
ClaimsPending(r) == row.st = "pending"
Claims(r) == row.st = "pending" /\ row.op = req[r].op

Noted(st) == [row EXCEPT !.st = st]

Fail(r) ==
  /\ req[r].pc \in {"failed", "unknown"} /\ Goto(r, "answered")
  /\ row' = IF Claims(r) THEN Noted(req[r].pc) ELSE row
  /\ UNCHANGED <<enabled, secret, history, prepared, completed, platform, calls, probed, latest>>

Complete(r) ==
  /\ req[r].pc = "revoked" /\ Claims(r) /\ Goto(r, "answered")
  /\ row' = [row EXCEPT !.st = IF row.retain = "keep" \/ history THEN "completed" ELSE "gone"]
  /\ secret' = None
  /\ completed' = [completed EXCEPT ![req[r].op] = @ + 1]
  /\ UNCHANGED <<enabled, history, prepared, platform, calls, probed, latest>>

\* Nothing is left to claim: a tombstone when this operation is complete, a conflict otherwise.
Stale(r) ==
  /\ req[r].pc = "revoked" /\ ~Claims(r) /\ Goto(r, "answered")
  /\ UNCHANGED <<account, platform, calls, probed, latest>>

\* The process dies, or a statement fails and rolls its transaction back.
Die(r) ==
  /\ req[r].pc \in {"calling", "revoked", "failed", "unknown"} /\ Goto(r, "lost")
  /\ UNCHANGED <<account, platform, calls, probed, latest>>

---------------------------------------------------------------------------
(* The other users of the account.                                         *)

\* reauthorize: the platform has issued a new credential to the administrator.
Reauthorize(s) ==
  /\ row.st \in {"none", "completed"} /\ grant[s] = "unissued"
  /\ secret' = s /\ grant' = [grant EXCEPT ![s] = "granted"]
  /\ row' = [st |-> "none", op |-> None, retain |-> "null"]
  /\ UNCHANGED <<enabled, history, prepared, completed, supported, calls, req, probed, latest>>

Deactivate ==
  /\ row.st # "gone" /\ enabled /\ enabled' = FALSE
  /\ UNCHANGED <<row, secret, history, prepared, completed, platform, calls, req, probed, latest>>

\* A sync run asks its connector, then stores the answer (SyncRepository.saveCapabilities).
Probe ==
  /\ ~probed /\ row.st # "gone" /\ probed' = TRUE
  /\ UNCHANGED <<account, platform, calls, req, latest>>

StoreCapabilities ==
  /\ probed /\ probed' = FALSE
  /\ enabled' = (row.st # "gone" \/ enabled)
  /\ UNCHANGED <<row, secret, history, prepared, completed, platform, calls, req, latest>>

\* A sync run inserts the first note, or the report worker the first report.
Import ==
  /\ ~history /\ row.st # "gone" /\ history' = TRUE
  /\ UNCHANGED <<row, enabled, secret, prepared, completed, platform, calls, req, probed, latest>>

Next ==
  \/ \E r \in Requests :
       \/ \E keep \in BOOLEAN : Prepare(r, keep)
       \/ Tombstone(r) \/ Revoke(r) \/ Reply(r) \/ Fail(r) \/ Complete(r) \/ Stale(r) \/ Die(r)
  \/ \E s \in Secrets : Reauthorize(s)
  \/ Deactivate \/ Probe \/ StoreCapabilities \/ Import

Spec == Init /\ [][Next]_vars

---------------------------------------------------------------------------
(* Properties.                                                             *)

\* A revocation deletes the credential it was prepared for and no later one, however late its
\* connector call answers (the operation id of accounts.service.ts:97); and where the connector
\* can revoke, the platform has stopped honouring that credential, as nobody could revoke it
\* once its last copy is deleted.
DeletesItsOwn ==
  [][\A r \in Requests : Complete(r) => /\ req[r].secret = secret
                                        /\ supported /\ secret # None => grant[secret] = "revoked"]_vars

\* The account is deleted only if no request of its last removal asked to keep the data, a
\* retry that asks otherwise notwithstanding, and no note or report was stored meanwhile.
NothingKeptIsDeleted ==
  row.st = "gone" => /\ \A p \in prepared : p.op = row.op => ~p.keep
                     /\ ~history

\* "Failure records failed (or unknown ...), keeps capabilities disabled"
\* (docs/superpowers/specs/2026-08-03-task-9a-round3-design.md:17).  A sync run breaks it.
StaysDisabled == row.st \in Running => ~enabled

\* "A stale callback cannot ... overwrite a newer state" (task-9a-report.md:91): only the attempt
\* that prepared last may declare the revocation failed.  Retries share the operation id, so an
\* older one may.
OldFailureIgnored ==
  [][\A r \in Requests : (Fail(r) /\ Claims(r)) => latest = r]_vars
=============================================================================
