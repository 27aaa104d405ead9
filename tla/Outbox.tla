------------------------------- MODULE Outbox -------------------------------
(***************************************************************************)
(* What the backfill outbox promises: a committed event is dispatched only *)
(* when every report scope that was owed a rebuild has been sent one, each *)
(* rebuild is sent once, and nothing is taken back.  Leases, tokens,       *)
(* batches and retries are hidden (BackfillOutbox has them).               *)
(***************************************************************************)
CONSTANTS Events, Scopes

VARIABLES
  phase,  \* of every event: absent, committed or dispatched
  owed,   \* scopes that had a report when the event was committed
  sent    \* scopes whose rebuild has been handed to the report queue

vars == <<phase, owed, sent>>

TypeOK ==
  /\ phase \in [Events -> {"absent", "committed", "dispatched"}]
  /\ owed \in [Events -> SUBSET Scopes]
  /\ sent \in [Events -> SUBSET Scopes]

Init ==
  /\ phase = [e \in Events |-> "absent"]
  /\ owed = [e \in Events |-> {}]
  /\ sent = [e \in Events |-> {}]

Commit(e) ==
  /\ phase[e] = "absent"
  /\ phase' = [phase EXCEPT ![e] = "committed"]
  /\ \E scopes \in SUBSET Scopes : owed' = [owed EXCEPT ![e] = scopes]
  /\ UNCHANGED sent

\* A late dispatcher may still send a rebuild after the event is dispatched.
Send(e, s) ==
  /\ phase[e] # "absent" /\ s \notin sent[e]
  /\ sent' = [sent EXCEPT ![e] = sent[e] \cup {s}]
  /\ UNCHANGED <<phase, owed>>

Dispatch(e) ==
  /\ phase[e] = "committed" /\ owed[e] \subseteq sent[e]
  /\ phase' = [phase EXCEPT ![e] = "dispatched"]
  /\ UNCHANGED <<owed, sent>>

Next == \E e \in Events : Commit(e) \/ Dispatch(e) \/ \E s \in Scopes : Send(e, s)

Spec == Init /\ [][Next]_vars

\* A dispatched event owes nothing.
Promise == \A e \in Events : phase[e] = "dispatched" => owed[e] \subseteq sent[e]
=============================================================================
