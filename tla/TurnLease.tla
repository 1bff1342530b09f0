----------------------------- MODULE TurnLease -----------------------------
(***************************************************************************)
(* What the broker promises the browser worker about one turn: MCP         *)
(* requests take leases while the turn is open, a lease that ended never   *)
(* starts again, and the completion is committed only on a candidate that  *)
(* saw every lease which ever ended, with none running.                    *)
(***************************************************************************)
CONSTANTS Turns, Requests

VARIABLES
  phase,     \* "absent", "open", "committed" or "retired"
  leases,    \* requests at work
  ended,     \* requests whose work is over
  candidate  \* at most one set: the ended leases the completion candidate saw

vars == <<phase, leases, ended, candidate>>

Init ==
  /\ phase = [t \in Turns |-> "absent"]
  /\ leases = [t \in Turns |-> {}]
  /\ ended = [t \in Turns |-> {}]
  /\ candidate = [t \in Turns |-> {}]

Usable(t) == phase[t] \in {"open", "committed"}

Open(t) ==
  /\ phase[t] = "absent"
  /\ phase' = [phase EXCEPT ![t] = "open"]
  /\ UNCHANGED <<leases, ended, candidate>>

Acquire(t, r) ==
  /\ phase[t] = "open" /\ r \notin ended[t]
  /\ leases' = [leases EXCEPT ![t] = @ \cup {r}]
  /\ UNCHANGED <<phase, ended, candidate>>

\* Ending a lease that was never taken forbids it for ever.
End(t, r) ==
  /\ Usable(t)
  /\ leases' = [leases EXCEPT ![t] = @ \ {r}]
  /\ ended' = [ended EXCEPT ![t] = @ \cup {r}]
  /\ UNCHANGED <<phase, candidate>>

Propose(t) ==
  /\ phase[t] = "open" /\ leases[t] = {}
  /\ candidate' = [candidate EXCEPT ![t] = {ended[t]}]
  /\ UNCHANGED <<phase, leases, ended>>

Commit(t) ==
  /\ phase[t] = "open" /\ leases[t] = {} /\ candidate[t] = {ended[t]}
  /\ phase' = [phase EXCEPT ![t] = "committed"]
  /\ UNCHANGED <<leases, ended, candidate>>

Withdraw(t) ==
  /\ phase[t] = "open"
  /\ candidate' = [candidate EXCEPT ![t] = {}]
  /\ UNCHANGED <<phase, leases, ended>>

\* Any set of turns may end at once.
Retire(S) ==
  /\ \A t \in S : Usable(t)
  /\ phase' = [t \in Turns |-> IF t \in S THEN "retired" ELSE phase[t]]
  /\ UNCHANGED <<leases, ended, candidate>>

Next ==
  \/ \E S \in SUBSET Turns : Retire(S)
  \/ \E t \in Turns : Open(t) \/ Propose(t) \/ Commit(t) \/ Withdraw(t)
  \/ \E t \in Turns, r \in Requests : Acquire(t, r) \/ End(t, r)

Spec == Init /\ [][Next]_vars
=============================================================================
