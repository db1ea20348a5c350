-------------------------- MODULE IntentLifecycle --------------------------
(***************************************************************************)
(* What the approval queue promises of every intent, whatever happens to   *)
(* the requests, the sweeper, the human and the connection: it is resolved *)
(* at most once, one authorization at most ever works on it, that          *)
(* authorization sends its order at most once, it is completed only after  *)
(* its order was sent, and it expires only if nobody authorized it.        *)
(***************************************************************************)
EXTENDS Naturals

CONSTANT Intents

VARIABLES
  phase,     \* the fate of each intent
  inFlight,  \* intents an authorization is working on
  ordered    \* intents whose order was sent

vars == <<phase, inFlight, ordered>>

Phases == {"none", "PENDING", "EXECUTING", "COMPLETED", "REJECTED", "EXPIRED"}

Init ==
  /\ phase = [i \in Intents |-> "none"]
  /\ inFlight = {}
  /\ ordered = [i \in Intents |-> 0]

Move(i, from, to) ==
  /\ phase[i] \in from
  /\ phase' = [phase EXCEPT ![i] = to]

Propose(i) ==
  /\ Move(i, {"none"}, "PENDING")
  /\ UNCHANGED <<inFlight, ordered>>

Authorize(i) ==
  /\ Move(i, {"PENDING"}, "EXECUTING")
  /\ inFlight' = inFlight \union {i}
  /\ UNCHANGED ordered

Send(i) ==
  /\ i \in inFlight
  /\ ordered[i] = 0
  /\ ordered' = [ordered EXCEPT ![i] = 1]
  /\ UNCHANGED <<phase, inFlight>>

Complete(i) ==
  /\ i \in inFlight
  /\ ordered[i] = 1
  /\ Move(i, {"EXECUTING"}, "COMPLETED")
  /\ inFlight' = inFlight \ {i}
  /\ UNCHANGED ordered

\* By the human, or by the authorization that gives up and ends.
Reject(i) ==
  /\ Move(i, {"PENDING", "EXECUTING"}, "REJECTED")
  /\ inFlight' \in {inFlight, inFlight \ {i}}
  /\ UNCHANGED ordered

\* The authorization ends without a word on the intent.
Abandon(i) ==
  /\ i \in inFlight
  /\ inFlight' = inFlight \ {i}
  /\ UNCHANGED <<phase, ordered>>

Expire(S) ==
  /\ \A i \in S : phase[i] = "PENDING"
  /\ phase' = [i \in Intents |-> IF i \in S THEN "EXPIRED" ELSE phase[i]]
  /\ UNCHANGED <<inFlight, ordered>>

Next ==
  \/ \E i \in Intents :
       Propose(i) \/ Authorize(i) \/ Send(i) \/ Complete(i) \/ Reject(i) \/ Abandon(i)
  \/ \E S \in SUBSET Intents : Expire(S)

Spec == Init /\ [][Next]_vars

=============================================================================
