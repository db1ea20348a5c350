----------------------------- MODULE MCRequests -----------------------------
(***************************************************************************)
(* TWSRequests until the manual endpoint replaces a session: before that   *)
(* it may halt the gate and drain the requests, which is a turn of its     *)
(* own.  The requests of the dispatcher and those of the data service      *)
(* share the order ids and the connection but no channel, and come by      *)
(* turns too.  In the turn "early" the first session has been lost, and    *)
(* there are callers enough to take every id below FirstId and FirstId     *)
(* itself from the counter that is not seeded yet, and FirstId once more   *)
(* when it is.                                                             *)
(***************************************************************************)
EXTENDS TWSRequests, TLC

CONSTANT Turns

VARIABLE turn  \* whose requests this behaviour has

MCKindsOf == [c \in Callers |-> {"orders", "contract", "quote", "bars"}]

AnyCaller == Permutations(Callers)

MayAsk ==
  CASE turn = "streams" -> Streamed
    [] turn = "early"   -> {"contract"}
    [] OTHER            -> Kinds \ Streamed

Asked == {c \in Callers : call'[c].kind # "none"}

MCInit == SessionInit /\ RequestInit /\ turn \in Turns

MCNext ==
  /\ RequestNext
  /\ \A c \in Asked : call'[c].kind \in MayAsk
  /\ turn # "early" => Cardinality(Asked) <= 2
  /\ \A c \in Asked : turn \in {"early", "drained"} \/ call'[c].kind = "bars" => call'[c].size <= 1
  /\ turn # "drained" => manualCalls' = 0
  /\ turn = "early" /\ Asked # {} => generation > 0
  /\ ~Replaced'
  /\ UNCHANGED turn

MCSpec == MCInit /\ [][MCNext]_<<sessionVars, requestVars, turn>>

=============================================================================
