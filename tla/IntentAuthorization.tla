------------------------ MODULE IntentAuthorization ------------------------
(***************************************************************************)
(* A trade intent from the beat's proposal to the broker: the intent queue *)
(* (IntentManager), the kill-switch (TradingGate) and the HTTP handlers of *)
(* controllers/intent_controller.go that join them.  HandleAuthorizeIntent *)
(* takes no lock of its own: it waits for a quote and for the broker, and  *)
(* every other action may happen between two of its steps.                 *)
(***************************************************************************)
EXTENDS IntentManager, TradingGate

CONSTANTS
  Handlers,  \* concurrent requests to HandleAuthorizeIntent
  LivePort,  \* IBKR_PORT = 4001
  NoIntent   \* what a request without a claim holds

ASSUME LivePortAssumption == LivePort \in BOOLEAN
ASSUME NoIntentAssumption == NoIntent \notin Intents

VARIABLES
  pc,       \* where each authorize request is
  job,      \* the intent each request has claimed
  sent,     \* per intent, the order groups written to the broker's connection
  live,     \* intents whose order the broker keeps (working or filled)
  checked   \* intents whose price was compared with a live quote

handlerVars == <<pc, job, sent, live, checked>>
vars == <<managerVars, gateVars, handlerVars>>

TypeOK ==
  /\ ManagerTypeOK
  /\ GateTypeOK
  /\ pc \in [Handlers -> {"idle", "claimed", "priced", "placing", "placed", "failed"}]
  /\ job \in [Handlers -> Intents \union {NoIntent}]
  /\ sent \in [Intents -> Nat]
  /\ live \subseteq Intents
  /\ checked \subseteq Intents

Init ==
  /\ ManagerInit
  /\ GateInit
  /\ pc = [r \in Handlers |-> "idle"]
  /\ job = [r \in Handlers |-> NoIntent]
  /\ sent = [i \in Intents |-> 0]
  /\ live = {}
  /\ checked = {}

Goto(r, l) == pc' = [pc EXCEPT ![r] = l]

Return(r) ==
  /\ Goto(r, "idle")
  /\ job' = [job EXCEPT ![r] = NoIntent]

-----------------------------------------------------------------------------
(* HandleAuthorizeIntent, request r *)

\* The claim; a request whose claim fails answers 400 and changes nothing.
Claim(r, i) ==
  /\ pc[r] = "idle"
  /\ ClaimForExecution(i)
  /\ job' = [job EXCEPT ![r] = i]
  /\ Goto(r, "claimed")
  /\ UNCHANGED <<gateVars, sent, live, checked>>

\* Mutant: the missing reference price does not stop the live port.
CheckReference_GoesOn(r) ==
  /\ pc[r] = "claimed"
  /\ refPrice[job[r]] = "none"
  /\ Goto(r, "priced")
  /\ UNCHANGED <<managerVars, gateVars, job, sent, live, checked>>

\* Without a reference price: refuse on the live port, go on on paper.
CheckReference(r) ==
  /\ pc[r] = "claimed"
  /\ refPrice[job[r]] = "none"
  /\ Goto(r, IF LivePort THEN "failed" ELSE "priced")
  /\ UNCHANGED <<managerVars, gateVars, job, sent, live, checked>>

\* The stale price guard: a quote may be missing, near, or too far away.
CheckSlippage(r) ==
  /\ pc[r] = "claimed"
  /\ refPrice[job[r]] = "some"
  /\ \/ /\ Goto(r, "priced")
        /\ UNCHANGED checked
     \/ /\ Goto(r, "priced")
        /\ checked' = checked \union {job[r]}
     \/ /\ Goto(r, "failed")
        /\ UNCHANGED checked
  /\ UNCHANGED <<managerVars, gateVars, job, sent, live>>

\* The payload is decoded and validated, then PlaceOrder, PlaceOptionsOrder
\* or PlaceComboOrder of the gate is called.
PassGate(r) ==
  /\ pc[r] = "priced"
  /\ \/ CanTrade /\ Goto(r, "placing")
     \/ Goto(r, "failed")
  /\ UNCHANGED <<managerVars, gateVars, job, sent, live, checked>>

\* The broker service resolves the contract and then writes the orders.  They
\* are acknowledged; or nothing answers within 5 s ("PendingConfirm", no
\* error) and they may be lost, as they are in a connection that is already
\* closed; or a leg is refused and the group cancelled, as far as the ignored
\* error of that cancel and the fills allow.
Transmit(r) ==
  /\ pc[r] = "placing"
  /\ conn # "nil"
  /\ sent' = [sent EXCEPT ![job[r]] = @ + 1]
  /\ Goto(r, "placed") \/ Goto(r, "failed")
  /\ \/ UNCHANGED live
     \/ conn = "up" /\ live' = live \union {job[r]}
  /\ UNCHANGED <<managerVars, gateVars, job, checked>>

\* The contract cannot be resolved, or the write on a closed connection fails.
FailToTransmit(r) ==
  /\ pc[r] = "placing"
  /\ conn # "nil"
  /\ Goto(r, "failed")
  /\ UNCHANGED <<managerVars, gateVars, job, sent, live, checked>>

\* Mutant: the recovered panic makes the intent claimable again.
Panic_PutsBack(r) ==
  /\ pc[r] \in {"priced", "placing"}
  /\ conn = "nil"
  /\ Return(r)
  /\ status' = [status EXCEPT ![job[r]] = IF InMap(job[r]) THEN "PENDING" ELSE @]
  /\ UNCHANGED <<refPrice, overdue, history, emitted, told, gateVars, sent, live, checked>>

\* writeFrame dereferences the nil connection, for the quote of the stale
\* price guard, for the entry price of a managed position or for the order:
\* gin recovers and answers 500.
Panic(r) ==
  /\ \/ pc[r] = "claimed" /\ refPrice[job[r]] = "some"
     \/ pc[r] \in {"priced", "placing"}
  /\ conn = "nil"
  /\ Return(r)
  /\ UNCHANGED <<managerVars, gateVars, sent, live, checked>>

Complete(r) ==
  /\ pc[r] = "placed"
  /\ MarkCompleted(job[r])
  /\ Return(r)
  /\ UNCHANGED <<gateVars, sent, live, checked>>

\* Mutant: an error path falls through to MarkCompleted.
Abort_Completes(r) ==
  /\ pc[r] = "failed"
  /\ MarkCompleted(job[r])
  /\ Return(r)
  /\ UNCHANGED <<gateVars, sent, live, checked>>

\* Every error path of the handler ends in RejectIntent.
Abort(r) ==
  /\ pc[r] = "failed"
  /\ RejectIntent(job[r])
  /\ Return(r)
  /\ UNCHANGED <<gateVars, sent, live, checked>>

HandlerStep(r) ==
  \/ \E i \in Intents : Claim(r, i)
  \/ CheckReference(r)
  \/ CheckSlippage(r)
  \/ PassGate(r)
  \/ Transmit(r)
  \/ FailToTransmit(r)
  \/ Panic(r)
  \/ Complete(r)
  \/ Abort(r)

-----------------------------------------------------------------------------
(* The other callers *)

\* A supervised beat proposes a trade (agent_tools.go).
Propose(i) == CreateIntent(i) /\ UNCHANGED <<gateVars, handlerVars>>

\* HandleRejectIntent: the human rejects an intent that is still in the map.
HumanReject(i) ==
  /\ InMap(i)
  /\ RejectIntent(i)
  /\ UNCHANGED <<gateVars, handlerVars>>

Age(i) == PassTTL(i) /\ UNCHANGED <<gateVars, handlerVars>>

SweepTick == Sweep /\ UNCHANGED <<gateVars, handlerVars>>

GateStep == GateNext /\ UNCHANGED <<managerVars, handlerVars>>

Next ==
  \/ \E r \in Handlers : HandlerStep(r)
  \/ \E i \in Intents : Propose(i) \/ HumanReject(i) \/ Age(i)
  \/ SweepTick
  \/ GateStep

Spec == Init /\ [][Next]_vars

\* Time passes and the 30 s ticker of the sweeper fires.
SweeperFairness ==
  /\ \A i \in Intents : WF_vars(Age(i))
  /\ WF_vars(SweepTick)

\* A request runs until it returns, its quotes and contract details answered.
HandlerFairness ==
  \A r \in Handlers :
    WF_vars(\/ CheckReference(r) \/ CheckSlippage(r) \/ PassGate(r)
            \/ Transmit(r) \/ FailToTransmit(r) \/ Panic(r)
            \/ Complete(r) \/ Abort(r))

SweeperSpec == Spec /\ SweeperFairness

FairSpec == SweeperSpec /\ HandlerFairness

=============================================================================
