--------------------------- MODULE OrderPlacement ---------------------------
(***************************************************************************)
(* One order from its request to its answer: the manual endpoints of       *)
(* controllers/order_controller.go, the gate in front of the broker, and   *)
(* PlaceOrder of services/ibkr_trading.go message by message, which        *)
(* IBKRTradingService takes as one step.  An order is an entry with a      *)
(* take-profit and a stop-loss leg, if they are asked for.  The gateway is *)
(* external, modelled from what PlaceOrder expects of it.                  *)
(***************************************************************************)
EXTENDS Naturals, Sequences

CONSTANT DeskModes  \* the trading modes the operator switches between

ASSUME DeskAssumption ==
  /\ DeskModes \subseteq {"off", "suggest", "supervised", "autonomous"}
  /\ DeskModes # {}

VARIABLES
  deskMode,      \* CurrentTradingMode()
  confirmFirst,  \* AppConfig.RequireDoubleConfirm, as the process started
  linked,        \* the connection is open
  gateOn,        \* GatedTradingService.enabled
  placing,       \* the request: how far it is, who asked, its legs
  toGateway,     \* what was written and not read yet
  atGateway,     \* what the gateway does with each leg
  legChan,       \* the dispatcher channel of each leg
  aggCh,         \* where the goroutines of the legs meet
  row            \* the status in the orders table, or "none"

placementVars == <<deskMode, confirmFirst, linked, gateOn, placing, toGateway, atGateway,
                   legChan, aggCh, row>>

Legs == {"entry", "take", "stop"}
Live == {"held", "working"}

Requests ==
  [at : {"none", "gate", "resolving", "sending", "waiting", "saving", "answered"},
   caller : {"nobody", "manual", "managed"}, legs : Seq(Legs), sent : 0..3,
   answer : {"none", "forbidden", "error", "submitted", "unconfirmed"}]

WireMessages == [leg : Legs \union {"cancel"}, transmit : BOOLEAN]

PlacementTypeOK ==
  /\ deskMode \in DeskModes
  /\ confirmFirst \in BOOLEAN /\ linked \in BOOLEAN /\ gateOn \in BOOLEAN
  /\ placing \in Requests
  /\ toGateway \in Seq(WireMessages)
  /\ atGateway \in [Legs -> Live \union {"none", "filled", "cancelled", "rejected"}]
  /\ legChan \in [Legs -> Seq({"status", "error"})]
  /\ aggCh \in Seq(Legs \X {"status", "error"})
  /\ row \in {"none", "submitted", "unconfirmed", "canceled"}

PlacementInit ==
  /\ deskMode \in DeskModes
  /\ confirmFirst = (deskMode = "supervised")
  /\ linked = TRUE
  /\ gateOn = TRUE
  /\ placing = [at |-> "none", caller |-> "nobody", legs |-> <<>>, sent |-> 0, answer |-> "none"]
  /\ toGateway = <<>>
  /\ atGateway = [l \in Legs |-> "none"]
  /\ legChan = [l \in Legs |-> <<>>]
  /\ aggCh = <<>>
  /\ row = "none"

ReachesBroker(m) == m \in {"supervised", "autonomous"}
Answers(a) == placing' = [placing EXCEPT !.at = "answered", !.answer = a]

-----------------------------------------------------------------------------
(* The request *)

\* The Settings panel.
SwitchDeskMode ==
  /\ \E m \in DeskModes \ {deskMode} : deskMode' = m
  /\ UNCHANGED <<confirmFirst, linked, gateOn, placing, toGateway, atGateway, legChan, aggCh, row>>

\* HandleBuy, HandleSell: one leg.
HandleOrder ==
  /\ placing.at = "none"
  /\ placing' = IF confirmFirst
       THEN [placing EXCEPT !.at = "answered", !.caller = "manual", !.answer = "forbidden"]
       ELSE [placing EXCEPT !.at = "gate", !.caller = "manual", !.legs = <<"entry">>]
  /\ UNCHANGED <<deskMode, confirmFirst, linked, gateOn, toGateway, atGateway, legChan, aggCh, row>>

\* The legs of an order with or without a take-profit and a stop-loss price;
\* EUREX takes no stop order on an option.
LegsOf(take, stop, eurexOption) ==
  <<"entry">> \o (IF take THEN <<"take">> ELSE <<>>)
              \o (IF stop /\ ~eurexOption THEN <<"stop">> ELSE <<>>)

\* The position manager places an order with its exits.
ManagedOrder ==
  /\ placing.at = "none"
  /\ \E take, stop, eurexOption \in BOOLEAN :
       placing' = [placing EXCEPT !.at = "gate", !.caller = "managed",
                                  !.legs = LegsOf(take, stop, eurexOption)]
  /\ UNCHANGED <<deskMode, confirmFirst, linked, gateOn, toGateway, atGateway, legChan, aggCh, row>>

\* GatedTradingService.PlaceOrder.
PassGate ==
  /\ placing.at = "gate"
  /\ IF gateOn /\ ReachesBroker(deskMode)
     THEN placing' = [placing EXCEPT !.at = "resolving"] ELSE Answers("error")
  /\ UNCHANGED <<deskMode, confirmFirst, linked, gateOn, toGateway, atGateway, legChan, aggCh, row>>

-----------------------------------------------------------------------------
(* PlaceOrder *)

\* Resolve and ReqContractDetails ask the gateway; the legs are registered.
ResolveContract ==
  /\ placing.at = "resolving"
  /\ \/ linked /\ placing' = [placing EXCEPT !.at = "sending"]
     \/ Answers("error")
  /\ UNCHANGED <<deskMode, confirmFirst, linked, gateOn, toGateway, atGateway, legChan, aggCh, row>>

\* Mutant: every leg is sent as an order of its own.
Transmits_Always(i) == i \in DOMAIN placing.legs

\* Only the last leg tells the gateway to transmit the group.
Transmits(i) == i = Len(placing.legs)

\* The next leg is written; a connection that is closed may swallow it.
SendLeg ==
  /\ placing.at = "sending"
  /\ LET i == placing.sent + 1 IN
     /\ toGateway' = IF linked
          THEN Append(toGateway, [leg |-> placing.legs[i], transmit |-> Transmits(i)])
          ELSE toGateway
     /\ placing' = [placing EXCEPT !.sent = i,
                      !.at = IF i = Len(placing.legs) THEN "waiting" ELSE "sending"]
  /\ UNCHANGED <<deskMode, confirmFirst, linked, gateOn, atGateway, legChan, aggCh, row>>

\* The call returns: its channels are completed and what they hold is lost.
Returns == legChan' = [l \in Legs |-> <<>>] /\ aggCh' = <<>>

\* Mutant: what was sent is left to the gateway.
CancelForCleanup_Nothing == UNCHANGED toGateway

\* cancelForCleanup writes the cancel of the entry, and ignores an error.
CancelForCleanup ==
  toGateway' = IF linked THEN Append(toGateway, [leg |-> "cancel", transmit |-> TRUE])
               ELSE toGateway

\* A write fails: what was sent before is cancelled.
SendFails ==
  /\ placing.at = "sending"
  /\ ~linked
  /\ IF placing.sent > 0 THEN CancelForCleanup ELSE UNCHANGED toGateway
  /\ Answers("error")
  /\ Returns
  /\ UNCHANGED <<deskMode, confirmFirst, linked, gateOn, atGateway, row>>

\* The goroutine of a leg hands its next message on.
Aggregate(l) ==
  /\ placing.at \in {"sending", "waiting"}
  /\ legChan[l] # <<>>
  /\ aggCh' = Append(aggCh, <<l, Head(legChan[l])>>)
  /\ legChan' = [legChan EXCEPT ![l] = Tail(@)]
  /\ UNCHANGED <<deskMode, confirmFirst, linked, gateOn, placing, toGateway, atGateway, row>>

\* A manual order that was placed is saved before it is answered.
Placed(a) ==
  placing' = [placing EXCEPT !.answer = a,
                !.at = IF placing.caller = "manual" THEN "saving" ELSE "answered"]

\* The first status of the entry is success, any error a rejection.
TakeMessage ==
  /\ placing.at = "waiting"
  /\ aggCh # <<>>
  /\ \/ Head(aggCh) = <<"entry", "status">> /\ Placed("submitted") /\ Returns /\ UNCHANGED toGateway
     \/ Head(aggCh)[2] = "error" /\ CancelForCleanup /\ Answers("error") /\ Returns
     \/ /\ Head(aggCh)[1] # "entry" /\ Head(aggCh)[2] = "status"
        /\ aggCh' = Tail(aggCh)
        /\ UNCHANGED <<placing, toGateway, legChan>>
  /\ UNCHANGED <<deskMode, confirmFirst, linked, gateOn, atGateway, row>>

\* Five seconds without an answer.
Unconfirmed ==
  /\ placing.at = "waiting"
  /\ Placed("unconfirmed")
  /\ Returns
  /\ UNCHANGED <<deskMode, confirmFirst, linked, gateOn, toGateway, atGateway, row>>

\* SaveOrder, whose error is only logged.
SaveOrder ==
  /\ placing.at = "saving"
  /\ row' \in {placing.answer, "none"}
  /\ placing' = [placing EXCEPT !.at = "answered"]
  /\ UNCHANGED <<deskMode, confirmFirst, linked, gateOn, toGateway, atGateway, legChan, aggCh>>

\* CancelOrder saves the row it read as "canceled": an insert, which the unique
\* order id refuses, and the error is dropped.
SaveCanceled == UNCHANGED row

\* HandleCancelOrder writes the cancel, then saves.
HandleCancelOrder ==
  /\ placing.at = "answered" /\ placing.answer \in {"submitted", "unconfirmed"}
  /\ placing.caller = "manual"
  /\ ~confirmFirst
  /\ gateOn
  /\ atGateway["entry"] # "none"
  /\ toGateway = <<>>
  /\ CancelForCleanup
  /\ SaveCanceled
  /\ UNCHANGED <<deskMode, confirmFirst, linked, gateOn, placing, atGateway, legChan, aggCh>>

-----------------------------------------------------------------------------
(* The gateway *)

\* Hears(ls, m) is what the bot hears of the legs ls, while it waits.
Hears(ls, m) ==
  legChan' = [l \in Legs |->
    IF l \in ls /\ placing.at \in {"sending", "waiting"} THEN Append(legChan[l], m) ELSE legChan[l]]

\* A leg arrives and is held until one transmits the group; an exit whose
\* entry is gone is refused.
GatewayTakes ==
  /\ toGateway # <<>>
  /\ LET m == Head(toGateway)
         now == {l \in Legs : atGateway[l] = "held"} \union {m.leg}
     IN
     /\ m.leg # "cancel"
     /\ IF m.leg # "entry" /\ atGateway["entry"] \notin Live
        THEN atGateway' = [atGateway EXCEPT ![m.leg] = "rejected"] /\ Hears({m.leg}, "error")
        ELSE IF m.transmit
        THEN /\ atGateway' = [l \in Legs |-> IF l \in now THEN "working" ELSE atGateway[l]]
             /\ Hears(now, "status")
        ELSE atGateway' = [atGateway EXCEPT ![m.leg] = "held"] /\ UNCHANGED legChan
  /\ toGateway' = Tail(toGateway)
  /\ UNCHANGED <<deskMode, confirmFirst, linked, gateOn, placing, aggCh, row>>

\* What becomes of the legs when leg l ends as s: the entry takes all with it.
Ended(l, s) ==
  [k \in Legs |-> IF k = l THEN s
                  ELSE IF l = "entry" /\ atGateway[k] \in Live THEN "cancelled" ELSE atGateway[k]]

\* The cancel of the entry arrives.
GatewayCancels ==
  /\ toGateway # <<>>
  /\ Head(toGateway).leg = "cancel"
  /\ atGateway' = IF atGateway["entry"] \in Live THEN Ended("entry", "cancelled") ELSE atGateway
  /\ toGateway' = Tail(toGateway)
  /\ UNCHANGED <<deskMode, confirmFirst, linked, gateOn, placing, legChan, aggCh, row>>

\* A leg is rejected, by the gateway or by the exchange.
GatewayRejects(l) ==
  /\ atGateway[l] \in Live
  /\ atGateway' = Ended(l, "rejected")
  /\ IF linked THEN Hears({l}, "error") ELSE UNCHANGED legChan
  /\ UNCHANGED <<deskMode, confirmFirst, linked, gateOn, placing, toGateway, aggCh, row>>

EntryFills ==
  /\ atGateway["entry"] = "working"
  /\ atGateway' = [atGateway EXCEPT !["entry"] = "filled"]
  /\ IF linked THEN Hears({"entry"}, "status") ELSE UNCHANGED legChan
  /\ UNCHANGED <<deskMode, confirmFirst, linked, gateOn, placing, toGateway, aggCh, row>>

\* The connection is lost with what it carries; main closes the gate later.
LoseLink ==
  /\ linked
  /\ linked' = FALSE
  /\ toGateway' = <<>>
  /\ UNCHANGED <<deskMode, confirmFirst, gateOn, placing, atGateway, legChan, aggCh, row>>

CloseGate ==
  /\ ~linked
  /\ gateOn
  /\ gateOn' = FALSE
  /\ UNCHANGED <<deskMode, confirmFirst, linked, placing, toGateway, atGateway, legChan, aggCh, row>>

-----------------------------------------------------------------------------
PlacementNext ==
  \/ SwitchDeskMode \/ HandleOrder \/ ManagedOrder \/ PassGate \/ ResolveContract
  \/ SendLeg \/ SendFails \/ TakeMessage \/ Unconfirmed \/ SaveOrder \/ HandleCancelOrder
  \/ GatewayTakes \/ GatewayCancels \/ EntryFills \/ LoseLink \/ CloseGate
  \/ \E l \in Legs : Aggregate(l) \/ GatewayRejects(l)

PlacementSpec == PlacementInit /\ [][PlacementNext]_placementVars

-----------------------------------------------------------------------------
(* Properties *)

\* The gateway never works an entry before it has every exit that was asked
\* for, wherever the connection breaks: the transmit flags of PlaceOrder.
NoNakedEntry ==
  atGateway["entry"] \in {"working", "filled"} =>
    \A i \in DOMAIN placing.legs : atGateway[placing.legs[i]] # "none"

\* An order that was answered with an error does not stay at the gateway:
\* nothing of it is live, or its cancel is on the way, or the connection is
\* gone.  Only an entry that filled before the cancel came is beyond it.
RefusedIsWithdrawn ==
  (/\ placing.answer \in {"error", "forbidden"}
   /\ linked
   /\ atGateway["entry"] # "filled"
   /\ \E l \in Legs : atGateway[l] \in Live)
  => \E i \in DOMAIN toGateway : toGateway[i].leg = "cancel"

\* Not kept by the code: "wait on aggCh to catch errors on ANY leg".  The
\* status of the entry may overtake the rejection of an exit, or come before.
SubmittedIsProtected ==
  (placing.answer = "submitted" /\ atGateway["entry"] \in {"working", "filled"}) =>
    \A i \in DOMAIN placing.legs : atGateway[placing.legs[i]] # "rejected"

\* Not kept by the code: "Manual endpoints disabled when RequireDoubleConfirm
\* is active".  The endpoints ask the mode of the start.
ManualFollowsMode ==
  placing.caller = "manual" /\ placing.at = "gate" => deskMode # "supervised"

=============================================================================
