--------------------------- MODULE PositionMonitor ---------------------------
(***************************************************************************)
(* The monitor goroutine of services/position_manager.go, with everything  *)
(* that happens while it works: requests that place and close positions    *)
(* (PositionManager), the gateway and the two reconnect flows              *)
(* (IBKRTradingService, TradingGate), and crashes of the process.          *)
(***************************************************************************)
EXTENDS PositionManager

Here(l) == at[Monitor] = l

\* The monitor is done with its position.
Leave == Goto(Monitor, "idle") /\ target' = [target EXCEPT ![Monitor] = NoPosition]

Stay == UNCHANGED target

-----------------------------------------------------------------------------
(* checkPositions *)

\* A tick takes a snapshot of the map; the quotes it polls are arbitrary.
Tick ==
  /\ Here("idle")
  /\ todo = {}
  /\ todo' = {p \in Positions : InMap(p)}
  /\ todo' # {}
  /\ UNCHANGED <<gateVars, brokerVars, stage, mem, db, at, target, restarted, faults>>

\* Mutants: positions that ended are not skipped; active ones are.
Look_NoSkip(p) ==
  /\ Here("idle")
  /\ p \in todo
  /\ todo' = todo \ {p}
  /\ Goto(Monitor, IF mem[p].status = "PENDING" THEN "entry" ELSE "risk")
  /\ target' = [target EXCEPT ![Monitor] = p]
  /\ UNCHANGED <<gateVars, brokerVars, stage, mem, db, restarted, faults>>

Look_PendingOnly(p) ==
  /\ Here("idle")
  /\ p \in todo
  /\ todo' = todo \ {p}
  /\ IF mem[p].status = "PENDING"
     THEN /\ Goto(Monitor, "entry")
          /\ target' = [target EXCEPT ![Monitor] = p]
     ELSE UNCHANGED <<at, target>>
  /\ UNCHANGED <<gateVars, brokerVars, stage, mem, db, restarted, faults>>

\* The next position of the snapshot.  A PARTIAL one is left alone.
Look(p) ==
  /\ Here("idle")
  /\ p \in todo
  /\ todo' = todo \ {p}
  /\ IF mem[p].status \in {"PENDING", "ACTIVE"}
     THEN /\ Goto(Monitor, IF mem[p].status = "PENDING" THEN "entry" ELSE "risk")
          /\ target' = [target EXCEPT ![Monitor] = p]
     ELSE UNCHANGED <<at, target>>
  /\ UNCHANGED <<gateVars, brokerVars, stage, mem, db, restarted, faults>>

-----------------------------------------------------------------------------
(* checkEntryOrder of p, whose status was PENDING *)

\* Mutant: the status is not changed, only the partial exit is placed.
Activate_StaysPending(p) ==
  /\ SetStatus(p, "PENDING")
  /\ Goto(Monitor, IF mem[p].partialExit THEN "partial" ELSE "save")
  /\ Stay

Activate(p) ==
  /\ SetStatus(p, "ACTIVE")
  /\ Goto(Monitor, IF mem[p].partialExit THEN "partial" ELSE "save")
  /\ Stay

\* Mutant: "filled" compared with the wrong case.
CheckEntryOrder_NeverFilled(p) ==
  /\ Here("entry")
  /\ conn # "nil"
  /\ \E listed \in Listings :
       IF GetOrder(p, Entry, listed) = "none"
       THEN Goto(Monitor, "lost") /\ Stay
       ELSE Leave
  /\ UNCHANGED <<gateVars, brokerVars, stage, mem, db, todo, restarted, faults>>

CheckEntryOrder(p) ==
  /\ Here("entry")
  /\ conn # "nil"
  /\ \E listed \in Listings :
       LET s == GetOrder(p, Entry, listed) IN
       CASE s = "filled" -> Activate(p)
         [] s = "none"   -> Goto(Monitor, "lost") /\ Stay /\ UNCHANGED mem
         [] OTHER        -> Leave /\ UNCHANGED mem
  /\ UNCHANGED <<gateVars, brokerVars, stage, db, todo, restarted, faults>>

\* Mutant: any answer of the broker is a match.
Matches_AnyQty(p) == mem[p].side = "buy"

\* A quantity in posCache is never negative: a sold position never matches.
Matches(p) ==
  \/ mem[p].side = "buy" /\ posCache[p] > 0
  \/ mem[p].side = "sell" /\ posCache[p] < 0

\* The entry order is unknown: active if the broker has the position, else
\* closed as stale.
CheckBrokerPosition(p) ==
  /\ Here("lost")
  /\ CanRead
  /\ IF Matches(p)
     THEN Activate(p)
     ELSE SetStatus(p, "CLOSED") /\ Goto(Monitor, "save") /\ Stay
  /\ UNCHANGED <<gateVars, brokerVars, stage, db, todo, restarted, faults>>

\* placePartialExitOrder; without it the position is saved as it is.
PlacePartialExit(p) ==
  /\ Here("partial")
  /\ IF CanTrade
     THEN /\ conn # "nil"
          /\ \/ /\ Send(p, <<[kind |-> "partial", qty |-> PartialQty,
                              state |-> "working", cached |-> "none"]>>)
                /\ mem' = [mem EXCEPT ![p].partials = @ \union {Len(orders[p]) + 1}]
             \/ UNCHANGED <<orders, mem>>
     ELSE UNCHANGED <<orders, mem>>
  /\ Goto(Monitor, "save")
  /\ Stay
  /\ UNCHANGED <<gateVars, holding, posCache, subscribed, feed,
                 stage, db, todo, restarted, faults>>

-----------------------------------------------------------------------------
(* manageRiskOrders of p, whose status was ACTIVE *)

\* The polled price has reached the stop or the target, or neither.
CheckPrice(p) ==
  /\ Here("risk")
  /\ Goto(Monitor, "cancel") \/ Goto(Monitor, "holding")
  /\ Stay
  /\ UNCHANGED <<gateVars, brokerVars, stage, mem, db, todo, restarted, faults>>

CheckHolding(p) ==
  /\ Here("holding")
  /\ CanRead
  /\ IF posCache[p] = 0
     THEN End(p, "CLOSED") /\ Goto(Monitor, "save")
     ELSE UNCHANGED mem /\ Goto(Monitor, "orders")
  /\ Stay
  /\ UNCHANGED <<gateVars, brokerVars, stage, db, todo, restarted, faults>>

\* That an order is filled can only come from the cache: the list has open ones.
FilledOf(p, kind) ==
  \E k \in Bracket(p) : orders[p][k].kind = kind /\ GetOrder(p, k, TRUE) = "filled"

FilledPartials(p) == {k \in mem[p].partials : GetOrder(p, k, TRUE) = "filled"}

\* The stop-loss order, the take-profit order, then the partial exits.
CheckOrders(p) ==
  /\ Here("orders")
  /\ conn # "nil"
  /\ IF FilledOf(p, "sl") THEN End(p, "STOPPED_OUT") /\ Goto(Monitor, "save") /\ Stay
     ELSE IF FilledOf(p, "tp") THEN End(p, "CLOSED") /\ Goto(Monitor, "save") /\ Stay
     ELSE IF FilledPartials(p) # {}
     THEN /\ mem' = [mem EXCEPT ![p].status = "PARTIAL",
               ![p].remaining = @ - PartialQty * Cardinality(FilledPartials(p))]
          /\ Goto(Monitor, "save")
          /\ Stay
     ELSE Leave /\ UNCHANGED mem
  /\ UNCHANGED <<gateVars, brokerVars, stage, db, todo, restarted, faults>>

MonitorSubscribes ==
  /\ Here("lost") \/ Here("holding")
  /\ SubscribePositions
  /\ UNCHANGED <<gateVars, managedVars>>

MonitorStep ==
  \/ Tick
  \/ \E p \in todo : Look(p)
  \/ \E p \in {target[Monitor]} \ {NoPosition} :
       \/ CheckEntryOrder(p) \/ CheckBrokerPosition(p) \/ PlacePartialExit(p)
       \/ CheckPrice(p) \/ CheckHolding(p) \/ CheckOrders(p)
  \/ MonitorSubscribes
  \/ Close(Monitor)

-----------------------------------------------------------------------------
(* The end of the process, and its restart *)

\* NewPositionManager: what was in memory is gone, the rows that have not
\* ended are loaded, and main has connected and subscribed before.
Loaded(p) == db[p].status \notin Ended \union {"none"}

Restart ==
  /\ enabled' = TRUE
  /\ conn' = "up"
  /\ flow' = [f \in Flows |-> "watching"]
  /\ replaced' = FALSE
  /\ UNCHANGED mode
  /\ FreshCaches
  /\ stage' = [p \in Positions |->
       IF Loaded(p) THEN "saved" ELSE IF stage[p] = "new" THEN "new" ELSE "gone"]
  /\ mem' = [p \in Positions |-> IF Loaded(p) THEN db[p] ELSE NoRecord]
  /\ at' = [a \in Actors |-> "idle"]
  /\ target' = [a \in Actors |-> NoPosition]
  /\ todo' = {}
  /\ restarted' = TRUE
  /\ UNCHANGED db

Fault(kind) ==
  /\ kind \in Faults
  /\ faults < MaxFaults
  /\ faults' = faults + 1

Crash ==
  /\ Fault("crash")
  /\ Restart

\* A goroutine writes on the nil connection of a reconnect: the monitor to
\* poll a quote or the open orders, to subscribe, to cancel or to place, the
\* one of main.go in OnReconnect.  Neither recovers, so the whole process ends.
GoroutinePanic ==
  /\ conn = "nil"
  /\ \/ flow["auto"] = "opened"
     \/ Here("idle") /\ todo = {} /\ \E p \in Positions : InMap(p) /\ mem[p].status \in Held
     \/ Here("entry") \/ Here("orders")
     \/ (Here("lost") \/ Here("holding")) /\ ~subscribed
     \/ Here("cancel") /\ enabled
     \/ Here("exit") /\ NeedsExit(target[Monitor]) /\ CanTrade
     \/ Here("partial") /\ CanTrade
  /\ Restart
  /\ UNCHANGED faults

-----------------------------------------------------------------------------
(* The connection *)

Drop ==
  /\ Fault("drop")
  /\ LoseConnection
  /\ SessionEnds
  /\ UNCHANGED <<stage, mem, db, at, target, todo, restarted>>

\* gated.Disable, then OnDisconnect.  A call of the manual endpoint is a fault
\* here, and so is the goroutine that what such a call left behind wakes up.
Disconnect(f) ==
  /\ Halt(f)
  /\ IF f = "manual" \/ conn = "up" THEN Fault("manual") ELSE UNCHANGED faults
  /\ OnDisconnect
  /\ UNCHANGED <<stage, mem, db, at, target, todo, restarted>>

\* The reconnect flows and the Settings panel.  A new connection has no
\* subscription until somebody subscribes.
Reconnect(f) ==
  /\ \/ (CloseOld(f) \/ TearDown(f) \/ Opened(f) \/ ReconnectFailed(f)) /\ SessionEnds
     \/ Reconnected(f) /\ OnReconnect
     \/ f = "manual" /\ ReconnectPanics /\ UNCHANGED brokerVars
  /\ UNCHANGED managedVars

ChangeMode == SwitchMode /\ UNCHANGED <<brokerVars, managedVars>>

Gateway ==
  /\ \E p \in Positions :
       \/ \E k \in DOMAIN orders[p] : Fill(p, k)
       \/ CancelledByBroker(p)
       \/ UpdatePortfolio(p)
  /\ UNCHANGED <<gateVars, managedVars>>

Next ==
  \/ \E p \in Positions : PlaceEntry(p) \/ StorePosition(p) \/ SavePosition(p)
  \/ \E c \in Closers :
       \/ \E p \in Positions : HandleClose(c, p)
       \/ Close(c)
       \/ HandlerPanic(c)
  \/ MonitorStep
  \/ GoroutinePanic
  \/ Gateway
  \/ Drop
  \/ \E f \in Flows : Disconnect(f) \/ Reconnect(f)
  \/ ChangeMode
  \/ Crash

Spec == Init /\ [][Next]_vars

\* The ticker fires and the broker's answers come: the monitor goes on.
MonitorFairness == WF_vars(MonitorStep)

FairSpec == Spec /\ MonitorFairness

=============================================================================
