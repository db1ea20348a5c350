--------------------------- MODULE PositionManager ---------------------------
(***************************************************************************)
(* services/position_manager.go: positions with a bracket at the broker, a *)
(* monitor goroutine that looks at them every 10 s, requests that place    *)
(* and close them, and the database that survives a crash.  pm.mu guards   *)
(* the map of positions and not the positions: the monitor and the         *)
(* requests change the same struct, each between its calls of the broker,  *)
(* which may take seconds.                                                 *)
(***************************************************************************)
EXTENDS IBKRTradingService

CONSTANTS
  Quantity,      \* the quantity of a position
  PartialQty,    \* the quantity of its partial exit
  PartialExits,  \* whether requests ask for a partial exit: a set of BOOLEAN
  Sides,         \* the sides requests ask for
  StopLegs,      \* whether the bracket has a stop-loss leg: a set of BOOLEAN
  Monitor,       \* the monitor goroutine
  Closers,       \* concurrent requests to HandleCloseManagedPosition
  Faults,        \* the faults of the run
  MaxFaults,     \* bound on their number
  NoPosition     \* the target of an idle actor

ASSUME QuantityAssumption ==
  Quantity \in Nat /\ PartialQty \in Nat /\ 0 < PartialQty /\ PartialQty < Quantity
ASSUME RequestAssumption ==
  PartialExits \subseteq BOOLEAN /\ StopLegs \subseteq BOOLEAN /\ Sides \subseteq {"buy", "sell"}
ASSUME ActorAssumption == Monitor \notin Closers /\ NoPosition \notin Positions
ASSUME FaultAssumption == Faults \subseteq {"drop", "manual", "crash"} /\ MaxFaults \in Nat

VARIABLES
  stage,     \* how far PlaceManagedPosition is; "gone" after a restart
  mem,       \* per position, the struct that pm.positions points to
  db,        \* per position, its row
  at,        \* where the monitor and each close request are
  target,    \* the position each of them works on
  todo,      \* what is left of the monitor's snapshot of the map
  restarted, \* the process has ended and was started again
  faults     \* faults so far

managedVars == <<stage, mem, db, at, target, todo, restarted, faults>>
vars == <<gateVars, brokerVars, managedVars>>

Actors == Closers \union {Monitor}
Held == {"ACTIVE", "PARTIAL"}
Ended == {"CLOSED", "STOPPED_OUT"}
CloseSteps == {"cancel", "exit", "mark", "save"}
MonitorSteps == {"entry", "lost", "partial", "risk", "holding", "orders"}

Record == [status : {"none", "PENDING"} \union Held \union Ended,
           side : {"buy", "sell"}, remaining : Int,
           partials : SUBSET (Nat \ {0}), partialExit : BOOLEAN]

NoRecord == [status |-> "none", side |-> "buy", remaining |-> 0,
             partials |-> {}, partialExit |-> FALSE]

ManagedTypeOK ==
  /\ stage \in [Positions -> {"new", "sent", "stored", "saved", "gone"}]
  /\ mem \in [Positions -> Record]
  /\ db \in [Positions -> Record]
  /\ at \in [Actors -> {"idle"} \union CloseSteps \union MonitorSteps]
  /\ target \in [Actors -> Positions \union {NoPosition}]
  /\ todo \subseteq Positions
  /\ restarted \in BOOLEAN
  /\ faults \in Nat

TypeOK == GateTypeOK /\ BrokerTypeOK /\ ManagedTypeOK

Init ==
  /\ GateInit
  /\ BrokerInit
  /\ stage = [p \in Positions |-> "new"]
  /\ mem = [p \in Positions |-> NoRecord]
  /\ db = [p \in Positions |-> NoRecord]
  /\ at = [a \in Actors |-> "idle"]
  /\ target = [a \in Actors |-> NoPosition]
  /\ todo = {}
  /\ restarted = FALSE
  /\ faults = 0

InMap(p) == stage[p] \in {"stored", "saved"}

Goto(a, l) == at' = [at EXCEPT ![a] = l]

SetStatus(p, s) == mem' = [mem EXCEPT ![p].status = s]

\* SaveManagedPosition hands gorm's Save a struct without a primary key, which
\* inserts it; PositionID is unique, so this fails for a position that has a
\* row, and every caller ignores the error.
RowAfterSave(p) == IF db[p] = NoRecord THEN mem[p] ELSE db[p]

\* Natively closed or stopped out.
End(p, s) == mem' = [mem EXCEPT ![p].status = s, ![p].remaining = 0]

-----------------------------------------------------------------------------
(* PlaceManagedPosition, the request that places p *)

\* The children of an entry; EUREX options have no stop-loss leg.
Legs(stop) == IF stop THEN <<"tp", "sl">> ELSE <<"tp">>

\* The bracket is sent before anything is recorded.  A group that is refused
\* or not sent leaves nothing.
PlaceEntry(p) ==
  /\ stage[p] = "new"
  /\ CanTrade
  /\ conn # "nil"
  /\ \E side \in Sides, partial \in PartialExits, stop \in StopLegs :
       /\ mem' = [mem EXCEPT ![p] =
            [status |-> "PENDING", side |-> side, remaining |-> Quantity,
             partials |-> {}, partialExit |-> partial]]
       /\ Send(p, <<[kind |-> "entry", qty |-> Quantity, state |-> "working", cached |-> "none"]>>
                  \o [k \in DOMAIN Legs(stop) |->
                       [kind |-> Legs(stop)[k], qty |-> Quantity, state |-> "held", cached |-> "none"]])
  /\ stage' = [stage EXCEPT ![p] = "sent"]
  /\ UNCHANGED <<gateVars, holding, posCache, subscribed, feed,
                 db, at, target, todo, restarted, faults>>

\* The answer of the broker came: the position is put in the map...
StorePosition(p) ==
  /\ stage[p] = "sent"
  /\ stage' = [stage EXCEPT ![p] = "stored"]
  /\ UNCHANGED <<gateVars, brokerVars, mem, db, at, target, todo, restarted, faults>>

\* ...and then in the database.
SavePosition(p) ==
  /\ stage[p] = "stored"
  /\ stage' = [stage EXCEPT ![p] = "saved"]
  /\ db' = [db EXCEPT ![p] = RowAfterSave(p)]
  /\ UNCHANGED <<gateVars, brokerVars, mem, at, target, todo, restarted, faults>>

-----------------------------------------------------------------------------
(* CloseManagedPosition, called by a request or by the monitor *)

HandleClose(c, p) ==
  /\ at[c] = "idle"
  /\ InMap(p)
  /\ Goto(c, "cancel")
  /\ target' = [target EXCEPT ![c] = p]
  /\ UNCHANGED <<gateVars, brokerVars, stage, mem, db, todo, restarted, faults>>

\* Mutant: the cancel of the entry is trusted to cascade.
CancelOrders_EntryOnly(a) ==
  /\ at[a] = "cancel"
  /\ ~(enabled /\ conn = "nil")
  /\ Cancel(target[a], {Entry})
  /\ Goto(a, "exit")
  /\ UNCHANGED <<gateVars, holding, posCache, subscribed, feed,
                 stage, mem, db, target, todo, restarted, faults>>

\* The entry, the bracket and the partial exits are cancelled, errors ignored.
CancelOrders(a) ==
  LET p == target[a] IN
  /\ at[a] = "cancel"
  /\ ~(enabled /\ conn = "nil")
  /\ Cancel(p, {Entry} \union Bracket(p) \union mem[p].partials)
  /\ Goto(a, "exit")
  /\ UNCHANGED <<gateVars, holding, posCache, subscribed, feed,
                 stage, mem, db, target, todo, restarted, faults>>

\* Mutant: only what a partial exit left is sold.
NeedsExit_OnlyPartial(p) == mem[p].status = "PARTIAL" /\ mem[p].remaining > 0

NeedsExit(p) == mem[p].status \in Held /\ mem[p].remaining > 0

\* The market order for what RemainingQty says is left.  The error of an order
\* that is refused, not sent or stopped at the gate is logged, and the position
\* is closed all the same.
ExitAtMarket(a) ==
  LET p == target[a] IN
  /\ at[a] = "exit"
  /\ IF NeedsExit(p) /\ CanTrade
     THEN /\ conn # "nil"
          /\ \E state \in {"working", "refused"} :
               Send(p, <<[kind |-> "exit", qty |-> mem[p].remaining,
                          state |-> state, cached |-> "none"]>>)
     ELSE UNCHANGED orders
  /\ Goto(a, "mark")
  /\ UNCHANGED <<gateVars, holding, posCache, subscribed, feed,
                 stage, mem, db, target, todo, restarted, faults>>

\* Mutant: the status is left to the next tick.
MarkClosed_LeavesStatus(a) ==
  /\ at[a] = "mark"
  /\ Goto(a, "save")
  /\ UNCHANGED <<gateVars, brokerVars, stage, mem, db, target, todo, restarted, faults>>

MarkClosed(a) ==
  /\ at[a] = "mark"
  /\ SetStatus(target[a], "CLOSED")
  /\ Goto(a, "save")
  /\ UNCHANGED <<gateVars, brokerVars, stage, db, target, todo, restarted, faults>>

\* savePositionToDB, the last thing an actor does with a position.
Save(a) ==
  /\ at[a] = "save"
  /\ db' = [db EXCEPT ![target[a]] = RowAfterSave(target[a])]
  /\ Goto(a, "idle")
  /\ target' = [target EXCEPT ![a] = NoPosition]
  /\ UNCHANGED <<gateVars, brokerVars, stage, mem, todo, restarted, faults>>

Close(a) == CancelOrders(a) \/ ExitAtMarket(a) \/ MarkClosed(a) \/ Save(a)

\* gin recovers a request that writes on the nil connection of a reconnect.
HandlerPanic(c) ==
  /\ conn = "nil"
  /\ \/ at[c] = "cancel" /\ enabled
     \/ at[c] = "exit" /\ NeedsExit(target[c]) /\ CanTrade
  /\ Goto(c, "idle")
  /\ target' = [target EXCEPT ![c] = NoPosition]
  /\ UNCHANGED <<gateVars, brokerVars, stage, mem, db, todo, restarted, faults>>

=============================================================================
