------------------------- MODULE PositionProperties -------------------------
(***************************************************************************)
(* What the management of positions keeps, under which faults, and what    *)
(* the repository says of it and it does not keep.                         *)
(***************************************************************************)
EXTENDS PositionMonitor, FiniteSetsExt

EntryFilled(p) == orders[p] # <<>> /\ orders[p][Entry].state = "filled"

\* An actor is between its reading of p and its last write of p.
Busy(p) == \E a \in Actors : at[a] # "idle" /\ target[a] = p

Sent(p, kind) == {k \in DOMAIN orders[p] : orders[p][k].kind = kind}

\* What the exit orders of p that are still working will sell.
ToBeSold(p) ==
  LET open == {k \in Sent(p, "exit") : orders[p][k].state \in Open}
  IN  MapThenSumSet(LAMBDA k : orders[p][k].qty, open)

-----------------------------------------------------------------------------
(* Kept *)

\* A position is ACTIVE or PARTIAL, in memory or in its row, only if its entry
\* order was filled: not because a cache was emptied, refilled or stale, nor
\* after a restart.  Stops, targets and exits act on such positions only.
ActiveWasFilled ==
  \A p \in Positions :
    mem[p].status \in Held \/ db[p].status \in Held => EntryFilled(p)

\* Until the process restarts a position gets one partial exit order at most:
\* requests that close it and caches that forget its fill do not make it
\* active twice.
OnePartialExit == restarted \/ \A p \in Positions : Cardinality(Sent(p, "partial")) <= 1

\* Until the process restarts, and without a close request, the monitor sends
\* one market exit at most for a position, and none for one whose entry did
\* not fill.
OneExit ==
  \A p \in Positions :
    /\ restarted \/ Cardinality(Sent(p, "exit")) <= 1
    /\ Sent(p, "exit") # {} => EntryFilled(p)

\* In one life of the process a position only moves forward, and one that has
\* ended never comes back, if no request closes it behind the monitor's back.
MovesForward ==
  [][\A p \in Positions :
       mem'[p].status # mem[p].status /\ ~(Crash \/ GoroutinePanic) =>
         <<mem[p].status, mem'[p].status>> \in
           ({"none"} \X {"PENDING"})
           \union ({"PENDING"} \X {"ACTIVE", "CLOSED"})
           \union ({"ACTIVE"} \X (Ended \union {"PARTIAL"}))]_vars

\* The last order of p is a market exit that PlaceOrder returned an error for.
ExitRefused(p) ==
  \E k \in Sent(p, "exit") :
    orders[p][k].state = "refused" /\ \A j \in DOMAIN orders[p] : j <= k

\* While the connection holds, a bought position that has ended leaves nothing
\* in the account but what its exit orders are selling, over restarts too;
\* unless its last exit was refused, after which the code closes it all the same.
NothingLeftBehind ==
  \A p \in Positions :
    mem[p].status \in Ended /\ ~Busy(p) =>
      holding[p] <= ToBeSold(p) \/ ExitRefused(p)

\* And no entry or bracket order of it stays open, to trade it again later.
EndedHasNoBracket ==
  \A p \in Positions :
    mem[p].status \in Ended /\ ~Busy(p) =>
      \A k \in DOMAIN orders[p] : orders[p][k].state \in Open => orders[p][k].kind = "exit"

\* The monitor notices a filled entry...
FilledIsNoticed ==
  \A p \in Positions :
    (EntryFilled(p) /\ InMap(p)) ~> (mem[p].status # "PENDING")

\* ...and that the broker has closed the position by its bracket: the bot does
\* not manage for ever what the account does not have.
NativeExitIsNoticed ==
  \A p \in Positions : []<>~(mem[p].status = "ACTIVE" /\ holding[p] = 0)

-----------------------------------------------------------------------------
(* The inductive invariant under TypeOK and ActiveWasFilled.               *)

\* What a record may say of a position whose orders are os: nothing before
\* they are sent, partial exits among them, held once the entry filled.
Justified(r, os) ==
  /\ os = <<>> => r.status = "none"
  /\ r.partials \subseteq DOMAIN os
  /\ r.status \in Held => os # <<>> /\ os[Entry].state = "filled"

RecordsAreJustified ==
  \A p \in Positions :
    /\ stage[p] = "new" <=> orders[p] = <<>>
    /\ Justified(mem[p], orders[p])
    /\ Justified(db[p], orders[p])

WorkWasSent ==
  \A a \in Actors : at[a] # "idle" => target[a] \in Positions /\ orders[target[a]] # <<>>

\* The order cache says "filled" only of filled orders.
CacheIsRight ==
  \A p \in Positions : \A k \in DOMAIN orders[p] :
    orders[p][k].cached = "filled" => orders[p][k].state = "filled"

\* No other order of a position trades before its entry.
EntryIsFirst ==
  \A p \in Positions : \A k \in DOMAIN orders[p] :
    k # Entry /\ orders[p][k].state \in {"working", "filled"} => EntryFilled(p)

HeldAfterEntry ==
  \A p \in Positions : holding[p] # 0 \/ posCache[p] # 0 => EntryFilled(p)

PartialAfterEntry == at[Monitor] = "partial" => EntryFilled(target[Monitor])

BrokerInv == BrokerTypeOK /\ CacheIsRight /\ EntryIsFirst /\ HeldAfterEntry

ManagedInv == RecordsAreJustified /\ WorkWasSent /\ PartialAfterEntry

IInv == TypeOK /\ BrokerInv /\ ManagedInv

-----------------------------------------------------------------------------
(* The inductive invariants under OnePartialExit, OneExit and MovesForward. *)

\* The position may still become active for the first time.
NotYetActive(p) ==
  \/ mem[p].status \in {"none", "PENDING"}
  \/ at[Monitor] \in {"entry", "lost", "partial"} /\ target[Monitor] = p

PartialIsOnce ==
  /\ at[Monitor] = "partial" => mem[target[Monitor]].status \notin {"none", "PENDING"}
  /\ restarted \/ \A p \in Positions :
       /\ \A j, k \in Sent(p, "partial") : j = k
       /\ NotYetActive(p) => Sent(p, "partial") = {}

ExitsFollowEntry == \A p \in Positions : Sent(p, "exit") # {} => EntryFilled(p)

\* Without a close request the status the monitor has read still holds.
MonitorKnows ==
  /\ at[Monitor] \in {"entry", "lost"} => mem[target[Monitor]].status = "PENDING"
  /\ at[Monitor] \in {"partial", "risk", "holding", "orders", "cancel", "exit", "mark"} =>
       mem[target[Monitor]].status = "ACTIVE"

ExitIsOnce ==
  restarted \/ \A p \in Positions :
    /\ \A j, k \in Sent(p, "exit") : j = k
    /\ mem[p].status \notin Ended /\ ~(at[Monitor] = "mark" /\ target[Monitor] = p) =>
         Sent(p, "exit") = {}

-----------------------------------------------------------------------------
(* The inductive invariants under NothingLeftBehind and EndedHasNoBracket,  *)
(* in a session that holds, with prompt updates, bought positions and no    *)
(* close request.                                                           *)

Undisturbed ==
  /\ PromptUpdates
  /\ ~Unlisted
  /\ Modes \subseteq {"supervised", "autonomous"}
  /\ Closers = {}
  /\ Sides \subseteq {"buy"}
  /\ Faults \subseteq {"crash"}

SessionHolds ==
  /\ enabled /\ AllowsExecution(mode)
  /\ conn = "up" /\ subscribed /\ feed
  /\ \A f \in Flows : flow[f] = "watching"
  /\ \A p \in Positions : posCache[p] = AbsQty(holding[p])

BracketFilled(p) == \E k \in Bracket(p) : orders[p][k].state = "filled"

NoBracketOpen(p) == \A k \in Bracket(p) : orders[p][k].state \notin Open

EntryOpen(p) == orders[p] # <<>> /\ orders[p][Entry].state \in Open

\* The entry is the first order; bracket and exits are of the whole position.
OrdersAreWhole ==
  \A p \in Positions : \A k \in DOMAIN orders[p] :
    /\ (k = Entry) <=> (orders[p][k].kind = "entry")
    /\ orders[p][k].kind # "partial" => orders[p][k].qty = Quantity

RecordsAreWhole ==
  \A p \in Positions : \A r \in {mem[p], db[p]} :
    /\ r.status \in {"PENDING", "ACTIVE"} => r.side = "buy" /\ r.remaining = Quantity
    /\ r.partialExit => TRUE \in PartialExits

\* An order of the bracket sells what the entry bought.
BracketSells ==
  \A p \in Positions : holding[p] <= Quantity /\ (BracketFilled(p) => holding[p] <= 0)

\* Nothing more is bought for p, and what is held is being sold or its exit
\* was refused.
Settled(p) ==
  /\ ~EntryOpen(p)
  /\ \/ holding[p] <= 0
     \/ \E k \in Sent(p, "exit") : orders[p][k].state \in Open
     \/ ExitRefused(p)

EndedIsSettled ==
  /\ \A p \in Positions : mem[p].status \in Ended => Settled(p)
  /\ at[Monitor] = "mark" => Settled(target[Monitor])
  /\ at[Monitor] = "lost" => ~EntryOpen(target[Monitor])

SettledInv == SessionHolds /\ OrdersAreWhole /\ RecordsAreWhole /\ BracketSells /\ EndedIsSettled

\* Without partial exits what was bought is held until an order of the bracket
\* or a market exit sells it, and the two exclude each other.
OneWayOut ==
  \A p \in Positions :
    /\ Sent(p, "partial") = {}
    /\ EntryFilled(p) => \/ holding[p] = Quantity
                         \/ BracketFilled(p) \/ Sent(p, "exit") # {}
    /\ \/ ~EntryOpen(p) /\ ~EntryFilled(p)
       \/ BracketFilled(p)
       \/ Sent(p, "exit") # {}
       \/ mem[p].status \in Ended
       => NoBracketOpen(p)

BracketIsGone ==
  /\ at[Monitor] # "partial"
  /\ at[Monitor] \in {"exit", "mark"} => NoBracketOpen(target[Monitor])

-----------------------------------------------------------------------------
(* Stated by the repository, not kept by the code *)

\* "Place market order to close remaining position" (position_manager.go:693):
\* the exit sells no more than what is held.
ExitWithinHolding ==
  [][\A p \in Positions :
       Len(orders'[p]) = Len(orders[p]) + 1 /\ Len(orders[p]) > 0 =>
         LET o == orders'[p][Len(orders'[p])] IN
         o.kind = "exit" => o.qty <= holding[p]]_vars

\* "Position manually closed" (position_manager.go:735): what is closed is sold,
\* or is being sold.
ClosedIsSold ==
  \A p \in Positions :
    mem[p].status \in Ended /\ ~Busy(p) => holding[p] <= ToBeSold(p)

\* "Entry order not found and no matching broker position; marking CLOSED as
\* stale" (position_manager.go:384): then the broker has no such position.
StaleHasNoPosition ==
  [][\A p \in Positions :
       at[Monitor] = "lost" /\ target[Monitor] = p /\ mem'[p].status = "CLOSED"
         => holding[p] = 0]_vars

\* "Position natively closed by bracket" (position_manager.go:504).
NativelyClosedIsFlat ==
  [][\A p \in Positions :
       at[Monitor] = "holding" /\ target[Monitor] = p /\ mem'[p].status = "CLOSED"
         => holding[p] <= 0]_vars

\* "Closed pending position (entry order was never filled)"
\* (position_manager.go:722): a close finds PENDING what was not filled.
PendingCloseNeverFilled ==
  [][\A c \in Closers :
       at[c] = "exit" /\ at'[c] = "mark" /\ mem[target[c]].status = "PENDING"
         => ~EntryFilled(target[c])]_vars

\* "Load all non-closed positions ... Skip closed positions"
\* (position_manager.go:853,860): a position that has ended, and that nobody is
\* still saving, does not come back with a restart.
ClosedIsNotReloaded ==
  [][\A p \in Positions :
       mem[p].status \in Ended /\ ~Busy(p) =>
         mem'[p].status \in Ended \union {"none"}]_vars

\* "Auto-reconnect loop: when IB Gateway drops ... retry" (main.go:96): no
\* reconnect ends the process.
SurvivesReconnect == restarted => "crash" \in Faults

\* "OnReconnect re-subscribes to account updates after a successful reconnect"
\* (ibkr_trading.go:64).
ReconnectResubscribes ==
  [][\A f \in Flows : Reconnected(f) => feed']_vars

=============================================================================
