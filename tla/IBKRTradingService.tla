------------------------- MODULE IBKRTradingService -------------------------
(***************************************************************************)
(* services/ibkr_trading.go: the broker as the rest of the bot sees it,    *)
(* through two caches that callbacks of the gateway fill and OnDisconnect  *)
(* empties.  The gateway's own side (orders and holdings) is external and  *)
(* modelled from how this code uses it: a parent order with attached       *)
(* take-profit and stop-loss children that cancel each other.              *)
(*                                                                         *)
(* The orders of each managed position are numbered from 1 in the order    *)
(* they are sent, and quantities are counted in the position's direction.  *)
(***************************************************************************)
EXTENDS TradingGate, Integers, Sequences, FiniteSets

CONSTANTS
  Positions,     \* managed positions, each in a symbol of its own
  PromptUpdates, \* account updates arrive before anybody reads the cache
  Unlisted       \* ListOrders may miss an open order of a connection that is up

ASSUME PromptUpdatesAssumption == PromptUpdates \in BOOLEAN
ASSUME UnlistedAssumption == Unlisted \in BOOLEAN

VARIABLES
  orders,      \* per position, its orders: what the gateway does with each,
               \* and what orderCache says of it
  holding,     \* per position, what the account really holds
  posCache,    \* per position, the quantity in posCache
  subscribed,  \* posSubscribed
  feed         \* this session has an account subscription at the gateway

brokerVars == <<orders, holding, posCache, subscribed, feed>>

Kinds == {"entry", "tp", "sl", "partial", "exit"}
Open == {"held", "working"}
OrderStates == Open \union {"filled", "cancelled", "lost", "refused"}
Order == [kind : Kinds, qty : Nat, state : OrderStates,
          cached : (OrderStates \ {"lost"}) \union {"none"}]

BrokerTypeOK ==
  /\ orders \in [Positions -> Seq(Order)]
  /\ holding \in [Positions -> Int]
  /\ posCache \in [Positions -> Nat]
  /\ subscribed \in BOOLEAN
  /\ feed \in BOOLEAN

BrokerInit ==
  /\ orders = [p \in Positions |-> <<>>]
  /\ holding = [p \in Positions |-> 0]
  /\ posCache = [p \in Positions |-> 0]
  /\ subscribed = TRUE
  /\ feed = TRUE

-----------------------------------------------------------------------------
(* The gateway *)

\* Mutant: the sign of a short position is kept.
AbsQty_Signed(q) == q

\* UpdatePortfolio stores a quantity without its sign.
AbsQty(q) == IF q < 0 THEN -q ELSE q

Entry == 1
Bracket(p) == {k \in DOMAIN orders[p] : orders[p][k].kind \in {"tp", "sl"}}

\* The orders of p take the states of new; the bot hears of every change
\* (OrderStatus) while it is connected and never hears of it otherwise.
Move(p, new) ==
  orders' = [orders EXCEPT ![p] =
    [k \in DOMAIN orders[p] |->
      LET o == orders[p][k] IN
      [o EXCEPT !.state = new[k],
                !.cached = IF conn = "up" /\ new[k] # o.state THEN new[k] ELSE @]]]

\* What posCache holds once the account holds h, updates being prompt.
Portfolio(h) ==
  IF PromptUpdates /\ feed /\ conn = "up"
  THEN [p \in Positions |-> AbsQty(h[p])] ELSE posCache

\* A fill releases the children of an entry, and cancels the sibling of a child.
AfterFill(p, k) ==
  [j \in DOMAIN orders[p] |->
    LET s == orders[p][j].state IN
    IF j = k THEN "filled"
    ELSE IF k = Entry /\ s = "held" THEN "working"
    ELSE IF k \in Bracket(p) /\ j \in Bracket(p) /\ s \in Open THEN "cancelled"
    ELSE s]

Fill(p, k) ==
  /\ orders[p][k].state = "working"
  /\ Move(p, AfterFill(p, k))
  /\ holding' = [holding EXCEPT ![p] =
       IF k = Entry THEN @ + orders[p][k].qty ELSE @ - orders[p][k].qty]
  /\ posCache' = Portfolio(holding')
  /\ UNCHANGED <<subscribed, feed>>

\* Cancelling the parent cascades to its children.
AfterCancel(p, ks) ==
  LET all == IF Entry \in ks /\ orders[p][Entry].state \in Open
             THEN ks \union Bracket(p) ELSE ks
  IN  [j \in DOMAIN orders[p] |->
        IF j \in all /\ orders[p][j].state \in Open
        THEN "cancelled" ELSE orders[p][j].state]

\* The exchange or the gateway cancels an entry order that did not fill.
CancelledByBroker(p) ==
  /\ orders[p] # <<>>
  /\ orders[p][Entry].state = "working"
  /\ Move(p, AfterCancel(p, {Entry}))
  /\ UNCHANGED <<holding, posCache, subscribed, feed>>

\* UpdatePortfolio, when updates are not prompt.
UpdatePortfolio(p) ==
  /\ ~PromptUpdates
  /\ conn = "up"
  /\ feed
  /\ posCache[p] # AbsQty(holding[p])
  /\ posCache' = [posCache EXCEPT ![p] = AbsQty(holding[p])]
  /\ UNCHANGED <<orders, holding, subscribed, feed>>

-----------------------------------------------------------------------------
(* The service *)

\* PlaceOrder of the group new on a connection that is not torn down: it
\* arrives, or the bytes are lost in a connection that is already closed,
\* which PlaceOrder answers with "PendingConfirm" and no error.
Send(p, new) ==
  orders' = [orders EXCEPT ![p] = @ \o
    [k \in DOMAIN new |->
      IF conn = "up" THEN [new[k] EXCEPT !.cached = new[k].state]
                     ELSE [new[k] EXCEPT !.state = "lost"]]]

\* CancelOrder of the orders ks: its gate looks at enabled only.
Cancel(p, ks) ==
  IF enabled /\ conn = "up"
  THEN Move(p, AfterCancel(p, ks)) ELSE UNCHANGED orders

\* Whether ListOrders has all the gateway lists: an error, the end of its
\* context or a full channel keeps an order from it.
Listings == IF Unlisted THEN BOOLEAN ELSE {TRUE}

\* GetOrder: the open orders of the gateway, then orderCache; "none" stands
\* for its error.
GetOrder(p, k, listed) ==
  IF listed /\ conn = "up" /\ orders[p][k].state \in Open
  THEN orders[p][k].state ELSE orders[p][k].cached

\* GetPositions returns the cache; not subscribed, it subscribes first and
\* goes on when that write fails.
CanRead == subscribed \/ conn = "closed"

\* SubscribePositions: the request arrives, or is lost in a connection that
\* is already closed.
SubscribePositions ==
  /\ ~subscribed
  /\ conn # "nil"
  /\ subscribed' = TRUE
  /\ feed' = (conn = "up")
  /\ posCache' = IF conn = "up" /\ PromptUpdates
                 THEN [p \in Positions |-> AbsQty(holding[p])] ELSE posCache
  /\ UNCHANGED <<orders, holding>>

Forget(os) == [k \in DOMAIN os |-> [os[k] EXCEPT !.cached = "none"]]

\* OnDisconnect.
OnDisconnect ==
  /\ orders' = [p \in Positions |-> Forget(orders[p])]
  /\ posCache' = [p \in Positions |-> 0]
  /\ subscribed' = FALSE
  /\ UNCHANGED <<holding, feed>>

\* OnReconnect: SubscribePositions, which returns early if posSubscribed says
\* that somebody did it since OnDisconnect, and gives up when its write fails.
OnReconnect ==
  \/ CanRead /\ UNCHANGED brokerVars
  \/ SubscribePositions

\* The account subscription ends with the session.
SessionEnds ==
  /\ feed' = FALSE
  /\ UNCHANGED <<orders, holding, posCache, subscribed>>

\* The caches of a process that has just connected and subscribed.
FreshCaches ==
  /\ orders' = [p \in Positions |-> Forget(orders[p])]
  /\ posCache' = [p \in Positions |-> IF PromptUpdates THEN AbsQty(holding[p]) ELSE 0]
  /\ subscribed' = TRUE
  /\ feed' = TRUE
  /\ UNCHANGED holding

=============================================================================
