--------------------------- MODULE PositionProofs ---------------------------
(***************************************************************************)
(* Proofs about PositionMonitor, for any number of positions and of close  *)
(* requests, any quantities and any number of lost connections, manual     *)
(* reconnects and restarts: a position is active only if its entry filled; *)
(* exits are sent once; and, in a session that holds, what the monitor has *)
(* ended is sold and has no bracket left.                                  *)
(***************************************************************************)
EXTENDS PositionProperties, SequenceTheorems, FiniteSetTheorems, WellFoundedInduction, TLAPS

-----------------------------------------------------------------------------
(* The gate *)

\* Mode changes, lost connections and the reconnect flows keep the types of the
\* gate's variables.
LEMMA GateType ==
  ASSUME GateTypeOK, GateNext \/ UNCHANGED gateVars
  PROVE  GateTypeOK'
<1>1. CASE UNCHANGED gateVars
  BY <1>1 DEF GateTypeOK, gateVars
<1>2. CASE SwitchMode
  BY <1>2 DEF GateTypeOK, SwitchMode
<1>3. CASE LoseConnection
  BY <1>3 DEF GateTypeOK, LoseConnection
<1>4. ASSUME NEW f \in Flows, FlowStep(f)
      PROVE  GateTypeOK'
  BY <1>4 DEF GateTypeOK, FlowStep, Halt, CloseOld, TearDown, Opened, Reconnected, ReconnectFailed
<1>5. CASE ReconnectPanics
  BY <1>5 DEF GateTypeOK, ReconnectPanics
<1>6. QED
  BY <1>1, <1>2, <1>3, <1>4, <1>5 DEF GateNext

-----------------------------------------------------------------------------
(* Sequences of orders *)

\* A function on the domain of a sequence is a sequence of the same length.
LEMMA SameDomain ==
  ASSUME NEW S, NEW T, NEW s \in Seq(S), NEW t \in [DOMAIN s -> T]
  PROVE  t \in Seq(T) /\ Len(t) = Len(s) /\ DOMAIN t = DOMAIN s
<1>1. Len(s) \in Nat /\ DOMAIN s = 1 .. Len(s)
  BY LenProperties
<1>2. t \in Seq(T)
  BY <1>1, IsASeq
<1>3. DOMAIN t = 1 .. Len(t) /\ Len(t) \in Nat
  BY <1>2, LenProperties
<1>4. QED
  BY <1>1, <1>2, <1>3

\* What every change of the orders keeps: no order disappears, a filled entry
\* stays filled, and only the positions in S may get their first order.
OrdersGrow(S) ==
  \A p \in Positions :
    /\ orders[p] # <<>> => orders'[p] # <<>>
    /\ orders[p] = <<>> /\ p \notin S => orders'[p] = <<>>
    /\ DOMAIN orders[p] \subseteq DOMAIN orders'[p]
    /\ EntryFilled(p) => EntryFilled(p)'

\* The orders of p take new states, no filled one being changed.
Legal(p, new) ==
  /\ new \in [DOMAIN orders[p] -> OrderStates]
  /\ \A k \in DOMAIN orders[p] :
       /\ orders[p][k].state = "filled" => new[k] = "filled"
       /\ new[k] = "lost" => orders[p][k].state = "lost"

\* What Move does to the orders of its position and to the others.
LEMMA MoveEffect ==
  ASSUME BrokerTypeOK, NEW p \in Positions, NEW new, Legal(p, new), Move(p, new)
  PROVE  /\ orders' \in [Positions -> Seq(Order)]
         /\ \A q \in Positions \ {p} : orders'[q] = orders[q]
         /\ DOMAIN orders'[p] = DOMAIN orders[p]
         /\ \A k \in DOMAIN orders[p] :
              /\ orders'[p][k].state = new[k]
              /\ orders'[p][k].cached \in {new[k], orders[p][k].cached}
              /\ orders'[p][k].cached = orders[p][k].cached \/ new[k] # orders[p][k].state
              /\ orders'[p][k].kind = orders[p][k].kind /\ orders'[p][k].qty = orders[p][k].qty
<1> DEFINE moved(k) == [orders[p][k] EXCEPT !.state = new[k],
                          !.cached = IF conn = "up" /\ new[k] # orders[p][k].state
                                     THEN new[k] ELSE orders[p][k].cached]
           t == [k \in DOMAIN orders[p] |-> moved(k)]
<1>1. orders' = [orders EXCEPT ![p] = t]
  BY DEF Move
<1>2. orders[p] \in Seq(Order)
  BY DEF BrokerTypeOK
<1>3. ASSUME NEW k \in DOMAIN orders[p]
      PROVE  /\ moved(k) \in Order
             /\ moved(k).state = new[k]
             /\ moved(k).cached \in {new[k], orders[p][k].cached}
             /\ moved(k).cached = orders[p][k].cached \/ new[k] # orders[p][k].state
             /\ moved(k).kind = orders[p][k].kind /\ moved(k).qty = orders[p][k].qty
  <2>1. orders[p][k] \in Order
    BY <1>2, ElementOfSeq, LenProperties
  <2>2. /\ new[k] \in OrderStates
        /\ new[k] = "lost" => orders[p][k].state = "lost"
    BY DEF Legal
  <2>3. QED
    BY <2>1, <2>2 DEF Order, OrderStates, Open
<1> HIDE DEF moved
<1>4. t \in Seq(Order) /\ DOMAIN t = DOMAIN orders[p]
  <2>1. t \in [DOMAIN orders[p] -> Order]
    BY <1>3
  <2>2. QED
    BY <1>2, <2>1, SameDomain
<1>5. orders' \in [Positions -> Seq(Order)] /\ orders'[p] = t
      /\ \A q \in Positions \ {p} : orders'[q] = orders[q]
  BY <1>1, <1>4 DEF BrokerTypeOK
<1>6. QED
  BY <1>3, <1>4, <1>5

\* Legal moves lose no order and no fill.
LEMMA MoveGrows ==
  ASSUME BrokerTypeOK, NEW p \in Positions, NEW new, Legal(p, new), Move(p, new)
  PROVE  OrdersGrow({})
<1>1. /\ \A q \in Positions \ {p} : orders'[q] = orders[q]
      /\ DOMAIN orders'[p] = DOMAIN orders[p]
      /\ \A k \in DOMAIN orders[p] : orders'[p][k].state = new[k]
      /\ orders[p] \in Seq(Order) /\ orders'[p] \in Seq(Order)
  BY MoveEffect DEF BrokerTypeOK
<1>2. Len(orders[p]) = Len(orders'[p]) /\ orders[p] # <<>> => Entry \in DOMAIN orders[p]
  BY <1>1, LenProperties, EmptySeq DEF Entry
<1>3. orders[p] # <<>> <=> orders'[p] # <<>>
  BY <1>1, <1>2, LenProperties, EmptySeq
<1>4. EntryFilled(p) => EntryFilled(p)'
  BY <1>1, <1>2, <1>3 DEF EntryFilled, Legal
<1>5. QED
  BY <1>1, <1>3, <1>4 DEF OrdersGrow, EntryFilled

-----------------------------------------------------------------------------
(* The gateway and the trading service keep BrokerInv *)

\* If no other order trades before the entry in the new states either.
EntryFirstIn(p, new) ==
  \A k \in DOMAIN orders[p] :
    k # Entry /\ new[k] \in {"working", "filled"} => EntryFilled(p) \/ new[Entry] = "filled"

\* Legal moves that let the entry trade first keep the order invariants.
LEMMA MoveKeeps ==
  ASSUME BrokerInv, NEW p \in Positions, NEW new, Legal(p, new), EntryFirstIn(p, new),
         Move(p, new)
  PROVE  orders' \in [Positions -> Seq(Order)] /\ CacheIsRight' /\ EntryIsFirst' /\ OrdersGrow({})
<1>1. BrokerTypeOK /\ OrdersGrow({})
  BY MoveGrows DEF BrokerInv
<1>2. /\ orders' \in [Positions -> Seq(Order)]
      /\ \A q \in Positions \ {p} : orders'[q] = orders[q]
      /\ DOMAIN orders'[p] = DOMAIN orders[p]
      /\ \A k \in DOMAIN orders[p] :
           /\ orders'[p][k].state = new[k]
           /\ orders'[p][k].cached \in {new[k], orders[p][k].cached}
  BY <1>1, MoveEffect
<1>3. CacheIsRight'
  <2>1. ASSUME NEW k \in DOMAIN orders[p], orders'[p][k].cached = "filled"
        PROVE  orders'[p][k].state = "filled"
    BY <1>2, <2>1 DEF BrokerInv, CacheIsRight, Legal
  <2>2. QED
    BY <1>2, <2>1 DEF BrokerInv, CacheIsRight
<1>4. EntryIsFirst'
  <2>1. ASSUME NEW k \in DOMAIN orders[p], k # Entry,
               orders'[p][k].state \in {"working", "filled"}
        PROVE  EntryFilled(p)'
    <3>1. orders[p] \in Seq(Order) /\ orders'[p] \in Seq(Order)
      BY <1>1, <1>2 DEF BrokerTypeOK
    <3>2. Entry \in DOMAIN orders[p] /\ orders'[p] # <<>>
      BY <1>2, <3>1, LenProperties, EmptySeq DEF Entry
    <3>3. EntryFilled(p) \/ new[Entry] = "filled"
      BY <1>2, <2>1 DEF EntryFirstIn
    <3>4. QED
      BY <1>1, <1>2, <3>2, <3>3 DEF OrdersGrow, EntryFilled
  <2>2. ASSUME NEW q \in Positions \ {p}
        PROVE  EntryFilled(q)' <=> EntryFilled(q)
    BY <1>2 DEF EntryFilled
  <2>3. QED
    BY <1>2, <2>1, <2>2 DEF BrokerInv, EntryIsFirst
<1>5. QED
  BY <1>1, <1>2, <1>3, <1>4

\* An order of a position is typed, and the position has an entry order.
LEMMA NonEmpty ==
  ASSUME NEW s \in Seq(Order), NEW k \in DOMAIN s
  PROVE  s # <<>> /\ Entry \in DOMAIN s /\ s[k] \in Order
BY LenProperties, EmptySeq, ElementOfSeq DEF Entry

\* What posCache may hold is zero where nothing is held.
LEMMA PortfolioType ==
  ASSUME BrokerTypeOK, NEW h \in [Positions -> Int]
  PROVE  /\ Portfolio(h) \in [Positions -> Nat]
         /\ \A p \in Positions : Portfolio(h)[p] # 0 => h[p] # 0 \/ posCache[p] # 0
         /\ \A q \in Int : AbsQty(q) \in Nat /\ (AbsQty(q) # 0 => q # 0)
BY DEF Portfolio, AbsQty, BrokerTypeOK

\* A fill at the broker, with what it releases and cancels.
LEMMA FillKeeps ==
  ASSUME BrokerInv, NEW p \in Positions, NEW k \in DOMAIN orders[p], Fill(p, k)
  PROVE  BrokerInv' /\ OrdersGrow({})
<1> DEFINE new == AfterFill(p, k)
<1>1. orders[p] \in Seq(Order) /\ orders[p][k] \in Order /\ Entry \in DOMAIN orders[p]
      /\ orders[p] # <<>>
  BY NonEmpty DEF BrokerInv, BrokerTypeOK
<1>2. Legal(p, new)
  <2>1. \A j \in DOMAIN orders[p] : orders[p][j].state \in OrderStates
    BY <1>1, NonEmpty DEF Order
  <2>2. QED
    BY <2>1 DEF Legal, AfterFill, Fill, OrderStates, Open
<1>3. EntryFilled(p) \/ new[Entry] = "filled"
  <2>1. CASE k = Entry
    BY <1>1, <2>1 DEF AfterFill
  <2>2. CASE k # Entry
    BY <2>2 DEF Fill, BrokerInv, EntryIsFirst
  <2>3. QED
    BY <2>1, <2>2
<1>4. EntryFirstIn(p, new)
  BY <1>3 DEF EntryFirstIn
<1>5. Move(p, new)
  BY DEF Fill
<1> HIDE DEF new
<1>6. orders' \in [Positions -> Seq(Order)] /\ CacheIsRight' /\ EntryIsFirst' /\ OrdersGrow({})
  BY <1>2, <1>4, <1>5, MoveKeeps
<1>7. EntryFilled(p)'
  <2>1. /\ orders'[p][Entry].state = new[Entry]
        /\ orders'[p] # <<>>
    BY <1>1, <1>2, <1>5, <1>6, MoveEffect DEF BrokerInv, OrdersGrow
  <2>2. CASE EntryFilled(p)
    BY <1>6, <2>2 DEF OrdersGrow
  <2>3. QED
    BY <1>3, <2>1, <2>2 DEF EntryFilled
<1>8. holding' \in [Positions -> Int] /\ \A q \in Positions \ {p} : holding'[q] = holding[q]
  <2>1. orders[p][k].qty \in Int
    BY <1>1 DEF Order
  <2>2. QED
    BY <2>1 DEF Fill, BrokerInv, BrokerTypeOK
<1>9. /\ posCache' \in [Positions -> Nat]
      /\ \A q \in Positions : posCache'[q] # 0 => holding'[q] # 0 \/ posCache[q] # 0
  BY <1>8, PortfolioType DEF Fill, BrokerInv
<1>10. HeldAfterEntry'
  BY <1>6, <1>7, <1>8, <1>9 DEF HeldAfterEntry, OrdersGrow, BrokerInv
<1>11. BrokerTypeOK'
  BY <1>6, <1>8, <1>9 DEF BrokerTypeOK, Fill, BrokerInv
<1>12. QED
  BY <1>6, <1>10, <1>11 DEF BrokerInv

\* A cancel of any orders, cascading or not.
LEMMA CancelMoves ==
  ASSUME BrokerInv, NEW p \in Positions, NEW ks, Move(p, AfterCancel(p, ks))
  PROVE  orders' \in [Positions -> Seq(Order)] /\ CacheIsRight' /\ EntryIsFirst' /\ OrdersGrow({})
<1> DEFINE new == AfterCancel(p, ks)
<1>1. \A k \in DOMAIN orders[p] : orders[p][k].state \in OrderStates
  BY NonEmpty DEF BrokerInv, BrokerTypeOK, Order
<1>2. \A k \in DOMAIN orders[p] : new[k] \in {orders[p][k].state, "cancelled"}
  BY DEF AfterCancel
<1>3. Legal(p, new)
  BY <1>1 DEF Legal, AfterCancel, OrderStates, Open
<1>4. EntryFirstIn(p, new)
  BY <1>2 DEF EntryFirstIn, BrokerInv, EntryIsFirst
<1>5. QED
  BY <1>3, <1>4, MoveKeeps

\* HeldAfterEntry only depends on what is held and cached growing no position.
LEMMA HeldKeeps ==
  ASSUME BrokerInv, NEW S, OrdersGrow(S),
         \A q \in Positions : holding'[q] # 0 \/ posCache'[q] # 0 =>
           holding[q] # 0 \/ posCache[q] # 0
  PROVE  HeldAfterEntry'
BY DEF BrokerInv, HeldAfterEntry, OrdersGrow

\* What leaves the orders alone keeps what is said of them.
LEMMA SameOrders ==
  ASSUME BrokerInv, UNCHANGED orders
  PROVE  CacheIsRight' /\ EntryIsFirst' /\ OrdersGrow({})
<1>1. \A p \in Positions : EntryFilled(p)' <=> EntryFilled(p)
  BY DEF EntryFilled
<1>2. QED
  BY <1>1 DEF BrokerInv, CacheIsRight, EntryIsFirst, OrdersGrow

\* CancelOrder, through the gate or stopped by it.
LEMMA CancelKeeps ==
  ASSUME BrokerInv, NEW p \in Positions, NEW ks, Cancel(p, ks),
         UNCHANGED <<holding, posCache, subscribed, feed>>
  PROVE  BrokerInv' /\ OrdersGrow({})
<1>1. orders' \in [Positions -> Seq(Order)] /\ CacheIsRight' /\ EntryIsFirst' /\ OrdersGrow({})
  <2>1. CASE UNCHANGED orders
    BY <2>1, SameOrders DEF BrokerInv, BrokerTypeOK
  <2>2. CASE Move(p, AfterCancel(p, ks))
    BY <2>2, CancelMoves
  <2>3. QED
    BY <2>1, <2>2 DEF Cancel
<1>2. HeldAfterEntry'
  BY <1>1, HeldKeeps
<1>3. QED
  BY <1>1, <1>2 DEF BrokerInv, BrokerTypeOK

\* Everything of the gateway that needs no order of the bot.
LEMMA GatewayKeeps ==
  ASSUME BrokerInv, Gateway
  PROVE  BrokerInv' /\ OrdersGrow({})
<1>1. PICK p \in Positions :
        \/ \E k \in DOMAIN orders[p] : Fill(p, k)
        \/ CancelledByBroker(p)
        \/ UpdatePortfolio(p)
  BY DEF Gateway
<1>2. CASE \E k \in DOMAIN orders[p] : Fill(p, k)
  BY <1>2, FillKeeps
<1>3. CASE CancelledByBroker(p)
  <2>1. Move(p, AfterCancel(p, {Entry})) /\ UNCHANGED <<holding, posCache, subscribed, feed>>
    BY <1>3 DEF CancelledByBroker
  <2>2. orders' \in [Positions -> Seq(Order)] /\ CacheIsRight' /\ EntryIsFirst' /\ OrdersGrow({})
    BY <2>1, CancelMoves
  <2>3. HeldAfterEntry'
    BY <2>1, <2>2, HeldKeeps
  <2>4. QED
    BY <2>1, <2>2, <2>3 DEF BrokerInv, BrokerTypeOK
<1>4. CASE UpdatePortfolio(p)
  <2>1. CacheIsRight' /\ EntryIsFirst' /\ OrdersGrow({})
    BY <1>4, SameOrders DEF UpdatePortfolio
  <2>2. holding \in [Positions -> Int] /\ posCache \in [Positions -> Nat] /\ holding[p] \in Int
    BY DEF BrokerInv, BrokerTypeOK
  <2>3. AbsQty(holding[p]) \in Nat /\ (AbsQty(holding[p]) # 0 => holding[p] # 0)
    BY <2>2 DEF AbsQty
  <2>4. HeldAfterEntry'
    BY <1>4, <2>1, <2>2, <2>3, HeldKeeps DEF UpdatePortfolio
  <2>5. BrokerTypeOK'
    BY <1>4, <2>2, <2>3 DEF UpdatePortfolio, BrokerInv, BrokerTypeOK
  <2>6. QED
    BY <2>1, <2>4, <2>5 DEF BrokerInv
<1>5. QED
  BY <1>1, <1>2, <1>3, <1>4

\* An emptied order cache.
LEMMA ForgetKeeps ==
  ASSUME BrokerInv, orders' = [p \in Positions |-> Forget(orders[p])]
  PROVE  orders' \in [Positions -> Seq(Order)] /\ CacheIsRight' /\ EntryIsFirst' /\ OrdersGrow({})
<1>1. ASSUME NEW p \in Positions
      PROVE  /\ orders'[p] \in Seq(Order)
             /\ DOMAIN orders'[p] = DOMAIN orders[p]
             /\ orders[p] = <<>> <=> orders'[p] = <<>>
             /\ \A k \in DOMAIN orders[p] :
                  orders'[p][k].state = orders[p][k].state /\ orders'[p][k].cached = "none"
  <2>1. orders[p] \in Seq(Order) /\ orders'[p] = Forget(orders[p])
    BY DEF BrokerInv, BrokerTypeOK
  <2>2. ASSUME NEW k \in DOMAIN orders[p]
        PROVE  /\ [orders[p][k] EXCEPT !.cached = "none"] \in Order
               /\ [orders[p][k] EXCEPT !.cached = "none"].state = orders[p][k].state
               /\ [orders[p][k] EXCEPT !.cached = "none"].cached = "none"
    <3>1. orders[p][k] \in Order
      BY <2>1, NonEmpty
    <3>2. QED
      BY <3>1 DEF Order
  <2>3. /\ Forget(orders[p]) \in [DOMAIN orders[p] -> Order]
        /\ \A k \in DOMAIN orders[p] :
             orders'[p][k].state = orders[p][k].state /\ orders'[p][k].cached = "none"
    BY <2>1, <2>2 DEF Forget
  <2>4. orders'[p] \in Seq(Order) /\ Len(orders'[p]) = Len(orders[p])
        /\ DOMAIN orders'[p] = DOMAIN orders[p]
    BY <2>1, <2>3, SameDomain
  <2>5. QED
    BY <2>1, <2>3, <2>4, EmptySeq, LenProperties
<1>2. orders' \in [Positions -> Seq(Order)]
  BY <1>1
<1>3. ASSUME NEW p \in Positions
      PROVE  EntryFilled(p)' <=> EntryFilled(p)
  BY <1>1, NonEmpty, LenProperties, EmptySeq DEF EntryFilled, Entry, BrokerInv, BrokerTypeOK
<1>4. CacheIsRight' /\ EntryIsFirst' /\ OrdersGrow({})
  BY <1>1, <1>3 DEF CacheIsRight, EntryIsFirst, OrdersGrow, BrokerInv
<1>5. QED
  BY <1>2, <1>4

\* Orders as the service sends them.
Fresh(new) ==
  /\ new \in Seq(Order)
  /\ new # <<>>
  /\ \A k \in DOMAIN new : new[k].state \in Open \union {"refused"} /\ new[k].cached = "none"

\* An order as it is after it was sent: at the gateway, or lost.
Arrived(o) == IF conn = "up" THEN [o EXCEPT !.cached = o.state] ELSE [o EXCEPT !.state = "lost"]

LEMMA ArrivedIs ==
  ASSUME NEW o \in Order, o.state \in Open \union {"refused"}, o.cached = "none"
  PROVE  /\ Arrived(o) \in Order
         /\ Arrived(o).cached # "filled"
         /\ Arrived(o).state \in {o.state, "lost"}
         /\ conn = "up" => Arrived(o).state = o.state
         /\ Arrived(o).kind = o.kind /\ Arrived(o).qty = o.qty
BY DEF Arrived, Order, OrderStates, Open

\* Send appends to the orders of its position.
LEMMA SendAppends ==
  ASSUME BrokerTypeOK, NEW p \in Positions, NEW new, Fresh(new), Send(p, new)
  PROVE  /\ orders' \in [Positions -> Seq(Order)]
         /\ \A q \in Positions \ {p} : orders'[q] = orders[q]
         /\ Len(orders[p]) \in Nat /\ Len(new) \in Nat \ {0}
         /\ DOMAIN orders[p] = 1 .. Len(orders[p]) /\ DOMAIN new = 1 .. Len(new)
         /\ DOMAIN orders'[p] = 1 .. Len(orders[p]) + Len(new)
         /\ orders'[p] # <<>>
         /\ \A k \in 1 .. Len(orders[p]) : orders'[p][k] = orders[p][k]
         /\ \A k \in 1 .. Len(new) : orders'[p][Len(orders[p]) + k] = Arrived(new[k])
<1> DEFINE t == [k \in DOMAIN new |-> Arrived(new[k])]
<1>1. orders' = [orders EXCEPT ![p] = orders[p] \o t]
  BY DEF Send, Arrived
<1>2. ASSUME NEW k \in DOMAIN new
      PROVE  Arrived(new[k]) \in Order
  <2>1. new[k] \in Order /\ new[k].state \in Open \union {"refused"} /\ new[k].cached = "none"
    BY NonEmpty DEF Fresh
  <2>2. QED
    BY <2>1, ArrivedIs
<1>3. t \in Seq(Order) /\ Len(t) = Len(new) /\ DOMAIN t = DOMAIN new
      /\ \A k \in DOMAIN new : t[k] = Arrived(new[k])
  <2>1. t \in [DOMAIN new -> Order]
    BY <1>2
  <2>2. QED
    BY <2>1, SameDomain DEF Fresh
<1> HIDE DEF t
<1>4. /\ orders[p] \in Seq(Order)
      /\ Len(orders[p]) \in Nat /\ DOMAIN orders[p] = 1 .. Len(orders[p])
      /\ Len(new) \in Nat \ {0} /\ DOMAIN new = 1 .. Len(new)
  BY LenProperties, EmptySeq DEF BrokerTypeOK, Fresh
<1>5. orders[p] \o t \in Seq(Order) /\ Len(orders[p] \o t) = Len(orders[p]) + Len(new)
      /\ DOMAIN (orders[p] \o t) = 1 .. Len(orders[p]) + Len(new)
  BY <1>3, <1>4
<1>6. /\ \A k \in 1 .. Len(orders[p]) : (orders[p] \o t)[k] = orders[p][k]
      /\ \A k \in 1 .. Len(new) : (orders[p] \o t)[Len(orders[p]) + k] = t[k]
  BY <1>3, <1>4
<1>7. /\ orders' \in [Positions -> Seq(Order)] /\ orders'[p] = orders[p] \o t
      /\ \A q \in Positions \ {p} : orders'[q] = orders[q]
  BY <1>1, <1>5 DEF BrokerTypeOK
<1>8. orders'[p] # <<>>
  BY <1>4, <1>5, <1>7, EmptySeq
<1>9. \A k \in 1 .. Len(new) : orders'[p][Len(orders[p]) + k] = Arrived(new[k])
  BY <1>3, <1>4, <1>6, <1>7
<1>10. QED
  BY <1>4, <1>5, <1>6, <1>7, <1>8, <1>9

\* What Send adds to the orders of its position.
LEMMA SendEffect ==
  ASSUME BrokerTypeOK, NEW p \in Positions, NEW new, Fresh(new), Send(p, new)
  PROVE  /\ orders' \in [Positions -> Seq(Order)]
         /\ \A q \in Positions \ {p} : orders'[q] = orders[q]
         /\ Len(orders[p]) \in Nat /\ Len(new) \in Nat \ {0}
         /\ DOMAIN orders[p] = 1 .. Len(orders[p]) /\ DOMAIN new = 1 .. Len(new)
         /\ DOMAIN orders'[p] = 1 .. Len(orders[p]) + Len(new)
         /\ orders'[p] # <<>>
         /\ \A k \in 1 .. Len(orders[p]) : orders'[p][k] = orders[p][k]
         /\ \A k \in 1 .. Len(new) :
              /\ orders'[p][Len(orders[p]) + k].cached # "filled"
              /\ orders'[p][Len(orders[p]) + k].state \in {new[k].state, "lost"}
              /\ orders'[p][Len(orders[p]) + k].kind = new[k].kind
              /\ orders'[p][Len(orders[p]) + k].qty = new[k].qty
<1>1. \A k \in DOMAIN new : new[k] \in Order /\ new[k].state \in Open \union {"refused"} /\ new[k].cached = "none"
  BY NonEmpty DEF Fresh
<1>2. \A k \in DOMAIN new : /\ Arrived(new[k]).cached # "filled"
                            /\ Arrived(new[k]).state \in {new[k].state, "lost"}
                            /\ Arrived(new[k]).kind = new[k].kind /\ Arrived(new[k]).qty = new[k].qty
  BY <1>1, ArrivedIs
<1> QED
  BY <1>2, SendAppends

\* While the connection is up it arrives.
LEMMA SendArrives ==
  ASSUME BrokerTypeOK, NEW p \in Positions, NEW new, Fresh(new), Send(p, new), conn = "up"
  PROVE  \A k \in 1 .. Len(new) : orders'[p][Len(orders[p]) + k].state = new[k].state
<1>1. \A k \in DOMAIN new : new[k] \in Order /\ new[k].state \in Open \union {"refused"} /\ new[k].cached = "none"
  BY NonEmpty DEF Fresh
<1>2. \A k \in DOMAIN new : Arrived(new[k]).state = new[k].state
  BY <1>1, ArrivedIs
<1> QED
  BY <1>2, SendAppends

\* PlaceOrder of a bracket, or of an order after the entry filled.
LEMMA SendKeeps ==
  ASSUME BrokerInv, NEW p \in Positions, NEW new, Fresh(new), Send(p, new),
         UNCHANGED <<holding, posCache, subscribed, feed>>,
         \/ EntryFilled(p)
         \/ orders[p] = <<>> /\ \A k \in DOMAIN new : k # Entry => new[k].state = "held"
  PROVE  BrokerInv' /\ OrdersGrow({p})
<1>1. BrokerTypeOK
  BY DEF BrokerInv
<1> DEFINE n == Len(orders[p])
           m == Len(new)
<1>2. /\ orders' \in [Positions -> Seq(Order)]
      /\ \A q \in Positions \ {p} : orders'[q] = orders[q]
      /\ n \in Nat /\ m \in Nat \ {0}
      /\ DOMAIN orders[p] = 1 .. n /\ DOMAIN new = 1 .. m
      /\ DOMAIN orders'[p] = 1 .. n + m
      /\ orders'[p] # <<>>
      /\ \A k \in 1 .. n : orders'[p][k] = orders[p][k]
      /\ \A k \in 1 .. m :
           /\ orders'[p][n + k].cached # "filled"
           /\ orders'[p][n + k].state \in {new[k].state, "lost"}
  BY <1>1, SendEffect
<1>3. orders[p] \in Seq(Order)
  BY <1>1 DEF BrokerTypeOK
<1>4. (orders[p] = <<>> <=> n = 0) /\ (orders[p] # <<>> => Entry \in 1 .. n)
  BY <1>3, <1>2, EmptySeq DEF Entry
<1> HIDE DEF n, m
<1>5. ASSUME NEW k \in 1 .. n + m, k \notin 1 .. n
      PROVE  k - n \in 1 .. m /\ k = n + (k - n)
  BY <1>2, <1>5
<1>6. OrdersGrow({p})
  <2>1. EntryFilled(p) => EntryFilled(p)'
    BY <1>2, <1>4 DEF EntryFilled
  <2>2. DOMAIN orders[p] \subseteq DOMAIN orders'[p]
    BY <1>2
  <2>3. QED
    BY <1>2, <2>1, <2>2 DEF OrdersGrow, EntryFilled
<1>7. CacheIsRight'
  <2>1. ASSUME NEW k \in DOMAIN orders'[p], orders'[p][k].cached = "filled"
        PROVE  orders'[p][k].state = "filled"
    <3>1. ASSUME k \notin 1 .. n
          PROVE  FALSE
      <4>1. k - n \in 1 .. m /\ k = n + (k - n)
        BY <1>2, <1>5, <3>1
      <4>2. orders'[p][n + (k - n)].cached # "filled"
        BY <1>2, <4>1
      <4>3. QED
        BY <2>1, <4>1, <4>2
    <3>2. orders[p][k].cached = "filled" /\ k \in DOMAIN orders[p] /\ orders'[p][k] = orders[p][k]
      BY <1>2, <2>1, <3>1
    <3>3. QED
      BY <3>2 DEF BrokerInv, CacheIsRight
  <2>2. ASSUME NEW q \in Positions \ {p}, NEW k \in DOMAIN orders'[q],
               orders'[q][k].cached = "filled"
        PROVE  orders'[q][k].state = "filled"
    BY <1>2, <2>2 DEF BrokerInv, CacheIsRight
  <2>3. QED
    BY <2>1, <2>2 DEF CacheIsRight
<1>8. EntryIsFirst'
  <2>1. ASSUME NEW k \in DOMAIN orders'[p], k # Entry,
               orders'[p][k].state \in {"working", "filled"}
        PROVE  EntryFilled(p)
    <3>1. CASE k \in 1 .. n
      BY <1>2, <2>1, <3>1 DEF BrokerInv, EntryIsFirst
    <3>2. CASE k \notin 1 .. n
      <4>1. k - n \in 1 .. m /\ orders'[p][k].state \in {new[k - n].state, "lost"}
        BY <1>2, <1>5, <3>2
      <4>2. CASE orders[p] = <<>>
        <5>1. n = 0 /\ k # Entry /\ k \in DOMAIN new
          BY <1>2, <1>4, <2>1, <4>1, <4>2
        <5>2. CASE EntryFilled(p)
          BY <5>2
        <5>3. CASE new[k].state = "held"
          BY <1>5, <2>1, <4>1, <5>1, <5>3, <1>2
        <5>4. QED
          BY <5>1, <5>2, <5>3
      <4>3. CASE orders[p] # <<>>
        BY <4>3
      <4>4. QED
        BY <4>2, <4>3
    <3>3. QED
      BY <3>1, <3>2
  <2>2. ASSUME NEW q \in Positions \ {p}
        PROVE  EntryFilled(q)' <=> EntryFilled(q)
    BY <1>2 DEF EntryFilled
  <2>3. QED
    BY <1>2, <1>6, <2>1, <2>2 DEF BrokerInv, EntryIsFirst, OrdersGrow
<1>9. HeldAfterEntry'
  BY <1>6, HeldKeeps
<1>10. QED
  BY <1>1, <1>2, <1>7, <1>8, <1>6, <1>9 DEF BrokerInv, BrokerTypeOK

\* Subscriptions and the end of a session change no order.
LEMMA SubscriptionKeeps ==
  ASSUME BrokerInv, SubscribePositions \/ OnReconnect \/ SessionEnds
  PROVE  BrokerInv' /\ OrdersGrow({})
<1>1. UNCHANGED <<orders, holding>>
  BY DEF SubscribePositions, OnReconnect, SessionEnds, brokerVars
<1>2. \A p \in Positions : holding[p] \in Int /\ posCache[p] \in Nat
      /\ AbsQty(holding[p]) \in Nat /\ (AbsQty(holding[p]) # 0 => holding[p] # 0)
  BY DEF BrokerInv, BrokerTypeOK, AbsQty
<1>3. posCache' \in [Positions -> Nat]
      /\ \A p \in Positions : posCache'[p] # 0 => holding[p] # 0 \/ posCache[p] # 0
  <2>1. posCache' = posCache \/ posCache' = [p \in Positions |-> AbsQty(holding[p])]
    BY DEF SubscribePositions, OnReconnect, SessionEnds, brokerVars
  <2>2. QED
    BY <1>2, <2>1 DEF BrokerInv, BrokerTypeOK
<1>4. subscribed' \in BOOLEAN /\ feed' \in BOOLEAN
  BY DEF SubscribePositions, OnReconnect, SessionEnds, BrokerInv, BrokerTypeOK, brokerVars
<1>5. CacheIsRight' /\ EntryIsFirst' /\ OrdersGrow({})
  BY <1>1, SameOrders
<1>6. HeldAfterEntry'
  BY <1>1, <1>3, <1>5, HeldKeeps
<1>7. QED
  BY <1>1, <1>3, <1>4, <1>5, <1>6 DEF BrokerInv, BrokerTypeOK

\* OnDisconnect and the start of a process empty the order cache.
LEMMA EmptyCachesKeep ==
  ASSUME BrokerInv, OnDisconnect \/ FreshCaches
  PROVE  BrokerInv' /\ OrdersGrow({})
<1>1. orders' \in [Positions -> Seq(Order)] /\ CacheIsRight' /\ EntryIsFirst' /\ OrdersGrow({})
  <2>1. orders' = [p \in Positions |-> Forget(orders[p])]
    BY DEF OnDisconnect, FreshCaches
  <2>2. QED
    BY <2>1, ForgetKeeps
<1>2. \A p \in Positions : AbsQty(holding[p]) \in Nat /\ (AbsQty(holding[p]) # 0 => holding[p] # 0)
  BY DEF BrokerInv, BrokerTypeOK, AbsQty
<1>3. posCache' \in [Positions -> Nat]
      /\ \A p \in Positions : posCache'[p] # 0 => holding[p] # 0
  BY <1>2 DEF OnDisconnect, FreshCaches
<1>4. UNCHANGED holding /\ subscribed' \in BOOLEAN /\ feed' \in BOOLEAN
  BY DEF OnDisconnect, FreshCaches, BrokerInv, BrokerTypeOK
<1>5. HeldAfterEntry'
  BY <1>1, <1>3, <1>4, HeldKeeps
<1>6. QED
  BY <1>1, <1>3, <1>4, <1>5 DEF BrokerInv, BrokerTypeOK

-----------------------------------------------------------------------------
(* The records and the actors keep ManagedInv *)

\* What orders justify, later orders justify.
LEMMA JustifiedGrows ==
  ASSUME NEW S, OrdersGrow(S), NEW p \in Positions, NEW r, Justified(r, orders[p])
  PROVE  Justified(r, orders'[p])
BY DEF OrdersGrow, Justified, EntryFilled

\* A step that changes no record and no actor.
LEMMA ManagedKept ==
  ASSUME ManagedTypeOK, ManagedInv, OrdersGrow({}),
         UNCHANGED <<stage, mem, db, at, target, todo, restarted>>, faults' \in Nat
  PROVE  ManagedTypeOK' /\ ManagedInv'
<1>1. ManagedTypeOK'
  BY DEF ManagedTypeOK
<1>2. ASSUME NEW p \in Positions
      PROVE  /\ stage'[p] = "new" <=> orders'[p] = <<>>
             /\ Justified(mem'[p], orders'[p])
             /\ Justified(db'[p], orders'[p])
  BY JustifiedGrows DEF ManagedInv, RecordsAreJustified, OrdersGrow
<1>3. RecordsAreJustified'
  BY <1>2 DEF RecordsAreJustified
<1>4. WorkWasSent' /\ PartialAfterEntry'
  <2>1. \A p \in Positions : /\ orders[p] # <<>> => orders'[p] # <<>>
                             /\ EntryFilled(p) => EntryFilled(p)'
    BY DEF OrdersGrow
  <2>2. WorkWasSent'
    BY <2>1 DEF ManagedInv, WorkWasSent
  <2>3. ASSUME at[Monitor] = "partial"
        PROVE  EntryFilled(target[Monitor])'
    <3>1. EntryFilled(target[Monitor]) /\ target[Monitor] \in Positions
      BY <2>3 DEF ManagedInv, PartialAfterEntry, WorkWasSent, Actors
    <3>2. QED
      BY <2>1, <3>1 DEF EntryFilled
  <2>4. QED
    BY <2>2, <2>3 DEF PartialAfterEntry, EntryFilled
<1>5. QED
  BY <1>1, <1>3, <1>4 DEF ManagedInv

\* A step of the actor a on the position p.
LEMMA ActorStep ==
  ASSUME ManagedTypeOK, ManagedInv, NEW a \in Actors, NEW p \in Positions,
         OrdersGrow({p}), orders[p] # <<>>,
         mem' \in [Positions -> Record], \A q \in Positions \ {p} : mem'[q] = mem[q],
         Justified(mem'[p], orders'[p]),
         db' \in [Positions -> Record], \A q \in Positions \ {p} : db'[q] = db[q],
         Justified(db'[p], orders'[p]),
         NEW l \in {"idle"} \union CloseSteps \union MonitorSteps, Goto(a, l),
         target' \in [Actors -> Positions \union {NoPosition}],
         \A b \in Actors \ {a} : target'[b] = target[b],
         l # "idle" => target'[a] = p,
         l = "partial" => EntryFilled(p)',
         todo' \subseteq Positions,
         UNCHANGED <<stage, restarted, faults>>
  PROVE  ManagedTypeOK' /\ ManagedInv'
<1>1. at' \in [Actors -> {"idle"} \union CloseSteps \union MonitorSteps]
      /\ at'[a] = l /\ \A b \in Actors \ {a} : at'[b] = at[b]
  BY DEF Goto, ManagedTypeOK
<1>2. ManagedTypeOK'
  BY <1>1 DEF ManagedTypeOK
<1>3. ASSUME NEW q \in Positions
      PROVE  /\ stage'[q] = "new" <=> orders'[q] = <<>>
             /\ Justified(mem'[q], orders'[q])
             /\ Justified(db'[q], orders'[q])
  <2>1. /\ stage[q] = "new" <=> orders[q] = <<>>
        /\ Justified(mem[q], orders[q])
        /\ Justified(db[q], orders[q])
    BY DEF ManagedInv, RecordsAreJustified
  <2>2. Justified(mem[q], orders'[q]) /\ Justified(db[q], orders'[q])
    BY <2>1, JustifiedGrows
  <2>3. orders[q] = <<>> <=> orders'[q] = <<>>
    BY DEF OrdersGrow
  <2>4. QED
    BY <2>1, <2>2, <2>3
<1>4. RecordsAreJustified'
  BY <1>3 DEF RecordsAreJustified
<1>5. \A q \in Positions : /\ orders[q] # <<>> => orders'[q] # <<>>
                           /\ EntryFilled(q) => EntryFilled(q)'
  BY DEF OrdersGrow
<1>6. WorkWasSent'
  BY <1>1, <1>5 DEF ManagedInv, WorkWasSent
<1>7. ASSUME at'[Monitor] = "partial"
      PROVE  EntryFilled(target[Monitor])'
  <2>1. CASE a = Monitor
    BY <1>1, <1>7, <2>1 DEF EntryFilled
  <2>2. CASE a # Monitor
    <3>1. Monitor \in Actors \ {a} /\ at[Monitor] = "partial" /\ target'[Monitor] = target[Monitor]
      BY <1>1, <1>7, <2>2 DEF Actors
    <3>2. EntryFilled(target[Monitor]) /\ target[Monitor] \in Positions
      BY <3>1 DEF ManagedInv, PartialAfterEntry, WorkWasSent
    <3>3. QED
      BY <1>5, <3>1, <3>2 DEF EntryFilled
  <2>3. QED
    BY <2>1, <2>2
<1>8. QED
  BY <1>2, <1>4, <1>6, <1>7 DEF ManagedInv, PartialAfterEntry, EntryFilled

-----------------------------------------------------------------------------
(* The actions *)

\* The gateway, the subscription of the monitor, a lost connection, the
\* reconnect flows and the Settings panel.
LEMMA BrokerGrows ==
  ASSUME IInv,
         \/ Gateway \/ MonitorSubscribes \/ Drop \/ ChangeMode
         \/ \E f \in Flows : Disconnect(f) \/ Reconnect(f)
         \/ UNCHANGED vars
  PROVE  BrokerInv' /\ OrdersGrow({})
<1>1. CASE Gateway
  BY <1>1, GatewayKeeps DEF IInv
<1>2. CASE SubscribePositions \/ OnReconnect \/ SessionEnds
  BY <1>2, SubscriptionKeeps DEF IInv
<1>3. CASE OnDisconnect
  BY <1>3, EmptyCachesKeep DEF IInv
<1>4. CASE UNCHANGED brokerVars
  <2>1. CacheIsRight' /\ EntryIsFirst' /\ OrdersGrow({})
    BY <1>4, SameOrders DEF IInv, brokerVars
  <2>2. HeldAfterEntry'
    BY <1>4, <2>1, HeldKeeps DEF IInv, brokerVars
  <2>3. QED
    BY <1>4, <2>1, <2>2 DEF IInv, BrokerInv, BrokerTypeOK, brokerVars
<1>5. QED
  BY <1>1, <1>2, <1>3, <1>4
     DEF MonitorSubscribes, Drop, ChangeMode, Disconnect, Reconnect, vars

\* They change no record.
LEMMA BrokerSteps ==
  ASSUME IInv,
         \/ Gateway \/ MonitorSubscribes \/ Drop \/ ChangeMode
         \/ \E f \in Flows : Disconnect(f) \/ Reconnect(f)
         \/ UNCHANGED vars
  PROVE  IInv'
<1>1. GateTypeOK'
  <2>1. GateNext \/ UNCHANGED gateVars
    BY DEF Gateway, MonitorSubscribes, Drop, ChangeMode, Disconnect, Reconnect, GateNext, FlowStep, vars
  <2>2. QED
    BY <2>1, GateType DEF IInv, TypeOK
<1>2. BrokerInv' /\ OrdersGrow({})
  BY BrokerGrows
<1>3. UNCHANGED <<stage, mem, db, at, target, todo, restarted>>
  BY DEF Gateway, MonitorSubscribes, Drop, ChangeMode, Disconnect, Reconnect, vars, managedVars
<1>4. faults' \in Nat
  <2>1. faults \in Nat
    BY DEF IInv, TypeOK, ManagedTypeOK
  <2>2. QED
    BY <2>1 DEF Gateway, MonitorSubscribes, Drop, ChangeMode, Disconnect, Reconnect, Fault,
                vars, managedVars
<1>5. ManagedTypeOK' /\ ManagedInv'
  BY <1>2, <1>3, <1>4, ManagedKept DEF IInv, TypeOK
<1>6. QED
  BY <1>1, <1>2, <1>5 DEF IInv, TypeOK, BrokerInv

\* An action that leaves the gate alone.
LEMMA GateSame ==
  ASSUME IInv, UNCHANGED gateVars
  PROVE  GateTypeOK'
BY GateType DEF IInv, TypeOK

\* The part of a request or of the monitor that touches no broker state.
LEMMA BrokerSame ==
  ASSUME IInv, UNCHANGED brokerVars
  PROVE  BrokerInv' /\ \A S : OrdersGrow(S)
<1>1. CacheIsRight' /\ EntryIsFirst' /\ OrdersGrow({})
  BY SameOrders DEF IInv, brokerVars
<1>2. HeldAfterEntry'
  BY <1>1, HeldKeeps DEF IInv, brokerVars
<1>3. QED
  BY <1>1, <1>2 DEF IInv, BrokerInv, BrokerTypeOK, brokerVars, OrdersGrow

\* Changes of one field keep the type of a record.
LEMMA RecordType ==
  ASSUME NEW r \in Record
  PROVE  /\ \A s \in {"none", "PENDING"} \union Held \union Ended :
              [r EXCEPT !.status = s] \in Record
         /\ \A n \in Int : [r EXCEPT !.remaining = n] \in Record
         /\ \A P \in SUBSET (Nat \ {0}) : [r EXCEPT !.partials = P] \in Record
BY DEF Record

\* What the invariant says of a position and its two records.
LEMMA Known ==
  ASSUME IInv, NEW p \in Positions
  PROVE  /\ mem[p] \in Record /\ db[p] \in Record
         /\ orders[p] \in Seq(Order)
         /\ Justified(mem[p], orders[p]) /\ Justified(db[p], orders[p])
         /\ stage[p] = "new" <=> orders[p] = <<>>
         /\ mem[p].status # "none" => orders[p] # <<>>
         /\ mem[p].status \in Held => EntryFilled(p)
BY DEF IInv, TypeOK, ManagedTypeOK, BrokerTypeOK, ManagedInv, RecordsAreJustified, Justified,
       EntryFilled

\* What a request sends: an entry, then a bracket whose children wait for it.
LEMMA EntryGroup ==
  ASSUME NEW p \in Positions, PlaceEntry(p)
  PROVE  \E new : /\ Send(p, new) /\ Fresh(new)
                  /\ \A k \in DOMAIN new :
                       /\ new[k].kind \in {"entry", "tp", "sl"} /\ new[k].qty = Quantity
                       /\ new[k].state \in Open
                       /\ k = Entry => new[k].kind = "entry"
                       /\ k # Entry => new[k].state = "held" /\ new[k].kind \in {"tp", "sl"}
<1>1. PICK side \in Sides, partial \in PartialExits, stop \in StopLegs :
        Send(p, <<[kind |-> "entry", qty |-> Quantity, state |-> "working", cached |-> "none"]>>
                  \o [k \in DOMAIN Legs(stop) |->
                       [kind |-> Legs(stop)[k], qty |-> Quantity, state |-> "held", cached |-> "none"]])
  BY DEF PlaceEntry
<1> DEFINE legs == Legs(stop)
           first == [kind |-> "entry", qty |-> Quantity, state |-> "working", cached |-> "none"]
           leg(k) == [kind |-> legs[k], qty |-> Quantity, state |-> "held", cached |-> "none"]
           rest == [k \in DOMAIN legs |-> leg(k)]
           new == <<first>> \o rest
<1>0. legs \in {<<"tp">>, <<"tp", "sl">>}
  BY DEF Legs
<1> HIDE DEF legs
<1>2. first \in Order /\ \A k \in DOMAIN legs : leg(k) \in Order
  BY <1>0, QuantityAssumption DEF Order, Kinds, OrderStates, Open
<1>3. rest \in Seq(Order) /\ Len(rest) = Len(legs) /\ DOMAIN rest = DOMAIN legs
      /\ \A k \in DOMAIN legs : rest[k] = leg(k)
  <2>1. legs \in Seq({"tp", "sl"}) /\ rest \in [DOMAIN legs -> Order]
    BY <1>0, <1>2
  <2>2. QED
    BY <2>1, SameDomain
<1>4. /\ first.state = "working" /\ first.cached = "none"
      /\ first.kind = "entry" /\ first.qty = Quantity
      /\ \A k \in DOMAIN legs :
           /\ leg(k).state = "held" /\ leg(k).cached = "none"
           /\ leg(k).kind \in {"tp", "sl"} /\ leg(k).qty = Quantity
  BY <1>0
<1> HIDE DEF first, leg, rest
<1>5. /\ new \in Seq(Order) /\ new # <<>> /\ DOMAIN new = 1 .. 1 + Len(rest)
      /\ new[Entry] = first
      /\ \A k \in DOMAIN new : k # Entry => k - 1 \in DOMAIN legs /\ new[k] = rest[k - 1]
  <2>1. Len(rest) \in Nat /\ DOMAIN rest = 1 .. Len(rest)
    BY <1>3, LenProperties
  <2>2. <<first>> \in Seq(Order) /\ Len(<<first>>) = 1 /\ <<first>>[1] = first
    BY <1>2
  <2>3. QED
    BY <1>3, <2>1, <2>2 DEF Entry
<1> HIDE DEF new
<1>6. Fresh(new)
  BY <1>3, <1>4, <1>5 DEF Fresh, Open
<1>7. \A k \in DOMAIN new :
        /\ new[k].kind \in {"entry", "tp", "sl"} /\ new[k].qty = Quantity
        /\ new[k].state \in Open
        /\ k = Entry => new[k].kind = "entry"
        /\ k # Entry => new[k].state = "held" /\ new[k].kind \in {"tp", "sl"}
  BY <1>3, <1>4, <1>5 DEF Open
<1>8. Send(p, new)
  BY <1>1 DEF legs, first, leg, rest, new
<1> QED
  BY <1>6, <1>7, <1>8

\* A request sends a bracket whose children wait for the entry.
LEMMA PlaceEntryKeeps ==
  ASSUME IInv, NEW p \in Positions, PlaceEntry(p)
  PROVE  IInv'
<1>1. PICK side \in Sides, partial \in PartialExits :
        mem' = [mem EXCEPT ![p] =
          [status |-> "PENDING", side |-> side, remaining |-> Quantity,
           partials |-> {}, partialExit |-> partial]]
  BY DEF PlaceEntry
<1>2. orders[p] = <<>>
  BY Known DEF PlaceEntry
<1>3. PICK new : /\ Send(p, new) /\ Fresh(new)
                 /\ \A k \in DOMAIN new : k # Entry => new[k].state = "held"
  BY EntryGroup
<1>9. BrokerInv' /\ OrdersGrow({p})
  BY <1>2, <1>3, SendKeeps DEF PlaceEntry, IInv
<1>10. orders'[p] # <<>>
  BY <1>3, SendEffect DEF IInv, TypeOK
<1>11. mem' \in [Positions -> Record] /\ (\A q \in Positions \ {p} : mem'[q] = mem[q])
       /\ mem'[p].status = "PENDING" /\ mem'[p].partials = {}
  <2>1. [status |-> "PENDING", side |-> side, remaining |-> Quantity,
         partials |-> {}, partialExit |-> partial] \in Record
    BY QuantityAssumption, RequestAssumption DEF Record
  <2>2. QED
    BY <1>1, <2>1 DEF IInv, TypeOK, ManagedTypeOK
<1>12. UNCHANGED <<gateVars, db, at, target, todo, restarted, faults>>
       /\ stage' = [stage EXCEPT ![p] = "sent"]
  BY DEF PlaceEntry
<1>13. ManagedTypeOK'
  BY <1>11, <1>12 DEF IInv, TypeOK, ManagedTypeOK
<1>14. ASSUME NEW q \in Positions
       PROVE  /\ stage'[q] = "new" <=> orders'[q] = <<>>
              /\ Justified(mem'[q], orders'[q])
              /\ Justified(db'[q], orders'[q])
  <2>1. Justified(mem[q], orders'[q]) /\ Justified(db[q], orders'[q])
    BY <1>9, Known, JustifiedGrows
  <2>2. CASE q = p
    <3>1. Justified(mem'[p], orders'[p])
      <4>1. mem'[p].status \notin Held /\ mem'[p].partials \subseteq DOMAIN orders'[p]
        BY <1>11 DEF Held
      <4>2. QED
        BY <1>10, <4>1 DEF Justified
    <3>2. stage'[p] # "new"
      BY <1>12 DEF IInv, TypeOK, ManagedTypeOK
    <3>3. QED
      BY <1>10, <1>12, <2>1, <2>2, <3>1, <3>2
  <2>3. CASE q # p
    <3>1. stage'[q] = stage[q] /\ mem'[q] = mem[q] /\ db'[q] = db[q]
      BY <1>11, <1>12, <2>3 DEF IInv, TypeOK, ManagedTypeOK
    <3>2. (stage[q] = "new" <=> orders[q] = <<>>) /\ (orders[q] = <<>> <=> orders'[q] = <<>>)
      BY <1>9, <2>3, Known DEF OrdersGrow
    <3>3. QED
      BY <2>1, <3>1, <3>2
  <2>4. QED
    BY <2>2, <2>3
<1>15. RecordsAreJustified'
  BY <1>14 DEF RecordsAreJustified
<1>16. \A q \in Positions : /\ orders[q] # <<>> => orders'[q] # <<>>
                            /\ EntryFilled(q) => EntryFilled(q)'
  BY <1>9 DEF OrdersGrow
<1>17. WorkWasSent'
  BY <1>12, <1>16 DEF IInv, ManagedInv, WorkWasSent
<1>18. ASSUME at[Monitor] = "partial"
       PROVE  EntryFilled(target[Monitor])'
  <2>1. EntryFilled(target[Monitor]) /\ target[Monitor] \in Positions
    BY <1>18 DEF IInv, ManagedInv, PartialAfterEntry, WorkWasSent, Actors
  <2>2. QED
    BY <1>12, <1>16, <2>1 DEF EntryFilled
<1>19. PartialAfterEntry'
  BY <1>12, <1>18 DEF PartialAfterEntry, EntryFilled
<1>20. GateTypeOK'
  BY <1>12, GateSame
<1>21. QED
  BY <1>9, <1>13, <1>15, <1>17, <1>19, <1>20 DEF IInv, TypeOK, BrokerInv, ManagedInv

\* The end of the request: the position enters the map, then the database.
LEMMA StoreKeeps ==
  ASSUME IInv, NEW p \in Positions, StorePosition(p) \/ SavePosition(p)
  PROVE  IInv'
<1>1. UNCHANGED <<gateVars, brokerVars, mem, at, target, todo, restarted, faults>>
      /\ UNCHANGED orders
  BY DEF StorePosition, SavePosition, brokerVars
<1>2. GateTypeOK' /\ BrokerInv'
  BY <1>1, GateSame, BrokerSame
<1>3. PICK l \in {"stored", "saved"} : stage' = [stage EXCEPT ![p] = l]
  BY DEF StorePosition, SavePosition
<1>4. stage \in [Positions -> {"new", "sent", "stored", "saved", "gone"}]
      /\ db \in [Positions -> Record] /\ mem[p] \in Record /\ db[p] \in Record
  BY DEF IInv, TypeOK, ManagedTypeOK
<1>5. /\ db' \in [Positions -> Record]
      /\ \A q \in Positions : db'[q] \in {db[q], mem[q]}
  BY <1>4 DEF StorePosition, SavePosition, RowAfterSave
<1>6. ManagedTypeOK'
  BY <1>1, <1>3, <1>4, <1>5 DEF IInv, TypeOK, ManagedTypeOK
<1>7. stage[p] # "new" /\ stage'[p] # "new" /\ \A q \in Positions \ {p} : stage'[q] = stage[q]
  BY <1>3, <1>4 DEF StorePosition, SavePosition
<1>8. RecordsAreJustified'
  <2>1. ASSUME NEW q \in Positions
        PROVE  /\ stage'[q] = "new" <=> orders[q] = <<>>
               /\ Justified(mem[q], orders[q])
               /\ Justified(db'[q], orders[q])
    BY <1>5, <1>7, Known
  <2>2. QED
    BY <1>1, <2>1 DEF RecordsAreJustified
<1>9. WorkWasSent' /\ PartialAfterEntry'
  BY <1>1 DEF IInv, ManagedInv, WorkWasSent, PartialAfterEntry, EntryFilled
<1>10. QED
  BY <1>2, <1>6, <1>8, <1>9 DEF IInv, TypeOK, BrokerInv, ManagedInv

\* What an actor at work knows of its position.
LEMMA AtWork ==
  ASSUME IInv, NEW a \in Actors, at[a] # "idle"
  PROVE  target[a] \in Positions /\ orders[target[a]] # <<>>
BY DEF IInv, ManagedInv, WorkWasSent

\* A step of an actor that leaves gate, broker, database and snapshot alone.
LEMMA QuietStep ==
  ASSUME IInv, NEW a \in Actors, NEW p \in Positions, orders[p] # <<>>,
         UNCHANGED <<gateVars, brokerVars, stage, db, restarted, faults>>,
         todo' \subseteq Positions,
         mem' \in [Positions -> Record], \A q \in Positions \ {p} : mem'[q] = mem[q],
         Justified(mem'[p], orders[p]),
         NEW l \in {"idle"} \union CloseSteps \union MonitorSteps, Goto(a, l),
         \/ target' = [target EXCEPT ![a] = p]
         \/ target' = [target EXCEPT ![a] = NoPosition] /\ l = "idle"
         \/ UNCHANGED target /\ target[a] = p,
         l = "partial" => EntryFilled(p)
  PROVE  IInv'
<1>1. GateTypeOK' /\ BrokerInv' /\ OrdersGrow({p})
  BY GateSame, BrokerSame
<1>2. UNCHANGED orders
  BY DEF brokerVars
<1>3. target \in [Actors -> Positions \union {NoPosition}] /\ db \in [Positions -> Record]
  BY DEF IInv, TypeOK, ManagedTypeOK
<1>4. /\ target' \in [Actors -> Positions \union {NoPosition}]
      /\ \A b \in Actors \ {a} : target'[b] = target[b]
      /\ l # "idle" => target'[a] = p
  BY <1>3
<1>5. Justified(mem'[p], orders'[p]) /\ Justified(db'[p], orders'[p])
  BY <1>2, Known
<1>6. l = "partial" => EntryFilled(p)'
  BY <1>2 DEF EntryFilled
<1>7. ManagedTypeOK' /\ ManagedInv'
  BY <1>1, <1>3, <1>4, <1>5, <1>6, ActorStep DEF IInv, TypeOK
<1>8. QED
  BY <1>1, <1>7 DEF IInv, TypeOK, BrokerInv

\* A close request takes a position of the map.
LEMMA HandleCloseKeeps ==
  ASSUME IInv, NEW c \in Closers, NEW p \in Positions, HandleClose(c, p)
  PROVE  IInv'
<1>1. orders[p] # <<>> /\ Justified(mem[p], orders[p])
  BY Known DEF HandleClose, InMap
<1>2. mem' \in [Positions -> Record] /\ mem' = mem /\ todo' \subseteq Positions
  BY DEF HandleClose, IInv, TypeOK, ManagedTypeOK
<1>3. QED
  BY <1>1, <1>2, QuietStep DEF HandleClose, Actors, CloseSteps

\* HandlerPanic abandons the work.
LEMMA HandlerPanicKeeps ==
  ASSUME IInv, NEW c \in Closers, HandlerPanic(c)
  PROVE  IInv'
<1>1. target[c] \in Positions /\ orders[target[c]] # <<>> /\ c \in Actors
  BY AtWork DEF HandlerPanic, Actors
<1>2. mem' \in [Positions -> Record] /\ mem' = mem /\ todo' \subseteq Positions
  BY DEF HandlerPanic, IInv, TypeOK, ManagedTypeOK
<1>3. Justified(mem[target[c]], orders[target[c]])
  BY <1>1, Known
<1>4. QED
  BY <1>1, <1>2, <1>3, QuietStep DEF HandlerPanic

\* CloseManagedPosition marks the position as closed.
LEMMA MarkClosedKeeps ==
  ASSUME IInv, NEW a \in Actors, MarkClosed(a)
  PROVE  IInv'
<1> DEFINE p == target[a]
<1>1. p \in Positions /\ orders[p] # <<>>
  BY AtWork DEF MarkClosed
<1>2. mem' = [mem EXCEPT ![p] = [mem[p] EXCEPT !.status = "CLOSED"]]
  BY DEF MarkClosed, SetStatus
<1>3. mem \in [Positions -> Record] /\ todo \subseteq Positions
  BY DEF IInv, TypeOK, ManagedTypeOK
<1>4. [mem[p] EXCEPT !.status = "CLOSED"] \in Record
  BY <1>1, Known, RecordType DEF Ended
<1>5. /\ mem' \in [Positions -> Record]
      /\ \A q \in Positions \ {p} : mem'[q] = mem[q]
      /\ mem'[p] = [mem[p] EXCEPT !.status = "CLOSED"]
  BY <1>1, <1>2, <1>3, <1>4
<1>6. Justified(mem'[p], orders[p])
  <2>1. mem'[p].status = "CLOSED" /\ mem'[p].partials = mem[p].partials
    BY <1>1, <1>5, Known DEF Record
  <2>2. QED
    BY <1>1, <2>1, Known DEF Justified, Held
<1>7. UNCHANGED <<gateVars, brokerVars, stage, db, target, todo, restarted, faults>>
      /\ Goto(a, "save")
  BY DEF MarkClosed
<1> HIDE DEF p
<1>8. QED
  BY <1>1, <1>3, <1>5, <1>6, <1>7, QuietStep DEF CloseSteps, p

\* An actor saves its position and is done.
LEMMA SaveKeeps ==
  ASSUME IInv, NEW a \in Actors, Save(a)
  PROVE  IInv'
<1> DEFINE p == target[a]
<1>1. p \in Positions /\ orders[p] # <<>>
  BY AtWork DEF Save
<1>2. UNCHANGED <<gateVars, brokerVars, stage, mem, todo, restarted, faults>> /\ UNCHANGED orders
  BY DEF Save, brokerVars
<1>3. GateTypeOK' /\ BrokerInv' /\ OrdersGrow({p})
  BY <1>2, GateSame, BrokerSame
<1>4. /\ mem \in [Positions -> Record] /\ db \in [Positions -> Record]
      /\ todo \subseteq Positions /\ target \in [Actors -> Positions \union {NoPosition}]
  BY DEF IInv, TypeOK, ManagedTypeOK
<1>5. RowAfterSave(p) \in {mem[p], db[p]}
  BY DEF RowAfterSave
<1>6. /\ db' \in [Positions -> Record]
      /\ \A q \in Positions \ {p} : db'[q] = db[q]
      /\ db'[p] \in {mem[p], db[p]}
  BY <1>1, <1>4, <1>5 DEF Save
<1>7. /\ target' \in [Actors -> Positions \union {NoPosition}]
      /\ \A b \in Actors \ {a} : target'[b] = target[b]
      /\ Goto(a, "idle")
  BY <1>4 DEF Save
<1>8. Justified(mem'[p], orders'[p]) /\ Justified(db'[p], orders'[p])
  BY <1>1, <1>2, <1>6, Known
<1> HIDE DEF p
<1>9. ManagedTypeOK' /\ ManagedInv'
  BY <1>1, <1>2, <1>3, <1>4, <1>6, <1>7, <1>8, ActorStep DEF IInv, TypeOK
<1>10. QED
  BY <1>3, <1>9 DEF IInv, TypeOK, BrokerInv

\* A step of an actor that sends or cancels orders and changes no record.
LEMMA OrderStep ==
  ASSUME IInv, NEW a \in Actors, NEW p \in Positions, target[a] = p, orders[p] # <<>>,
         BrokerInv', OrdersGrow({p}),
         UNCHANGED <<gateVars, stage, db, target, todo, restarted, faults>>,
         mem' \in [Positions -> Record], \A q \in Positions \ {p} : mem'[q] = mem[q],
         Justified(mem'[p], orders'[p]),
         NEW l \in CloseSteps, Goto(a, l)
  PROVE  IInv'
<1>1. GateTypeOK'
  BY GateSame
<1>2. /\ db \in [Positions -> Record]
      /\ todo \subseteq Positions /\ target \in [Actors -> Positions \union {NoPosition}]
  BY DEF IInv, TypeOK, ManagedTypeOK
<1>3. Justified(db'[p], orders'[p])
  BY Known, JustifiedGrows
<1>4. l # "partial" /\ l # "idle"
  BY DEF CloseSteps
<1>5. ManagedTypeOK' /\ ManagedInv'
  BY <1>2, <1>3, <1>4, ActorStep DEF IInv, TypeOK
<1>6. QED
  BY <1>1, <1>5 DEF IInv, TypeOK, BrokerInv

\* CloseManagedPosition cancels what is open.
LEMMA CancelOrdersKeeps ==
  ASSUME IInv, NEW a \in Actors, CancelOrders(a)
  PROVE  IInv'
<1> DEFINE p == target[a]
           ks == {Entry} \union Bracket(p) \union mem[p].partials
<1>1. p \in Positions /\ orders[p] # <<>>
  BY AtWork DEF CancelOrders
<1>2. BrokerInv' /\ OrdersGrow({})
  <2>1. Cancel(p, ks) /\ UNCHANGED <<holding, posCache, subscribed, feed>>
    BY DEF CancelOrders
  <2> HIDE DEF ks
  <2>2. QED
    BY <1>1, <2>1, CancelKeeps DEF IInv
<1>3. OrdersGrow({p})
  BY <1>2 DEF OrdersGrow
<1>4. mem' = mem /\ mem' \in [Positions -> Record]
  BY DEF CancelOrders, IInv, TypeOK, ManagedTypeOK
<1>5. Justified(mem'[p], orders'[p])
  BY <1>1, <1>3, <1>4, Known, JustifiedGrows
<1>6. UNCHANGED <<gateVars, stage, db, target, todo, restarted, faults>> /\ Goto(a, "exit")
  BY DEF CancelOrders
<1> HIDE DEF p
<1>7. QED
  BY <1>1, <1>2, <1>3, <1>4, <1>5, <1>6, OrderStep DEF CloseSteps, p

\* CloseManagedPosition exits only what was active.
LEMMA ExitAtMarketKeeps ==
  ASSUME IInv, NEW a \in Actors, ExitAtMarket(a)
  PROVE  IInv'
<1> DEFINE p == target[a]
           exit(state) == [kind |-> "exit", qty |-> mem[p].remaining,
                           state |-> state, cached |-> "none"]
<1>1. p \in Positions /\ orders[p] # <<>>
  BY AtWork DEF ExitAtMarket
<1>2. BrokerInv' /\ OrdersGrow({p})
  <2>1. CASE UNCHANGED orders
    <3>1. UNCHANGED brokerVars
      BY <2>1 DEF ExitAtMarket, brokerVars
    <3>2. QED
      BY <3>1, BrokerSame
  <2>2. ASSUME NeedsExit(p), NEW state \in {"working", "refused"}, Send(p, <<exit(state)>>)
        PROVE  BrokerInv' /\ OrdersGrow({p})
    <3>1. mem[p].remaining \in Nat /\ EntryFilled(p)
      BY <1>1, <2>2, Known DEF NeedsExit, Record
    <3> DEFINE o == exit(state)
    <3>2. o \in Order /\ o.state \in {"working", "refused"} /\ o.cached = "none"
      BY <3>1 DEF Order, Kinds, OrderStates, Open
    <3>5. Send(p, <<o>>)
      BY <2>2
    <3> HIDE DEF o
    <3>3. Fresh(<<o>>)
      BY <3>2 DEF Fresh, Open
    <3>4. QED
      BY <1>1, <3>1, <3>3, <3>5, SendKeeps DEF ExitAtMarket, IInv
  <2>3. QED
    BY <2>1, <2>2 DEF ExitAtMarket
<1>3. mem' = mem /\ mem' \in [Positions -> Record]
  BY DEF ExitAtMarket, IInv, TypeOK, ManagedTypeOK
<1>4. Justified(mem'[p], orders'[p])
  BY <1>1, <1>2, <1>3, Known, JustifiedGrows
<1>5. UNCHANGED <<gateVars, stage, db, target, todo, restarted, faults>> /\ Goto(a, "mark")
  BY DEF ExitAtMarket
<1> HIDE DEF p
<1>6. QED
  BY <1>1, <1>2, <1>3, <1>4, <1>5, OrderStep DEF CloseSteps, p

-----------------------------------------------------------------------------
(* The monitor *)

\* A tick takes a snapshot of the map.
LEMMA TickKeeps ==
  ASSUME IInv, Tick
  PROVE  IInv'
<1>1. UNCHANGED <<gateVars, brokerVars, stage, mem, db, at, target, restarted, faults>>
      /\ UNCHANGED orders /\ todo' \subseteq Positions
  BY DEF Tick, brokerVars
<1>2. GateTypeOK' /\ BrokerInv'
  BY <1>1, GateSame, BrokerSame
<1>3. ManagedTypeOK'
  BY <1>1 DEF IInv, TypeOK, ManagedTypeOK
<1>4. ManagedInv'
  BY <1>1 DEF IInv, ManagedInv, RecordsAreJustified, WorkWasSent, PartialAfterEntry, EntryFilled
<1>5. QED
  BY <1>2, <1>3, <1>4 DEF IInv, TypeOK, BrokerInv

\* The monitor takes up pending and active positions, which have orders.
LEMMA LookKeeps ==
  ASSUME IInv, NEW p \in todo, Look(p)
  PROVE  IInv'
<1>1. p \in Positions /\ todo' \subseteq Positions /\ mem' = mem /\ mem' \in [Positions -> Record]
      /\ at \in [Actors -> {"idle"} \union CloseSteps \union MonitorSteps]
  BY DEF Look, IInv, TypeOK, ManagedTypeOK
<1>2. UNCHANGED <<gateVars, brokerVars, stage, mem, db, restarted, faults>>
  BY DEF Look
<1>3. CASE mem[p].status \in {"PENDING", "ACTIVE"}
  <2>1. orders[p] # <<>> /\ Justified(mem'[p], orders[p])
    BY <1>1, <1>3, Known
  <2>2. PICK l \in {"entry", "risk"} : Goto(Monitor, l)
    BY <1>3 DEF Look
  <2>3. target' = [target EXCEPT ![Monitor] = p]
    BY <1>3 DEF Look
  <2>4. Monitor \in Actors /\ l \in MonitorSteps /\ l # "partial"
    BY <2>2 DEF Actors, MonitorSteps
  <2>5. QED
    BY <1>1, <1>2, <2>1, <2>2, <2>3, <2>4, QuietStep
<1>4. CASE mem[p].status \notin {"PENDING", "ACTIVE"}
  <2>1. UNCHANGED <<at, target, orders>>
    BY <1>2, <1>4 DEF Look, brokerVars
  <2>2. GateTypeOK' /\ BrokerInv'
    BY <1>2, GateSame, BrokerSame
  <2>3. ManagedTypeOK'
    BY <1>1, <1>2, <2>1 DEF IInv, TypeOK, ManagedTypeOK
  <2>4. ManagedInv'
    BY <1>2, <2>1
       DEF IInv, ManagedInv, RecordsAreJustified, WorkWasSent, PartialAfterEntry, EntryFilled
  <2>5. QED
    BY <2>2, <2>3, <2>4 DEF IInv, TypeOK, BrokerInv
<1>5. QED
  BY <1>3, <1>4

\* A check of the monitor ends with a record that the orders justify.
LEMMA CheckStep ==
  ASSUME IInv, NEW p \in Positions, target[Monitor] = p, at[Monitor] # "idle",
         UNCHANGED <<gateVars, brokerVars, stage, db, todo, restarted, faults>>,
         NEW r \in Record, mem' = [mem EXCEPT ![p] = r],
         r.status \in Held => EntryFilled(p), r.partials = mem[p].partials,
         \/ Leave
         \/ \E l \in CloseSteps \union MonitorSteps :
              Goto(Monitor, l) /\ Stay /\ (l = "partial" => EntryFilled(p))
  PROVE  IInv'
<1>1. orders[p] # <<>> /\ Monitor \in Actors
  BY AtWork DEF Actors
<1>2. /\ mem' \in [Positions -> Record] /\ todo' \subseteq Positions
      /\ \A q \in Positions \ {p} : mem'[q] = mem[q]
      /\ mem'[p] = r
  BY DEF IInv, TypeOK, ManagedTypeOK
<1>3. Justified(mem'[p], orders[p])
  BY <1>1, <1>2, Known DEF Justified, EntryFilled
<1>4. CASE Leave
  <2>1. Goto(Monitor, "idle") /\ target' = [target EXCEPT ![Monitor] = NoPosition]
    BY <1>4 DEF Leave
  <2>2. QED
    BY <1>1, <1>2, <1>3, <2>1, QuietStep
<1>5. CASE \E l \in CloseSteps \union MonitorSteps :
             Goto(Monitor, l) /\ Stay /\ (l = "partial" => EntryFilled(p))
  <2>1. PICK l \in CloseSteps \union MonitorSteps :
          Goto(Monitor, l) /\ UNCHANGED target /\ (l = "partial" => EntryFilled(p))
    BY <1>5 DEF Stay
  <2>2. QED
    BY <1>1, <1>2, <1>3, <2>1, QuietStep
<1>6. QED
  BY <1>4, <1>5

\* A check that changes no record.
LEMMA LookStep ==
  ASSUME IInv, NEW p \in Positions, target[Monitor] = p, at[Monitor] # "idle",
         UNCHANGED <<gateVars, brokerVars, stage, mem, db, todo, restarted, faults>>,
         \/ Leave
         \/ \E l \in (CloseSteps \union MonitorSteps) \ {"partial"} : Goto(Monitor, l) /\ Stay
  PROVE  IInv'
<1>1. mem \in [Positions -> Record] /\ mem[p] \in Record
  BY DEF IInv, TypeOK, ManagedTypeOK
<1>2. mem' = [mem EXCEPT ![p] = mem[p]] /\ (mem[p].status \in Held => EntryFilled(p))
  BY <1>1, Known
<1>3. QED
  BY <1>1, <1>2, CheckStep

\* The entry filled: checkEntryOrder makes the position active.
LEMMA ActivateKeeps ==
  ASSUME IInv, NEW p \in Positions, target[Monitor] = p, at[Monitor] # "idle",
         UNCHANGED <<gateVars, brokerVars, stage, db, todo, restarted, faults>>,
         EntryFilled(p), Activate(p)
  PROVE  IInv'
<1>1. mem[p] \in Record /\ [mem[p] EXCEPT !.status = "ACTIVE"] \in Record
  BY Known, RecordType DEF Held
<1>2. mem' = [mem EXCEPT ![p] = [mem[p] EXCEPT !.status = "ACTIVE"]]
  BY DEF Activate, SetStatus
<1>3. [mem[p] EXCEPT !.status = "ACTIVE"].partials = mem[p].partials
  BY <1>1 DEF Record
<1>4. \E l \in CloseSteps \union MonitorSteps : Goto(Monitor, l) /\ Stay
  BY DEF Activate, CloseSteps, MonitorSteps
<1>5. QED
  BY <1>1, <1>2, <1>3, <1>4, CheckStep

\* checkEntryOrder activates a position whose entry order is found filled, and
\* turns to the account only when the order is not found.
LEMMA EntryOutcomes ==
  ASSUME NEW p, CheckEntryOrder(p)
  PROVE  \E listed \in Listings :
           \/ GetOrder(p, Entry, listed) = "filled" /\ Activate(p)
           \/ GetOrder(p, Entry, listed) = "none" /\ Goto(Monitor, "lost") /\ Stay /\ UNCHANGED mem
           \/ Leave /\ UNCHANGED mem
<1>1. PICK listed \in Listings :
        LET s == GetOrder(p, Entry, listed) IN
        CASE s = "filled" -> Activate(p)
          [] s = "none"   -> Goto(Monitor, "lost") /\ Stay /\ UNCHANGED mem
          [] OTHER        -> Leave /\ UNCHANGED mem
  BY DEF CheckEntryOrder
<1>2. CASE GetOrder(p, Entry, listed) = "filled"
  BY <1>1, <1>2
<1>3. CASE GetOrder(p, Entry, listed) = "none"
  BY <1>1, <1>3
<1>4. CASE GetOrder(p, Entry, listed) \notin {"filled", "none"}
  BY <1>1, <1>4
<1> QED
  BY <1>2, <1>3, <1>4

\* checkEntryOrder activates a position when the cache calls its entry filled.
LEMMA CheckEntryOrderKeeps ==
  ASSUME IInv, NEW p \in {target[Monitor]} \ {NoPosition}, CheckEntryOrder(p)
  PROVE  IInv'
<1>1. p \in Positions /\ orders[p] # <<>> /\ target[Monitor] = p /\ at[Monitor] # "idle"
      /\ UNCHANGED <<gateVars, brokerVars, stage, db, todo, restarted, faults>>
  BY AtWork DEF CheckEntryOrder, Here, Actors
<1>2. Entry \in DOMAIN orders[p]
  BY <1>1, Known, LenProperties, EmptySeq DEF Entry
<1>3. ASSUME NEW listed \in Listings, GetOrder(p, Entry, listed) = "filled", Activate(p)
      PROVE  IInv'
  <2>1. EntryFilled(p)
    BY <1>1, <1>2, <1>3 DEF GetOrder, Open, EntryFilled, IInv, BrokerInv, CacheIsRight
  <2>2. QED
    BY <1>1, <1>3, <2>1, ActivateKeeps
<1>4. CASE Goto(Monitor, "lost") /\ Stay /\ UNCHANGED mem
  BY <1>1, <1>4, LookStep DEF MonitorSteps
<1>5. CASE Leave /\ UNCHANGED mem
  BY <1>1, <1>5, LookStep
<1>6. QED
  BY <1>3, <1>4, <1>5, EntryOutcomes

\* The fallback activates a position when posCache has a quantity of it.
LEMMA CheckBrokerPositionKeeps ==
  ASSUME IInv, NEW p \in {target[Monitor]} \ {NoPosition}, CheckBrokerPosition(p)
  PROVE  IInv'
<1>1. p \in Positions /\ target[Monitor] = p /\ at[Monitor] # "idle"
      /\ UNCHANGED <<gateVars, brokerVars, stage, db, todo, restarted, faults>>
  BY AtWork DEF CheckBrokerPosition, Here, Actors
<1>2. CASE Matches(p)
  <2>1. EntryFilled(p)
    BY <1>1, <1>2 DEF Matches, IInv, BrokerInv, HeldAfterEntry
  <2>2. QED
    BY <1>1, <1>2, <2>1, ActivateKeeps DEF CheckBrokerPosition
<1>3. CASE ~Matches(p)
  <2>1. mem' = [mem EXCEPT ![p] = [mem[p] EXCEPT !.status = "CLOSED"]]
        /\ Goto(Monitor, "save") /\ Stay
    BY <1>3 DEF CheckBrokerPosition, SetStatus
  <2>2. mem[p] \in Record /\ [mem[p] EXCEPT !.status = "CLOSED"] \in Record
    BY <1>1, Known, RecordType DEF Ended
  <2>3. [mem[p] EXCEPT !.status = "CLOSED"].partials = mem[p].partials
        /\ [mem[p] EXCEPT !.status = "CLOSED"].status \notin Held
    BY <2>2 DEF Record, Held
  <2>4. \E l \in CloseSteps \union MonitorSteps :
          Goto(Monitor, l) /\ Stay /\ (l = "partial" => EntryFilled(p))
    BY <2>1 DEF CloseSteps
  <2>5. QED
    BY <1>1, <2>1, <2>2, <2>3, <2>4, CheckStep
<1>4. QED
  BY <1>2, <1>3

\* The partial exit is sent after the entry filled, and recorded.
LEMMA PlacePartialExitKeeps ==
  ASSUME IInv, NEW p \in {target[Monitor]} \ {NoPosition}, PlacePartialExit(p)
  PROVE  IInv'
<1> DEFINE exit == [kind |-> "partial", qty |-> PartialQty,
                    state |-> "working", cached |-> "none"]
           k == Len(orders[p]) + 1
<1>1. p \in Positions /\ orders[p] # <<>> /\ target[Monitor] = p /\ Monitor \in Actors
  BY AtWork DEF PlacePartialExit, Here, Actors
<1>2. EntryFilled(p)
  BY <1>1 DEF PlacePartialExit, Here, IInv, ManagedInv, PartialAfterEntry
<1>3. UNCHANGED <<gateVars, holding, posCache, subscribed, feed, stage, db, target, todo,
                  restarted, faults>> /\ Goto(Monitor, "save")
  BY DEF PlacePartialExit, Stay
<1>4. mem \in [Positions -> Record] /\ mem[p] \in Record /\ Justified(mem[p], orders[p])
  BY <1>1, Known DEF IInv, TypeOK, ManagedTypeOK
<1>5. CASE UNCHANGED <<orders, mem>>
  <2>1. UNCHANGED brokerVars
    BY <1>3, <1>5 DEF brokerVars
  <2>2. BrokerInv' /\ OrdersGrow({p})
    BY <2>1, BrokerSame
  <2>3. QED
    BY <1>1, <1>3, <1>4, <1>5, <2>2, OrderStep DEF CloseSteps
<1>6. CASE Send(p, <<exit>>) /\ mem' = [mem EXCEPT ![p].partials = @ \union {k}]
  <2>1. exit \in Order /\ exit.state = "working" /\ exit.cached = "none"
    BY QuantityAssumption DEF Order, Kinds, OrderStates, Open
  <2> HIDE DEF exit
  <2>2. Fresh(<<exit>>)
    BY <2>1 DEF Fresh, Open
  <2>3. BrokerInv' /\ OrdersGrow({p})
    BY <1>1, <1>2, <1>3, <1>6, <2>2, SendKeeps DEF IInv
  <2>4. k \in DOMAIN orders'[p] /\ k \in Nat \ {0}
    <3>1. BrokerTypeOK
      BY DEF IInv, TypeOK
    <3>2. /\ Len(orders[p]) \in Nat /\ Len(<<exit>>) \in Nat \ {0}
          /\ DOMAIN orders'[p] = 1 .. Len(orders[p]) + Len(<<exit>>)
      BY <1>1, <1>6, <2>2, <3>1, SendEffect
    <3>3. QED
      BY <3>2
  <2> HIDE DEF k
  <2>5. [mem[p] EXCEPT !.partials = mem[p].partials \union {k}] \in Record
    <3>1. mem[p].partials \union {k} \in SUBSET (Nat \ {0})
      BY <1>4, <2>4 DEF Record
    <3>2. QED
      BY <1>4, <3>1, RecordType
  <2>6. /\ mem' \in [Positions -> Record]
        /\ \A q \in Positions \ {p} : mem'[q] = mem[q]
        /\ mem'[p] = [mem[p] EXCEPT !.partials = mem[p].partials \union {k}]
    BY <1>1, <1>4, <1>6, <2>5
  <2>7. mem'[p].status = mem[p].status /\ mem'[p].partials = mem[p].partials \union {k}
    BY <1>4, <2>6 DEF Record
  <2>8. Justified(mem[p], orders'[p])
    BY <1>1, <1>4, <2>3, JustifiedGrows
  <2>9. Justified(mem'[p], orders'[p])
    BY <2>4, <2>7, <2>8 DEF Justified
  <2>10. QED
    BY <1>1, <1>3, <2>3, <2>6, <2>9, OrderStep DEF CloseSteps
<1>7. QED
  BY <1>5, <1>6 DEF PlacePartialExit

\* A price check sends the monitor on or into a close.
LEMMA CheckPriceKeeps ==
  ASSUME IInv, NEW p \in {target[Monitor]} \ {NoPosition}, CheckPrice(p)
  PROVE  IInv'
<1>1. p \in Positions /\ target[Monitor] = p /\ at[Monitor] # "idle"
  BY AtWork DEF CheckPrice, Here, Actors
<1>2. \E l \in (CloseSteps \union MonitorSteps) \ {"partial"} : Goto(Monitor, l) /\ Stay
  BY DEF CheckPrice, CloseSteps, MonitorSteps
<1>3. QED
  BY <1>1, <1>2, LookStep DEF CheckPrice

\* A position that ended claims nothing of its orders.
LEMMA EndKeeps ==
  ASSUME IInv, NEW p \in Positions, target[Monitor] = p, at[Monitor] # "idle",
         UNCHANGED <<gateVars, brokerVars, stage, db, todo, restarted, faults>>,
         NEW s \in Ended, End(p, s), Goto(Monitor, "save"), Stay
  PROVE  IInv'
<1> DEFINE t == [mem[p] EXCEPT !.status = s]
           r == [t EXCEPT !.remaining = 0]
<1>1. mem[p] \in Record /\ t \in Record
  BY Known, RecordType
<1>2. mem' = [mem EXCEPT ![p] = r]
  BY DEF End
<1>3. r.partials = mem[p].partials /\ r.status \notin Held
  BY <1>1 DEF Record, Held, Ended
<1> HIDE DEF t
<1>4. r \in Record
  BY <1>1, RecordType
<1> HIDE DEF r
<1>5. \E l \in CloseSteps \union MonitorSteps :
        Goto(Monitor, l) /\ Stay /\ (l = "partial" => EntryFilled(p))
  BY DEF CloseSteps
<1>6. QED
  BY <1>2, <1>3, <1>4, <1>5, CheckStep

\* A position that posCache has lost is closed, else its orders are checked.
LEMMA CheckHoldingKeeps ==
  ASSUME IInv, NEW p \in {target[Monitor]} \ {NoPosition}, CheckHolding(p)
  PROVE  IInv'
<1>1. p \in Positions /\ target[Monitor] = p /\ at[Monitor] # "idle"
      /\ UNCHANGED <<gateVars, brokerVars, stage, db, todo, restarted, faults>> /\ Stay
  BY AtWork DEF CheckHolding, Here, Actors
<1>2. CASE posCache[p] = 0
  BY <1>1, <1>2, EndKeeps DEF CheckHolding, Ended
<1>3. CASE posCache[p] # 0
  BY <1>1, <1>3, LookStep DEF CheckHolding, MonitorSteps
<1>4. QED
  BY <1>2, <1>3

\* The partial exits of a position are finitely many.
LEMMA FinitePartials ==
  ASSUME IInv, NEW p \in Positions
  PROVE  Cardinality(FilledPartials(p)) \in Nat
<1>1. FilledPartials(p) \subseteq DOMAIN orders[p] /\ orders[p] \in Seq(Order)
  BY Known DEF Justified, FilledPartials
<1>2. DOMAIN orders[p] = 1 .. Len(orders[p]) /\ Len(orders[p]) \in Nat
  BY <1>1, LenProperties
<1>3. IsFiniteSet(1 .. Len(orders[p]))
  <2>1. 1 \in Int /\ Len(orders[p]) \in Int
    BY <1>2
  <2>2. QED
    BY <2>1, FS_Interval
<1>4. IsFiniteSet(FilledPartials(p))
  BY <1>1, <1>2, <1>3, FS_Subset
<1>5. QED
  BY <1>4, FS_CardinalityType

\* Filled children end a position, filled partial exits leave a part of it.
LEMMA CheckOrdersKeeps ==
  ASSUME IInv, NEW p \in {target[Monitor]} \ {NoPosition}, CheckOrders(p)
  PROVE  IInv'
<1>1. p \in Positions /\ target[Monitor] = p /\ at[Monitor] # "idle" /\ mem[p] \in Record
      /\ UNCHANGED <<gateVars, brokerVars, stage, db, todo, restarted, faults>>
  BY AtWork, Known DEF CheckOrders, Here, Actors
<1>2. CASE \E s \in Ended : End(p, s) /\ Goto(Monitor, "save") /\ Stay
  BY <1>1, <1>2, EndKeeps
<1>3. CASE Leave /\ UNCHANGED mem
  BY <1>1, <1>3, LookStep
<1>4. CASE /\ FilledPartials(p) # {}
           /\ mem' = [mem EXCEPT ![p].status = "PARTIAL",
                ![p].remaining = @ - PartialQty * Cardinality(FilledPartials(p))]
           /\ Goto(Monitor, "save")
           /\ Stay
  <2>1. PICK k \in FilledPartials(p) : TRUE
    BY <1>4
  <2>2. k \in DOMAIN orders[p] /\ GetOrder(p, k, TRUE) = "filled"
    BY <1>1, <2>1, Known DEF FilledPartials, Justified
  <2>3. orders[p][k].state = "filled" /\ orders[p] # <<>>
    <3>1. orders[p] # <<>>
      BY <1>1, <2>2, Known, NonEmpty
    <3>2. QED
      BY <1>1, <2>2, <3>1 DEF GetOrder, Open, IInv, BrokerInv, CacheIsRight
  <2>4. EntryFilled(p)
    BY <1>1, <2>2, <2>3 DEF EntryFilled, IInv, BrokerInv, EntryIsFirst
  <2> DEFINE sold == PartialQty * Cardinality(FilledPartials(p))
             part == [mem[p] EXCEPT !.status = "PARTIAL"]
             r == [part EXCEPT !.remaining = mem[p].remaining - sold]
  <2>5. sold \in Int
    BY <1>1, FinitePartials, QuantityAssumption
  <2>6. mem' = [mem EXCEPT ![p] = r]
    BY <1>4
  <2> HIDE DEF sold
  <2>7. mem[p].remaining - sold \in Int /\ part \in Record
    BY <1>1, <2>5, RecordType DEF Record, Held
  <2>8. r \in Record
    BY <2>7, RecordType
  <2>9. r.partials = mem[p].partials
    BY <1>1 DEF Record
  <2> HIDE DEF r
  <2>10. QED
    BY <1>1, <1>4, <2>4, <2>6, <2>8, <2>9, CheckStep DEF CloseSteps
<1>5. QED
  BY <1>2, <1>3, <1>4 DEF CheckOrders, Ended

-----------------------------------------------------------------------------
(* The process *)

\* A restart loads rows that the orders justify, and idle actors claim nothing.
LEMMA RestartKeeps ==
  ASSUME IInv, Crash \/ GoroutinePanic
  PROVE  IInv'
<1>1. Restart
  BY DEF Crash, GoroutinePanic
<1>2. faults' \in Nat
  BY DEF Crash, GoroutinePanic, Fault, IInv, TypeOK, ManagedTypeOK
<1>3. GateTypeOK'
  BY <1>1 DEF Restart, IInv, TypeOK, GateTypeOK, Flows
<1>4. BrokerInv' /\ OrdersGrow({})
  BY <1>1, EmptyCachesKeep DEF Restart, IInv
<1>5. NoRecord \in Record /\ NoRecord.status = "none" /\ NoRecord.partials = {}
  BY DEF NoRecord, Record
<1> HIDE DEF NoRecord
<1>6. /\ stage' = [p \in Positions |->
           IF Loaded(p) THEN "saved" ELSE IF stage[p] = "new" THEN "new" ELSE "gone"]
      /\ mem' = [p \in Positions |-> IF Loaded(p) THEN db[p] ELSE NoRecord]
      /\ at' = [a \in Actors |-> "idle"]
      /\ target' = [a \in Actors |-> NoPosition]
      /\ todo' = {} /\ restarted' = TRUE /\ UNCHANGED db
  BY <1>1 DEF Restart
<1>7. ManagedTypeOK'
  BY <1>2, <1>5, <1>6 DEF IInv, TypeOK, ManagedTypeOK
<1>8. ASSUME NEW p \in Positions
      PROVE  /\ stage'[p] = "new" <=> orders'[p] = <<>>
             /\ Justified(mem'[p], orders'[p])
             /\ Justified(db'[p], orders'[p])
  <2>1. Justified(db[p], orders'[p])
    BY <1>4, Known, JustifiedGrows
  <2>2. Justified(NoRecord, orders'[p])
    BY <1>5 DEF Justified, Held
  <2>3. Loaded(p) => orders[p] # <<>>
    BY Known DEF Loaded, Justified
  <2>4. orders[p] = <<>> <=> orders'[p] = <<>>
    BY <1>4 DEF OrdersGrow
  <2>5. QED
    BY <1>6, <2>1, <2>2, <2>3, <2>4, Known
<1>9. RecordsAreJustified'
  BY <1>8 DEF RecordsAreJustified
<1>10. WorkWasSent' /\ PartialAfterEntry'
  BY <1>6 DEF WorkWasSent, PartialAfterEntry, Actors
<1>11. QED
  BY <1>3, <1>4, <1>7, <1>9, <1>10 DEF IInv, TypeOK, BrokerInv, ManagedInv

-----------------------------------------------------------------------------
(* The invariant *)

\* The invariant holds at the start.
LEMMA InitEstablishes == Init => IInv
<1> SUFFICES ASSUME Init
             PROVE  IInv
  OBVIOUS
<1>1. GateTypeOK
  BY DEF Init, GateInit, GateTypeOK, Flows
<1>2. BrokerTypeOK
  BY DEF Init, BrokerInit, BrokerTypeOK
<1>3. NoRecord \in Record /\ NoRecord.status = "none" /\ NoRecord.partials = {}
  BY DEF NoRecord, Record
<1> HIDE DEF NoRecord
<1>4. ManagedTypeOK
  BY <1>3 DEF Init, ManagedTypeOK
<1>5. CacheIsRight /\ EntryIsFirst /\ HeldAfterEntry
  BY DEF Init, BrokerInit, CacheIsRight, EntryIsFirst, HeldAfterEntry
<1>6. RecordsAreJustified
  BY <1>3 DEF Init, BrokerInit, RecordsAreJustified, Justified, Held
<1>7. WorkWasSent /\ PartialAfterEntry
  BY DEF Init, WorkWasSent, PartialAfterEntry, Actors
<1>8. QED
  BY <1>1, <1>2, <1>4, <1>5, <1>6, <1>7 DEF IInv, TypeOK, BrokerInv, ManagedInv

\* Every step keeps the invariant.
LEMMA NextKeeps == IInv /\ [Next]_vars => IInv'
<1> SUFFICES ASSUME IInv, [Next]_vars
             PROVE  IInv'
  OBVIOUS
<1>1. ASSUME NEW p \in Positions, PlaceEntry(p) \/ StorePosition(p) \/ SavePosition(p)
      PROVE  IInv'
  BY <1>1, PlaceEntryKeeps, StoreKeeps
<1>2. ASSUME NEW a \in Actors, Close(a)
      PROVE  IInv'
  BY <1>2, CancelOrdersKeeps, ExitAtMarketKeeps, MarkClosedKeeps, SaveKeeps DEF Close
<1>3. ASSUME NEW c \in Closers,
             (\E p \in Positions : HandleClose(c, p)) \/ Close(c) \/ HandlerPanic(c)
      PROVE  IInv'
  BY <1>2, <1>3, HandleCloseKeeps, HandlerPanicKeeps DEF Actors
<1>4. CASE MonitorStep
  <2>1. ASSUME NEW p \in {target[Monitor]} \ {NoPosition},
               \/ CheckEntryOrder(p) \/ CheckBrokerPosition(p) \/ PlacePartialExit(p)
               \/ CheckPrice(p) \/ CheckHolding(p) \/ CheckOrders(p)
        PROVE  IInv'
    BY <2>1, CheckEntryOrderKeeps, CheckBrokerPositionKeeps, PlacePartialExitKeeps,
       CheckPriceKeeps, CheckHoldingKeeps, CheckOrdersKeeps
  <2>2. CASE Close(Monitor)
    BY <1>2, <2>2 DEF Actors
  <2>3. QED
    BY <1>4, <2>1, <2>2, TickKeeps, LookKeeps, BrokerSteps DEF MonitorStep
<1>5. CASE GoroutinePanic \/ Crash
  BY <1>5, RestartKeeps
<1>6. CASE \/ Gateway \/ Drop \/ ChangeMode \/ UNCHANGED vars
           \/ \E f \in Flows : Disconnect(f) \/ Reconnect(f)
  BY <1>6, BrokerSteps
<1>7. QED
  BY <1>1, <1>3, <1>4, <1>5, <1>6 DEF Next

\* Whatever is sent, filled, lost, closed, reconnected or restarted, what the
\* bot knows of a position agrees with its orders at the broker.
THEOREM PositionInvariant == Spec => []IInv
BY InitEstablishes, NextKeeps, PTL DEF Spec

\* The type invariant of gate, service and position manager.
THEOREM PositionTypeCorrect == Spec => []TypeOK
<1>1. IInv => TypeOK
  BY DEF IInv
<1>2. QED
  BY <1>1, PositionInvariant, PTL

\* A position is ACTIVE or PARTIAL, in memory or in its row, only if its entry
\* order was filled: so stops, targets and exits never open a position.
THEOREM ActiveIsFilled == Spec => []ActiveWasFilled
<1>1. IInv => ActiveWasFilled
  BY Known DEF ActiveWasFilled, Justified, EntryFilled
<1>2. QED
  BY <1>1, PositionInvariant, PTL

\* The order cache, which outlives sessions and is emptied under the monitor's
\* feet, never calls an order filled that is not.
THEOREM CacheNeverLies == Spec => []CacheIsRight
<1>1. IInv => CacheIsRight
  BY DEF IInv, BrokerInv
<1>2. QED
  BY <1>1, PositionInvariant, PTL

-----------------------------------------------------------------------------
(* What a step sends *)

\* The partial exits and the market exits of p are those it had.
KindsKept(p) == Sent(p, "partial")' = Sent(p, "partial") /\ Sent(p, "exit")' = Sent(p, "exit")

\* One order of a kind is sent for p, as its last.
SendsOne(p, kind) == Sent(p, kind)' = Sent(p, kind) \union {Len(orders[p]) + 1}

LEMMA OrdersKeptKinds ==
  ASSUME UNCHANGED orders
  PROVE  \A p \in Positions : KindsKept(p)
BY DEF KindsKept, Sent

\* States and caches change, kinds and quantities do not.
LEMMA MoveKinds ==
  ASSUME BrokerTypeOK, NEW p \in Positions, NEW new, Move(p, new)
  PROVE  \A q \in Positions : KindsKept(q)
<1> DEFINE moved(k) == [orders[p][k] EXCEPT !.state = new[k],
                          !.cached = IF conn = "up" /\ new[k] # orders[p][k].state
                                     THEN new[k] ELSE orders[p][k].cached]
           t == [k \in DOMAIN orders[p] |-> moved(k)]
<1>1. orders' = [orders EXCEPT ![p] = t] /\ orders[p] \in Seq(Order)
  BY DEF Move, BrokerTypeOK
<1>2. ASSUME NEW k \in DOMAIN orders[p]
      PROVE  moved(k).kind = orders[p][k].kind
  <2>1. orders[p][k] \in Order
    BY <1>1, ElementOfSeq, LenProperties
  <2>2. QED
    BY <2>1 DEF Order
<1> HIDE DEF moved
<1>3. DOMAIN t = DOMAIN orders[p] /\ \A k \in DOMAIN orders[p] : t[k].kind = orders[p][k].kind
  BY <1>2
<1> HIDE DEF t
<1>4. orders'[p] = t /\ \A q \in Positions \ {p} : orders'[q] = orders[q]
  BY <1>1 DEF BrokerTypeOK
<1>5. KindsKept(p)
  BY <1>3, <1>4 DEF KindsKept, Sent
<1>6. \A q \in Positions \ {p} : KindsKept(q)
  BY <1>4 DEF KindsKept, Sent
<1> QED
  BY <1>5, <1>6

LEMMA ForgetKinds ==
  ASSUME BrokerTypeOK, orders' = [p \in Positions |-> Forget(orders[p])]
  PROVE  \A p \in Positions : KindsKept(p)
<1> SUFFICES ASSUME NEW p \in Positions PROVE KindsKept(p)
  OBVIOUS
<1>1. orders[p] \in Seq(Order) /\ orders'[p] = Forget(orders[p])
  BY DEF BrokerTypeOK
<1>2. \A k \in DOMAIN orders[p] : [orders[p][k] EXCEPT !.cached = "none"].kind = orders[p][k].kind
  BY <1>1, NonEmpty DEF Order
<1>3. /\ DOMAIN orders'[p] = DOMAIN orders[p]
      /\ \A k \in DOMAIN orders[p] : orders'[p][k].kind = orders[p][k].kind
  BY <1>1, <1>2 DEF Forget
<1> QED
  BY <1>3 DEF KindsKept, Sent

\* A single order sent after the entry, or lost on the way, has its number.
LEMMA SendKinds ==
  ASSUME BrokerTypeOK, NEW p \in Positions, NEW o \in Order,
         o.state \in {"working", "refused"}, o.cached = "none", Send(p, <<o>>)
  PROVE  /\ \A q \in Positions \ {p} : KindsKept(q)
         /\ o.kind = "partial" => SendsOne(p, "partial") /\ Sent(p, "exit")' = Sent(p, "exit")
         /\ o.kind = "exit" => SendsOne(p, "exit") /\ Sent(p, "partial")' = Sent(p, "partial")
<1> DEFINE n == Len(orders[p])
           new == <<o>>
<1>1. Fresh(new) /\ Len(new) = 1 /\ new[1] = o
  BY DEF Fresh, Open
<1>2. Send(p, new)
  OBVIOUS
<1> HIDE DEF new
<1>0. /\ \A q \in Positions \ {p} : orders'[q] = orders[q]
      /\ Len(orders[p]) \in Nat
      /\ DOMAIN orders[p] = 1 .. Len(orders[p])
      /\ DOMAIN orders'[p] = 1 .. Len(orders[p]) + Len(new)
      /\ \A k \in 1 .. Len(orders[p]) : orders'[p][k] = orders[p][k]
      /\ \A k \in 1 .. Len(new) : orders'[p][Len(orders[p]) + k].kind = new[k].kind
  <2>1. Fresh(new) /\ Send(p, new)
    BY <1>1, <1>2
  <2>2. QED
    BY <2>1, SendEffect
<1>3. /\ \A q \in Positions \ {p} : orders'[q] = orders[q]
      /\ n \in Nat /\ DOMAIN orders[p] = 1 .. n
      /\ DOMAIN orders'[p] = 1 .. n + Len(new)
      /\ \A k \in 1 .. n : orders'[p][k] = orders[p][k]
      /\ \A k \in 1 .. Len(new) : orders'[p][n + k].kind = new[k].kind
  BY <1>0
<1>4. orders'[p][n + 1].kind = o.kind /\ DOMAIN orders'[p] = 1 .. n + 1
  BY <1>1, <1>3
<1>5. DOMAIN orders'[p] = DOMAIN orders[p] \union {n + 1}
  <2> HIDE DEF n
  <2> QED
    BY <1>3, <1>4
<1>6. ASSUME NEW kind
      PROVE  Sent(p, kind)' = IF o.kind = kind THEN Sent(p, kind) \union {n + 1} ELSE Sent(p, kind)
  <2> HIDE DEF n
  <2> QED
    BY <1>3, <1>4, <1>5 DEF Sent
<1>7. \A q \in Positions \ {p} : KindsKept(q)
  BY <1>3 DEF KindsKept, Sent
<1>8. o.kind = "partial" => SendsOne(p, "partial") /\ Sent(p, "exit")' = Sent(p, "exit")
  BY <1>6 DEF SendsOne
<1>9. o.kind = "exit" => SendsOne(p, "exit") /\ Sent(p, "partial")' = Sent(p, "partial")
  BY <1>6 DEF SendsOne
<1> QED
  BY <1>7, <1>8, <1>9

\* Neither the gateway, nor the connection, nor a restart sends anything.
LEMMA BrokerKinds ==
  ASSUME BrokerTypeOK,
         \/ Gateway \/ MonitorSubscribes \/ Drop \/ ChangeMode \/ Crash \/ GoroutinePanic
         \/ \E f \in Flows : Disconnect(f) \/ Reconnect(f)
         \/ \E a \in Actors : CancelOrders(a) /\ target[a] \in Positions
  PROVE  \A p \in Positions : KindsKept(p)
<1>1. CASE UNCHANGED orders
  BY <1>1, OrdersKeptKinds
<1>2. CASE orders' = [p \in Positions |-> Forget(orders[p])]
  BY <1>2, ForgetKinds
<1>3. CASE Gateway
  <2>1. PICK p \in Positions : \/ \E k \in DOMAIN orders[p] : Fill(p, k)
                               \/ CancelledByBroker(p) \/ UpdatePortfolio(p)
    BY <1>3 DEF Gateway
  <2>2. UNCHANGED orders \/ \E new : Move(p, new)
    BY <2>1 DEF Fill, CancelledByBroker, UpdatePortfolio
  <2> QED
    BY <1>1, <2>2, MoveKinds
<1>4. ASSUME NEW a \in Actors, CancelOrders(a), target[a] \in Positions
      PROVE  \A p \in Positions : KindsKept(p)
  <2>1. UNCHANGED orders \/ \E new : Move(target[a], new)
    BY <1>4 DEF CancelOrders, Cancel
  <2> QED
    BY <1>1, <1>4, <2>1, MoveKinds
<1>5. CASE MonitorSubscribes \/ Drop \/ ChangeMode \/ \E f \in Flows : Reconnect(f)
  <2>1. UNCHANGED orders
    BY <1>5 DEF MonitorSubscribes, SubscribePositions, Drop, SessionEnds, ChangeMode, brokerVars,
                Reconnect, OnReconnect
  <2> QED
    BY <1>1, <2>1
<1>6. CASE Crash \/ GoroutinePanic \/ \E f \in Flows : Disconnect(f)
  <2>1. orders' = [p \in Positions |-> Forget(orders[p])]
    BY <1>6 DEF Crash, GoroutinePanic, Restart, FreshCaches, Disconnect, OnDisconnect
  <2> QED
    BY <1>2, <2>1
<1> QED
  BY <1>3, <1>4, <1>5, <1>6

-----------------------------------------------------------------------------
(* What a step does to statuses, to the monitor and to what has been sent *)

AllKindsKept == \A p \in Positions : KindsKept(p)

\* An order of a kind is sent for p, and nothing else.
Sells(p, kind) ==
  /\ SendsOne(p, kind)
  /\ \A other \in {"partial", "exit"} \ {kind} : Sent(p, other)' = Sent(p, other)
  /\ \A q \in Positions \ {p} : KindsKept(q)

StatusesKept == \A p \in Positions : mem'[p].status = mem[p].status

Becomes(p, statuses) ==
  /\ mem'[p].status \in statuses
  /\ \A q \in Positions \ {p} : mem'[q].status = mem[q].status

MonitorStays == UNCHANGED restarted /\ at'[Monitor] = at[Monitor] /\ target'[Monitor] = target[Monitor]

\* The monitor goes from a place to another with the position p.
Goes(p, from, to) ==
  /\ UNCHANGED restarted
  /\ at[Monitor] = from
  /\ at'[Monitor] = to
  /\ from # "idle" => target[Monitor] = p
  /\ to # "idle" => target'[Monitor] = p

\* A request places p.
Places(p) ==
  /\ MonitorStays
  /\ orders[p] = <<>> /\ mem[p].status = "none"
  /\ Becomes(p, {"PENDING"})
  /\ Sent(p, "partial")' = {} /\ Sent(p, "exit")' = {}
  /\ \A q \in Positions \ {p} : KindsKept(q)

\* A close request exits p or marks it.
Closes(p) ==
  /\ Closers # {}
  /\ MonitorStays
  /\ \/ Sells(p, "exit") /\ EntryFilled(p) /\ StatusesKept
     \/ AllKindsKept /\ Becomes(p, {"CLOSED"})

\* The monitor only looks at p.
Inspects(p) ==
  /\ AllKindsKept
  /\ StatusesKept
  /\ \/ Goes(p, "idle", "entry") /\ mem[p].status = "PENDING"
     \/ Goes(p, "idle", "risk") /\ mem[p].status = "ACTIVE"
     \/ Goes(p, "entry", "lost") \/ Goes(p, "entry", "idle")
     \/ Goes(p, "partial", "save")
     \/ Goes(p, "risk", "cancel") \/ Goes(p, "risk", "holding")
     \/ Goes(p, "holding", "orders") \/ Goes(p, "orders", "idle")
     \/ Goes(p, "cancel", "exit") \/ Goes(p, "exit", "mark")
     \/ Goes(p, "save", "idle")

\* The monitor changes the status of p.
Decides(p) ==
  /\ AllKindsKept
  /\ \/ /\ \E from \in {"entry", "lost"}, to \in {"partial", "save"} : Goes(p, from, to)
        /\ Becomes(p, {"ACTIVE"})
     \/ Goes(p, "lost", "save") /\ Becomes(p, {"CLOSED"})
     \/ /\ Goes(p, "holding", "save") \/ Goes(p, "orders", "save")
        /\ Becomes(p, Ended \union {"PARTIAL"})
     \/ Goes(p, "mark", "save") /\ Becomes(p, {"CLOSED"})

\* The monitor sends an order for p.
Trades(p) ==
  /\ StatusesKept
  /\ \/ Goes(p, "partial", "save") /\ Sells(p, "partial")
     \/ Goes(p, "exit", "mark") /\ Sells(p, "exit") /\ EntryFilled(p)

Rests == MonitorStays /\ AllKindsKept /\ StatusesKept

Restarts ==
  /\ Crash \/ GoroutinePanic
  /\ restarted' = TRUE
  /\ at'[Monitor] = "idle"
  /\ AllKindsKept

\* A field of the struct of p is written.
LEMMA StatusWritten ==
  ASSUME IInv, NEW p \in Positions,
         NEW s, NEW i,
         SetStatus(p, s) \/ End(p, s) \/ mem' = [mem EXCEPT ![p].status = s, ![p].remaining = i]
  PROVE  Becomes(p, {s})
<1>1. mem \in [Positions -> Record] /\ mem[p] \in Record
  BY DEF IInv, TypeOK, ManagedTypeOK
<1>2. ASSUME SetStatus(p, s)
      PROVE  Becomes(p, {s})
  <2>1. mem' = [mem EXCEPT ![p] = [mem[p] EXCEPT !.status = s]]
    BY <1>2 DEF SetStatus
  <2>2. [mem[p] EXCEPT !.status = s].status = s
    BY <1>1 DEF Record
  <2>3. QED
    BY <1>1, <2>1, <2>2 DEF Becomes
<1>3. ASSUME NEW j, mem' = [mem EXCEPT ![p].status = s, ![p].remaining = j]
      PROVE  Becomes(p, {s})
  <2>1. mem' = [mem EXCEPT ![p] = [mem[p] EXCEPT !.status = s, !.remaining = j]]
    BY <1>1, <1>3
  <2>2. [mem[p] EXCEPT !.status = s, !.remaining = j].status = s
    BY <1>1 DEF Record
  <2>3. QED
    BY <1>1, <2>1, <2>2 DEF Becomes
<1> QED
  BY <1>2, <1>3 DEF End

\* Where an actor goes, and where the others stay.
LEMMA GoesTo ==
  ASSUME IInv, NEW a \in Actors, NEW l, Goto(a, l)
  PROVE  at'[a] = l /\ \A b \in Actors \ {a} : at'[b] = at[b]
BY DEF Goto, IInv, TypeOK, ManagedTypeOK

\* The monitor and its position.
LEMMA MonitorGoes ==
  ASSUME IInv, NEW p \in Positions, target[Monitor] = p, UNCHANGED restarted,
         NEW from, at[Monitor] = from,
         NEW l, (Goto(Monitor, l) /\ Stay) \/ (l = "idle" /\ Leave)
  PROVE  Goes(p, from, l)
BY GoesTo DEF Leave, Stay, Goes, Actors

LEMMA PlaceShape ==
  ASSUME IInv, NEW p \in Positions, PlaceEntry(p)
  PROVE  Places(p)
<1>1. orders[p] = <<>> /\ mem[p].status = "none"
  BY Known DEF PlaceEntry, Justified
<1>2. MonitorStays
  BY DEF PlaceEntry, MonitorStays
<1>3. PICK side \in Sides, partial \in PartialExits :
        mem' = [mem EXCEPT ![p] =
          [status |-> "PENDING", side |-> side, remaining |-> Quantity,
           partials |-> {}, partialExit |-> partial]]
  BY DEF PlaceEntry
<1>4. Becomes(p, {"PENDING"})
  BY <1>3 DEF Becomes, IInv, TypeOK, ManagedTypeOK
<1>5. PICK new : /\ Send(p, new) /\ Fresh(new)
                 /\ \A k \in DOMAIN new : new[k].kind \in {"entry", "tp", "sl"}
  BY EntryGroup
<1>6. /\ \A q \in Positions \ {p} : orders'[q] = orders[q]
      /\ Len(orders[p]) \in Nat
      /\ DOMAIN orders[p] = 1 .. Len(orders[p]) /\ DOMAIN new = 1 .. Len(new)
      /\ DOMAIN orders'[p] = 1 .. Len(orders[p]) + Len(new)
      /\ \A k \in 1 .. Len(new) : orders'[p][Len(orders[p]) + k].kind = new[k].kind
      /\ Len(new) \in Nat
  BY <1>5, SendEffect DEF IInv, TypeOK
<1>7. Len(orders[p]) = 0
  BY <1>1
<1>8. \A k \in DOMAIN orders'[p] : orders'[p][k].kind \in {"entry", "tp", "sl"}
  <2> DEFINE m == Len(new)
  <2>1. /\ m \in Nat /\ DOMAIN orders'[p] = 1 .. m
        /\ \A k \in 1 .. m : orders'[p][0 + k].kind \in {"entry", "tp", "sl"}
    BY <1>5, <1>6, <1>7
  <2> HIDE DEF m
  <2>2. \A k \in 1 .. m : 0 + k = k
    BY <2>1
  <2>3. QED
    BY <2>1, <2>2
<1>9. Sent(p, "partial")' = {} /\ Sent(p, "exit")' = {}
  BY <1>8 DEF Sent
<1>10. \A q \in Positions \ {p} : KindsKept(q)
  BY <1>6 DEF KindsKept, Sent
<1> QED
  BY <1>1, <1>2, <1>4, <1>9, <1>10 DEF Places

\* ExitAtMarket exits what was held, or nothing.
LEMMA ExitSent ==
  ASSUME IInv, NEW a \in Actors, NEW p \in Positions, target[a] = p, ExitAtMarket(a)
  PROVE  \/ UNCHANGED orders /\ ~(NeedsExit(p) /\ CanTrade)
         \/ /\ mem[p].status \in Held /\ EntryFilled(p)
            /\ \E o \in Order : /\ o.kind = "exit" /\ o.qty = mem[p].remaining
                                /\ o.state \in {"working", "refused"} /\ o.cached = "none"
                                /\ Send(p, <<o>>)
<1>1. ASSUME NeedsExit(p), NEW state \in {"working", "refused"},
             Send(p, <<[kind |-> "exit", qty |-> mem[p].remaining, state |-> state, cached |-> "none"]>>)
      PROVE  /\ mem[p].status \in Held /\ EntryFilled(p)
             /\ \E o \in Order : /\ o.kind = "exit" /\ o.qty = mem[p].remaining
                                 /\ o.state \in {"working", "refused"} /\ o.cached = "none"
                                 /\ Send(p, <<o>>)
  <2> DEFINE exit == [kind |-> "exit", qty |-> mem[p].remaining, state |-> state, cached |-> "none"]
  <2>1. mem[p].status \in Held /\ mem[p].remaining \in Nat /\ EntryFilled(p)
    BY <1>1, Known DEF NeedsExit, Record
  <2>2. /\ exit \in Order /\ exit.kind = "exit" /\ exit.qty = mem[p].remaining
        /\ exit.state \in {"working", "refused"} /\ exit.cached = "none"
    BY <2>1 DEF Order, Kinds, OrderStates, Open
  <2>3. PICK o \in Order : o = exit
    BY <2>2
  <2>4. QED
    BY <1>1, <2>1, <2>2, <2>3
<1> QED
  BY <1>1 DEF ExitAtMarket

\* placePartialExitOrder sends the partial exit, or nothing.
LEMMA PartialSent ==
  ASSUME NEW p \in Positions, target[Monitor] = p, PlacePartialExit(p)
  PROVE  \/ UNCHANGED <<orders, mem>>
         \/ /\ mem' = [mem EXCEPT ![p].partials = @ \union {Len(orders[p]) + 1}]
            /\ \E o \in Order : /\ o.kind = "partial" /\ o.qty = PartialQty
                                /\ o.state = "working" /\ o.cached = "none"
                                /\ Send(p, <<o>>)
<1> DEFINE partial == [kind |-> "partial", qty |-> PartialQty,
                       state |-> "working", cached |-> "none"]
<1>1. /\ partial \in Order /\ partial.kind = "partial" /\ partial.qty = PartialQty
      /\ partial.state = "working" /\ partial.cached = "none"
  BY QuantityAssumption DEF Order, Kinds, OrderStates, Open
<1> QED
  BY <1>1 DEF PlacePartialExit

LEMMA ExitShape ==
  ASSUME IInv, NEW a \in Actors, NEW p \in Positions, target[a] = p, ExitAtMarket(a)
  PROVE  /\ StatusesKept
         /\ AllKindsKept \/ (Sells(p, "exit") /\ EntryFilled(p))
<1>1. StatusesKept
  BY DEF ExitAtMarket, StatusesKept
<1>2. CASE UNCHANGED orders
  BY <1>1, <1>2, OrdersKeptKinds DEF AllKindsKept
<1>3. ASSUME EntryFilled(p), NEW o \in Order, o.kind = "exit",
             o.state \in {"working", "refused"}, o.cached = "none", Send(p, <<o>>)
      PROVE  Sells(p, "exit") /\ EntryFilled(p)
  BY <1>3, SendKinds DEF IInv, TypeOK, Sells
<1> QED
  BY <1>1, <1>2, <1>3, ExitSent

LEMMA PartialShape ==
  ASSUME IInv, NEW p \in Positions, target[Monitor] = p, PlacePartialExit(p)
  PROVE  Inspects(p) \/ Trades(p)
<1>1. Goes(p, "partial", "save")
  <2>1. at[Monitor] = "partial" /\ UNCHANGED restarted /\ Goto(Monitor, "save") /\ Stay
    BY DEF PlacePartialExit, Here
  <2>2. QED
    BY <2>1, MonitorGoes
<1>2. CASE UNCHANGED <<orders, mem>>
  BY <1>1, <1>2, OrdersKeptKinds DEF AllKindsKept, Inspects, StatusesKept
<1>3. ASSUME mem' = [mem EXCEPT ![p].partials = @ \union {Len(orders[p]) + 1}],
             NEW o \in Order, o.kind = "partial",
             o.state = "working", o.cached = "none", Send(p, <<o>>)
      PROVE  Trades(p)
  <2>1. Sells(p, "partial")
    BY <1>3, SendKinds DEF IInv, TypeOK, Sells
  <2>2. mem \in [Positions -> Record] /\ mem[p] \in Record
    BY DEF IInv, TypeOK, ManagedTypeOK
  <2>3. \A P : [mem[p] EXCEPT !.partials = P].status = mem[p].status
    BY <2>2 DEF Record
  <2>4. \E P : mem' = [mem EXCEPT ![p] = [mem[p] EXCEPT !.partials = P]]
    BY <1>3, <2>2
  <2>5. StatusesKept
    BY <2>2, <2>3, <2>4 DEF StatusesKept
  <2>6. QED
    BY <1>1, <2>1, <2>5 DEF Trades
<1> QED
  BY <1>2, <1>3, PartialSent

\* Where the orders are kept, what has been sent is.
LEMMA NothingSent ==
  ASSUME UNCHANGED brokerVars
  PROVE  AllKindsKept
BY OrdersKeptKinds DEF brokerVars, AllKindsKept

\* The monitor takes up a position, or passes over it.
LEMMA LookShape ==
  ASSUME IInv, NEW p \in todo, Look(p)
  PROVE  Rests \/ Inspects(p)
<1>1. AllKindsKept /\ StatusesKept /\ UNCHANGED restarted /\ at[Monitor] = "idle"
  BY NothingSent DEF Look, StatusesKept, Here
<1>2. CASE mem[p].status \in {"PENDING", "ACTIVE"}
  <2>1. PICK l \in {"entry", "risk"} :
          /\ Goto(Monitor, l)
          /\ l = "entry" => mem[p].status = "PENDING"
          /\ l = "risk" => mem[p].status = "ACTIVE"
    BY <1>2 DEF Look
  <2>2. at'[Monitor] = l
    BY <2>1, GoesTo DEF Actors
  <2>3. target'[Monitor] = p
    BY <1>2 DEF Look, IInv, TypeOK, ManagedTypeOK, Actors
  <2>4. Goes(p, "idle", l)
    BY <1>1, <2>2, <2>3 DEF Goes
  <2>5. QED
    BY <1>1, <2>1, <2>4 DEF Inspects
<1>3. CASE mem[p].status \notin {"PENDING", "ACTIVE"}
  BY <1>1, <1>3 DEF Look, Rests, MonitorStays
<1> QED
  BY <1>2, <1>3

\* An entry found filled: the position becomes active.
LEMMA ActivateShape ==
  ASSUME IInv, NEW p \in Positions, target[Monitor] = p, UNCHANGED brokerVars, UNCHANGED restarted,
         NEW from \in {"entry", "lost"}, at[Monitor] = from, Activate(p)
  PROVE  Decides(p)
<1>1. Becomes(p, {"ACTIVE"}) /\ AllKindsKept
  BY StatusWritten, NothingSent DEF Activate
<1>2. PICK l \in {"partial", "save"} : Goto(Monitor, l) /\ Stay
  BY DEF Activate
<1>3. Goes(p, from, l)
  BY <1>2, MonitorGoes
<1> QED
  BY <1>1, <1>3 DEF Decides

LEMMA EntryShape ==
  ASSUME IInv, NEW p \in Positions, target[Monitor] = p, CheckEntryOrder(p)
  PROVE  Inspects(p) \/ Decides(p)
<1>1. at[Monitor] = "entry" /\ UNCHANGED brokerVars /\ UNCHANGED restarted
  BY DEF CheckEntryOrder, Here
<1>2. CASE Activate(p)
  BY <1>1, <1>2, ActivateShape
<1>3. CASE UNCHANGED mem /\ ((Goto(Monitor, "lost") /\ Stay) \/ Leave)
  <2>1. AllKindsKept /\ StatusesKept
    BY <1>1, <1>3, NothingSent DEF StatusesKept
  <2>2. Goes(p, "entry", "lost") \/ Goes(p, "entry", "idle")
    BY <1>1, <1>3, MonitorGoes
  <2>3. QED
    BY <2>1, <2>2 DEF Inspects
<1>4. \/ Activate(p)
      \/ UNCHANGED mem /\ ((Goto(Monitor, "lost") /\ Stay) \/ Leave)
  BY EntryOutcomes
<1> QED
  BY <1>2, <1>3, <1>4

LEMMA LostShape ==
  ASSUME IInv, NEW p \in Positions, target[Monitor] = p, CheckBrokerPosition(p)
  PROVE  Decides(p)
<1>1. at[Monitor] = "lost" /\ UNCHANGED brokerVars /\ UNCHANGED restarted
  BY DEF CheckBrokerPosition, Here
<1>2. CASE Activate(p)
  BY <1>1, <1>2, ActivateShape
<1>3. CASE SetStatus(p, "CLOSED") /\ Goto(Monitor, "save") /\ Stay
  <2>1. Becomes(p, {"CLOSED"}) /\ AllKindsKept
    BY <1>1, <1>3, StatusWritten, NothingSent
  <2>2. Goes(p, "lost", "save")
    BY <1>1, <1>3, MonitorGoes
  <2>3. QED
    BY <2>1, <2>2 DEF Decides
<1> QED
  BY <1>2, <1>3 DEF CheckBrokerPosition

LEMMA PriceShape ==
  ASSUME IInv, NEW p \in Positions, target[Monitor] = p, CheckPrice(p)
  PROVE  Inspects(p)
<1>1. /\ at[Monitor] = "risk" /\ UNCHANGED restarted /\ Stay
      /\ Goto(Monitor, "cancel") \/ Goto(Monitor, "holding")
  BY DEF CheckPrice, Here
<1>2. Goes(p, "risk", "cancel") \/ Goes(p, "risk", "holding")
  BY <1>1, MonitorGoes
<1>3. AllKindsKept /\ StatusesKept
  BY NothingSent DEF CheckPrice, StatusesKept
<1> QED
  BY <1>2, <1>3 DEF Inspects

LEMMA HoldingShape ==
  ASSUME IInv, NEW p \in Positions, target[Monitor] = p, CheckHolding(p)
  PROVE  Inspects(p) \/ Decides(p)
<1>1. /\ at[Monitor] = "holding" /\ UNCHANGED restarted /\ Stay /\ UNCHANGED brokerVars
      /\ \/ End(p, "CLOSED") /\ Goto(Monitor, "save")
         \/ UNCHANGED mem /\ Goto(Monitor, "orders")
  BY DEF CheckHolding, Here
<1>2. AllKindsKept
  BY <1>1, NothingSent
<1>3. CASE End(p, "CLOSED") /\ Goto(Monitor, "save")
  <2>1. Becomes(p, {"CLOSED"})
    BY <1>3, StatusWritten
  <2>2. Goes(p, "holding", "save")
    BY <1>1, <1>3, MonitorGoes
  <2>3. QED
    BY <1>2, <2>1, <2>2 DEF Decides, Becomes, Ended
<1>4. CASE UNCHANGED mem /\ Goto(Monitor, "orders")
  <2>1. Goes(p, "holding", "orders")
    BY <1>1, <1>4, MonitorGoes
  <2>2. QED
    BY <1>2, <1>4, <2>1 DEF Inspects, StatusesKept
<1> QED
  BY <1>1, <1>3, <1>4

LEMMA OrdersShape ==
  ASSUME IInv, NEW p \in Positions, target[Monitor] = p, CheckOrders(p)
  PROVE  Inspects(p) \/ Decides(p)
<1>1. at[Monitor] = "orders" /\ UNCHANGED restarted /\ UNCHANGED brokerVars
  BY DEF CheckOrders, Here
<1>2. AllKindsKept
  BY <1>1, NothingSent
<1>3. \/ End(p, "STOPPED_OUT") /\ Goto(Monitor, "save") /\ Stay
      \/ End(p, "CLOSED") /\ Goto(Monitor, "save") /\ Stay
      \/ /\ mem' = [mem EXCEPT ![p].status = "PARTIAL",
              ![p].remaining = mem[p].remaining - PartialQty * Cardinality(FilledPartials(p))]
         /\ Goto(Monitor, "save") /\ Stay
      \/ Leave /\ UNCHANGED mem
  BY DEF CheckOrders
<1>4. CASE Leave /\ UNCHANGED mem
  <2>1. Goes(p, "orders", "idle")
    BY <1>1, <1>4, MonitorGoes
  <2>2. QED
    BY <1>2, <1>4, <2>1 DEF Inspects, StatusesKept
<1>5. CASE \/ End(p, "STOPPED_OUT") \/ End(p, "CLOSED")
           \/ mem' = [mem EXCEPT ![p].status = "PARTIAL",
                ![p].remaining = mem[p].remaining - PartialQty * Cardinality(FilledPartials(p))]
  <2>1. Becomes(p, Ended \union {"PARTIAL"})
    <3>1. CASE End(p, "STOPPED_OUT") \/ End(p, "CLOSED")
      BY <3>1, StatusWritten DEF Ended, Becomes
    <3>2. CASE mem' = [mem EXCEPT ![p].status = "PARTIAL",
                ![p].remaining = mem[p].remaining - PartialQty * Cardinality(FilledPartials(p))]
      <4>1. \A i : mem' = [mem EXCEPT ![p].status = "PARTIAL", ![p].remaining = i]
                     => Becomes(p, {"PARTIAL"})
        BY StatusWritten
      <4>2. QED
        BY <3>2, <4>1 DEF Becomes
    <3>3. QED
      BY <1>5, <3>1, <3>2
  <2>2. CASE Goto(Monitor, "save") /\ Stay
    <3>1. Goes(p, "orders", "save")
      BY <1>1, <2>2, MonitorGoes
    <3>2. QED
      BY <1>2, <2>1, <3>1 DEF Decides
  <2>3. CASE Leave /\ UNCHANGED mem
    BY <1>4, <2>3
  <2>4. QED
    BY <1>3, <2>2, <2>3
<1> QED
  BY <1>3, <1>4, <1>5

\* CloseManagedPosition, called by the monitor.
LEMMA MonitorCloseShape ==
  ASSUME IInv, NEW p \in Positions, target[Monitor] = p, Close(Monitor)
  PROVE  Inspects(p) \/ Decides(p) \/ Trades(p)
<1>1. Monitor \in Actors
  BY DEF Actors
<1>2. CASE CancelOrders(Monitor)
  <2>1. Goes(p, "cancel", "exit")
    BY <1>2, MonitorGoes DEF CancelOrders, Stay
  <2>2. AllKindsKept /\ StatusesKept
    BY <1>1, <1>2, BrokerKinds DEF AllKindsKept, StatusesKept, CancelOrders, IInv, TypeOK
  <2>3. QED
    BY <2>1, <2>2 DEF Inspects
<1>3. CASE ExitAtMarket(Monitor)
  <2>1. Goes(p, "exit", "mark")
    BY <1>3, MonitorGoes DEF ExitAtMarket, Stay
  <2>2. StatusesKept /\ (AllKindsKept \/ (Sells(p, "exit") /\ EntryFilled(p)))
    BY <1>1, <1>3, ExitShape
  <2>3. QED
    BY <2>1, <2>2 DEF Inspects, Trades
<1>4. CASE MarkClosed(Monitor)
  <2>1. Goes(p, "mark", "save")
    BY <1>4, MonitorGoes DEF MarkClosed, Stay
  <2>2. AllKindsKept /\ Becomes(p, {"CLOSED"})
    BY <1>4, StatusWritten, NothingSent DEF MarkClosed
  <2>3. QED
    BY <2>1, <2>2 DEF Decides
<1>5. CASE Save(Monitor)
  <2>1. Goes(p, "save", "idle")
    BY <1>5, MonitorGoes DEF Save, Leave
  <2>2. AllKindsKept /\ StatusesKept
    BY <1>5, NothingSent DEF Save, StatusesKept
  <2>3. QED
    BY <2>1, <2>2 DEF Inspects
<1> QED
  BY <1>2, <1>3, <1>4, <1>5 DEF Close

\* A close request does not move the monitor.
LEMMA RequestShape ==
  ASSUME IInv, NEW c \in Closers,
         (\E p \in Positions : HandleClose(c, p)) \/ Close(c) \/ HandlerPanic(c)
  PROVE  Rests \/ \E p \in Positions : Closes(p)
<1>1. c \in Actors /\ Monitor \in Actors \ {c}
  BY ActorAssumption DEF Actors
<1>2. MonitorStays
  <2>1. \E l : Goto(c, l)
    BY DEF HandleClose, HandlerPanic, Close, CancelOrders, ExitAtMarket, MarkClosed, Save
  <2>2. at'[Monitor] = at[Monitor]
    BY <1>1, <2>1, GoesTo
  <2>3. UNCHANGED restarted
    BY DEF HandleClose, HandlerPanic, Close, CancelOrders, ExitAtMarket, MarkClosed, Save
  <2>4. target'[Monitor] = target[Monitor]
    BY <1>1 DEF HandleClose, HandlerPanic, Close, CancelOrders, ExitAtMarket, MarkClosed, Save,
                IInv, TypeOK, ManagedTypeOK
  <2>5. QED
    BY <2>2, <2>3, <2>4 DEF MonitorStays
<1>3. CASE (\E p \in Positions : HandleClose(c, p)) \/ HandlerPanic(c) \/ Save(c)
  <2>1. AllKindsKept /\ StatusesKept
    BY <1>3, NothingSent DEF HandleClose, HandlerPanic, Save, StatusesKept
  <2>2. QED
    BY <1>2, <2>1 DEF Rests
<1>4. ASSUME CancelOrders(c) \/ ExitAtMarket(c) \/ MarkClosed(c)
      PROVE  Rests \/ \E p \in Positions : Closes(p)
  <2>1. PICK p \in Positions : target[c] = p
    BY <1>1, <1>4, AtWork DEF CancelOrders, ExitAtMarket, MarkClosed
  <2>2. CASE CancelOrders(c)
    <3>1. AllKindsKept /\ StatusesKept
      BY <1>1, <2>1, <2>2, BrokerKinds DEF AllKindsKept, StatusesKept, CancelOrders, IInv, TypeOK
    <3>2. QED
      BY <1>2, <3>1 DEF Rests
  <2>3. CASE ExitAtMarket(c)
    <3>1. StatusesKept /\ (AllKindsKept \/ (Sells(p, "exit") /\ EntryFilled(p)))
      BY <1>1, <2>1, <2>3, ExitShape
    <3>2. QED
      BY <1>2, <3>1 DEF Rests, Closes
  <2>4. CASE MarkClosed(c)
    <3>1. AllKindsKept /\ Becomes(p, {"CLOSED"})
      BY <2>1, <2>4, StatusWritten, NothingSent DEF MarkClosed
    <3>2. QED
      BY <1>2, <3>1 DEF Closes
  <2>5. QED
    BY <1>4, <2>2, <2>3, <2>4
<1> QED
  BY <1>3, <1>4 DEF Close

\* The broker and the connection move neither statuses nor the monitor.
LEMMA BrokerShape ==
  ASSUME IInv,
         \/ Gateway \/ MonitorSubscribes \/ Drop \/ ChangeMode
         \/ \E f \in Flows : Disconnect(f) \/ Reconnect(f)
         \/ UNCHANGED vars
  PROVE  Rests
<1>1. UNCHANGED <<mem, at, target, restarted>>
  BY DEF Gateway, MonitorSubscribes, Drop, ChangeMode, Disconnect, Reconnect, vars, managedVars
<1>2. AllKindsKept
  <2>1. CASE UNCHANGED vars
    BY <2>1, OrdersKeptKinds DEF vars, brokerVars, AllKindsKept
  <2>2. CASE \/ Gateway \/ MonitorSubscribes \/ Drop \/ ChangeMode
             \/ \E f \in Flows : Disconnect(f) \/ Reconnect(f)
    BY <2>2, BrokerKinds DEF AllKindsKept, IInv, TypeOK
  <2>3. QED
    BY <2>1, <2>2
<1> QED
  BY <1>1, <1>2 DEF Rests, MonitorStays, StatusesKept

LEMMA RestartShape ==
  ASSUME IInv, Crash \/ GoroutinePanic
  PROVE  Restarts
<1>1. AllKindsKept
  BY BrokerKinds DEF AllKindsKept, IInv, TypeOK
<1>2. Restart
  BY DEF Crash, GoroutinePanic
<1>3. restarted' = TRUE /\ at'[Monitor] = "idle"
  BY <1>2 DEF Restart, Actors
<1> QED
  BY <1>1, <1>3 DEF Restarts

\* Every step is one of these.
LEMMA StepShape ==
  ASSUME IInv, [Next]_vars
  PROVE  \/ Rests \/ Restarts
         \/ \E p \in Positions : Places(p) \/ Closes(p) \/ Inspects(p) \/ Decides(p) \/ Trades(p)
<1>1. CASE \E p \in Positions : PlaceEntry(p) \/ StorePosition(p) \/ SavePosition(p)
  <2>1. PICK p \in Positions : PlaceEntry(p) \/ StorePosition(p) \/ SavePosition(p)
    BY <1>1
  <2>2. CASE PlaceEntry(p)
    BY <2>2, PlaceShape
  <2>3. CASE StorePosition(p) \/ SavePosition(p)
    BY <2>3, NothingSent DEF StorePosition, SavePosition, Rests, MonitorStays, StatusesKept
  <2>4. QED
    BY <2>1, <2>2, <2>3
<1>2. CASE \E c \in Closers : (\E p \in Positions : HandleClose(c, p)) \/ Close(c) \/ HandlerPanic(c)
  BY <1>2, RequestShape
<1>3. CASE \E p \in {target[Monitor]} \ {NoPosition} :
             \/ CheckEntryOrder(p) \/ CheckBrokerPosition(p) \/ PlacePartialExit(p)
             \/ CheckPrice(p) \/ CheckHolding(p) \/ CheckOrders(p)
  <2>1. PICK p \in {target[Monitor]} \ {NoPosition} :
          \/ CheckEntryOrder(p) \/ CheckBrokerPosition(p) \/ PlacePartialExit(p)
          \/ CheckPrice(p) \/ CheckHolding(p) \/ CheckOrders(p)
    BY <1>3
  <2>2. p \in Positions /\ target[Monitor] = p
    BY <2>1 DEF IInv, TypeOK, ManagedTypeOK, Actors
  <2>3. QED
    BY <2>1, <2>2, EntryShape, LostShape, PartialShape, PriceShape, HoldingShape, OrdersShape
<1>4. CASE Close(Monitor)
  <2>1. at[Monitor] # "idle" /\ Monitor \in Actors
    BY <1>4 DEF Close, CancelOrders, ExitAtMarket, MarkClosed, Save, Actors
  <2>2. PICK p \in Positions : target[Monitor] = p
    BY <2>1, AtWork
  <2>3. QED
    BY <1>4, <2>2, MonitorCloseShape
<1>5. CASE Tick \/ \E p \in todo : Look(p)
  <2>1. CASE Tick
    BY <2>1, NothingSent DEF Tick, Rests, MonitorStays, StatusesKept
  <2>2. CASE \E p \in todo : Look(p)
    BY <2>2, LookShape DEF IInv, TypeOK, ManagedTypeOK
  <2>3. QED
    BY <1>5, <2>1, <2>2
<1>6. CASE \/ Gateway \/ MonitorSubscribes \/ Drop \/ ChangeMode
           \/ \E f \in Flows : Disconnect(f) \/ Reconnect(f)
           \/ UNCHANGED vars
  BY <1>6, BrokerShape
<1>7. CASE Crash \/ GoroutinePanic
  BY <1>7, RestartShape
<1> QED
  BY <1>1, <1>2, <1>3, <1>4, <1>5, <1>6, <1>7 DEF Next, MonitorStep

\* One order sent keeps filled entries filled.
LEMMA SendFilled ==
  ASSUME BrokerTypeOK, NEW p \in Positions, NEW new, Fresh(new), Send(p, new)
  PROVE  \A q \in Positions : EntryFilled(q) => EntryFilled(q)'
<1>1. /\ \A q \in Positions \ {p} : orders'[q] = orders[q]
      /\ DOMAIN orders[p] = 1 .. Len(orders[p])
      /\ orders'[p] # <<>>
      /\ \A k \in 1 .. Len(orders[p]) : orders'[p][k] = orders[p][k]
  BY SendEffect
<1>2. orders[p] # <<>> => Entry \in DOMAIN orders[p]
  BY LenProperties, EmptySeq DEF Entry, BrokerTypeOK
<1> QED
  BY <1>1, <1>2 DEF EntryFilled

\* Whatever happens, a filled entry stays filled.
LEMMA FilledStays ==
  ASSUME IInv, [Next]_vars
  PROVE  \A p \in Positions : EntryFilled(p) => EntryFilled(p)'
<1>0. BrokerTypeOK /\ BrokerInv
  BY DEF IInv, TypeOK
<1>1. CASE UNCHANGED orders
  BY <1>1 DEF EntryFilled
<1>2. ASSUME NEW p \in Positions, PlaceEntry(p)
      PROVE  \A q \in Positions : EntryFilled(q) => EntryFilled(q)'
  BY <1>0, <1>2, EntryGroup, SendFilled
<1>3. ASSUME NEW p \in Positions, NEW o \in Order,
             o.state \in {"working", "refused"}, o.cached = "none", Send(p, <<o>>)
      PROVE  \A q \in Positions : EntryFilled(q) => EntryFilled(q)'
  <2>1. Fresh(<<o>>)
    BY <1>3 DEF Fresh, Open
  <2>2. QED
    BY <1>0, <1>3, <2>1, SendFilled
<1>4. ASSUME NEW a \in Actors, Close(a)
      PROVE  \A q \in Positions : EntryFilled(q) => EntryFilled(q)'
  <2>1. CASE MarkClosed(a) \/ Save(a)
    BY <1>1, <2>1 DEF MarkClosed, Save, brokerVars
  <2>2. ASSUME CancelOrders(a) \/ ExitAtMarket(a)
        PROVE  \A q \in Positions : EntryFilled(q) => EntryFilled(q)'
    <3>1. PICK p \in Positions : target[a] = p
      BY <2>2, AtWork DEF CancelOrders, ExitAtMarket
    <3>2. CASE CancelOrders(a)
      <4>1. PICK ks : Cancel(p, ks) /\ UNCHANGED <<holding, posCache, subscribed, feed>>
        BY <3>1, <3>2 DEF CancelOrders
      <4>2. OrdersGrow({})
        BY <1>0, <4>1, CancelKeeps
      <4>3. QED
        BY <4>2 DEF OrdersGrow
    <3>3. CASE ExitAtMarket(a)
      BY <1>1, <1>3, <3>1, <3>3, ExitSent
    <3>4. QED
      BY <2>2, <3>2, <3>3
  <2>3. QED
    BY <1>4, <2>1, <2>2 DEF Close
<1>5. CASE Crash \/ GoroutinePanic
  <2>1. FreshCaches
    BY <1>5 DEF Crash, GoroutinePanic, Restart
  <2>2. QED
    BY <1>0, <2>1, EmptyCachesKeep DEF OrdersGrow
<1>6. CASE \/ Gateway \/ MonitorSubscribes \/ Drop \/ ChangeMode
           \/ \E f \in Flows : Disconnect(f) \/ Reconnect(f)
           \/ UNCHANGED vars
  BY <1>6, BrokerGrows DEF OrdersGrow
<1>7. ASSUME NEW p \in {target[Monitor]} \ {NoPosition}, PlacePartialExit(p)
      PROVE  \A q \in Positions : EntryFilled(q) => EntryFilled(q)'
  <2>1. p \in Positions /\ target[Monitor] = p
    BY DEF IInv, TypeOK, ManagedTypeOK, Actors
  <2>2. QED
    BY <1>1, <1>3, <1>7, <2>1, PartialSent
<1>8. CASE \/ \E p \in Positions : StorePosition(p) \/ SavePosition(p)
           \/ \E c \in Closers : (\E p \in Positions : HandleClose(c, p)) \/ HandlerPanic(c)
           \/ Tick \/ \E p \in todo : Look(p)
           \/ \E p \in {target[Monitor]} \ {NoPosition} :
                CheckEntryOrder(p) \/ CheckBrokerPosition(p) \/ CheckPrice(p)
                \/ CheckHolding(p) \/ CheckOrders(p)
  BY <1>1, <1>8 DEF StorePosition, SavePosition, HandleClose, HandlerPanic, Tick, Look, CheckEntryOrder,
                    CheckBrokerPosition, CheckPrice, CheckHolding, CheckOrders, brokerVars
<1> QED
  BY <1>2, <1>4, <1>5, <1>6, <1>7, <1>8 DEF Next, MonitorStep, Actors

-----------------------------------------------------------------------------
(* One partial exit, one exit, and only forward *)

LEMMA AtMostOne ==
  ASSUME NEW S, \A j, k \in S : j = k
  PROVE  Cardinality(S) <= 1
<1>1. CASE S = {}
  BY <1>1, FS_EmptySet
<1>2. CASE S # {}
  <2>1. PICK x \in S : TRUE
    BY <1>2
  <2>2. S = {x}
    BY <2>1
  <2>3. QED
    BY <2>2, FS_Singleton
<1> QED
  BY <1>1, <1>2

\* A position that the monitor works on has been placed.
LEMMA PlacedIsNew ==
  ASSUME IInv, NEW p \in Positions, Places(p)
  PROVE  at[Monitor] # "idle" => target[Monitor] # p /\ target[Monitor] \in Positions
BY AtWork DEF Places, Actors

LEMMA PartialInit == Init => PartialIsOnce /\ ExitsFollowEntry
BY DEF Init, BrokerInit, PartialIsOnce, ExitsFollowEntry, Sent, Actors

\* A partial exit is sent when the position has just become active, which
\* happens once; a restart may find it PENDING in its row again.
LEMMA PartialKeeps ==
  ASSUME IInv, PartialIsOnce, [Next]_vars
  PROVE  PartialIsOnce'
<1>1. CASE Restarts
  BY <1>1 DEF Restarts, PartialIsOnce
<1>2. CASE Rests
  <2>1. \A p \in Positions : NotYetActive(p)' => NotYetActive(p)
    BY <1>2 DEF Rests, MonitorStays, StatusesKept, NotYetActive
  <2>2. at'[Monitor] = "partial" => mem'[target'[Monitor]].status \notin {"none", "PENDING"}
    BY <1>2, AtWork DEF Rests, MonitorStays, StatusesKept, PartialIsOnce, Actors
  <2>3. QED
    BY <1>2, <2>1, <2>2 DEF Rests, MonitorStays, AllKindsKept, KindsKept, PartialIsOnce
<1>3. ASSUME NEW p \in Positions, Places(p)
      PROVE  PartialIsOnce'
  <2>1. \A q \in Positions \ {p} : NotYetActive(q)' => NotYetActive(q)
    BY <1>3 DEF Places, MonitorStays, Becomes, NotYetActive
  <2>2. at'[Monitor] = "partial" => mem'[target'[Monitor]].status \notin {"none", "PENDING"}
    BY <1>3, PlacedIsNew DEF Places, MonitorStays, Becomes, PartialIsOnce
  <2>3. QED
    BY <1>3, <2>1, <2>2 DEF Places, MonitorStays, KindsKept, PartialIsOnce
<1>4. ASSUME NEW p \in Positions, Closes(p)
      PROVE  PartialIsOnce'
  <2>1. \A q \in Positions : /\ NotYetActive(q)' => NotYetActive(q)
                             /\ mem'[q].status \in {mem[q].status, "CLOSED"}
    BY <1>4 DEF Closes, MonitorStays, Becomes, StatusesKept, NotYetActive
  <2>2. \A q \in Positions : Sent(q, "partial")' = Sent(q, "partial")
    BY <1>4 DEF Closes, Sells, AllKindsKept, KindsKept
  <2>3. at'[Monitor] = "partial" => mem'[target'[Monitor]].status \notin {"none", "PENDING"}
    BY <1>4, <2>1, AtWork DEF Closes, MonitorStays, PartialIsOnce, Actors
  <2>4. QED
    BY <1>4, <2>1, <2>2, <2>3 DEF Closes, MonitorStays, PartialIsOnce
<1>5. ASSUME NEW p \in Positions, Inspects(p)
      PROVE  PartialIsOnce'
  <2>1. \A q \in Positions : NotYetActive(q)' => NotYetActive(q)
    BY <1>5 DEF Inspects, Goes, StatusesKept, NotYetActive
  <2>2. at'[Monitor] # "partial" /\ UNCHANGED restarted
    BY <1>5 DEF Inspects, Goes
  <2>3. QED
    BY <1>5, <2>1, <2>2 DEF Inspects, AllKindsKept, KindsKept, PartialIsOnce
<1>6. ASSUME NEW p \in Positions, Decides(p)
      PROVE  PartialIsOnce'
  <2>1. \A q \in Positions : NotYetActive(q)' => NotYetActive(q)
    BY <1>6 DEF Decides, Goes, Becomes, Ended, NotYetActive
  <2>2. at'[Monitor] = "partial" => mem'[target'[Monitor]].status \notin {"none", "PENDING"}
    BY <1>6 DEF Decides, Goes, Becomes
  <2>3. UNCHANGED restarted
    BY <1>6 DEF Decides, Goes
  <2>4. QED
    BY <1>6, <2>1, <2>2, <2>3 DEF Decides, AllKindsKept, KindsKept, PartialIsOnce
<1>7. ASSUME NEW p \in Positions, Trades(p)
      PROVE  PartialIsOnce'
  <2>1. \A q \in Positions : NotYetActive(q)' => NotYetActive(q)
    BY <1>7 DEF Trades, Goes, StatusesKept, NotYetActive
  <2>2. at'[Monitor] # "partial" /\ UNCHANGED restarted
    BY <1>7 DEF Trades, Goes
  <2>3. CASE Goes(p, "exit", "mark") /\ Sells(p, "exit")
    <3>1. \A q \in Positions : Sent(q, "partial")' = Sent(q, "partial")
      BY <2>3 DEF Sells, KindsKept
    <3>2. QED
      BY <2>1, <2>2, <3>1 DEF PartialIsOnce
  <2>4. CASE Goes(p, "partial", "save") /\ Sells(p, "partial")
    <3>1. NotYetActive(p) /\ ~NotYetActive(p)'
      BY <1>7, <2>4 DEF Goes, Trades, StatusesKept, NotYetActive, PartialIsOnce
    <3>2. \A q \in Positions \ {p} : Sent(q, "partial")' = Sent(q, "partial")
      BY <2>4 DEF Sells, KindsKept
    <3>3. restarted \/ \A j, k \in Sent(p, "partial")' : j = k
      BY <2>4, <3>1 DEF Sells, SendsOne, PartialIsOnce
    <3>4. QED
      BY <2>1, <2>2, <3>1, <3>2, <3>3 DEF PartialIsOnce
  <2>5. QED
    BY <1>7, <2>3, <2>4 DEF Trades
<1> QED
  BY <1>1, <1>2, <1>3, <1>4, <1>5, <1>6, <1>7, StepShape

\* An exit is sent for a filled entry, which stays filled.
LEMMA ExitsKeep ==
  ASSUME IInv, ExitsFollowEntry, [Next]_vars
  PROVE  ExitsFollowEntry'
<1>1. \A p \in Positions : Sent(p, "exit")' \in {{}, Sent(p, "exit")} \/ EntryFilled(p)
  <2>1. CASE Rests \/ Restarts
    BY <2>1 DEF Rests, Restarts, AllKindsKept, KindsKept
  <2>2. CASE \E p \in Positions : Places(p)
    BY <2>2 DEF Places, KindsKept
  <2>3. CASE \E p \in Positions : Inspects(p) \/ Decides(p)
    BY <2>3 DEF Inspects, Decides, AllKindsKept, KindsKept
  <2>4. CASE \E p \in Positions : Closes(p)
    BY <2>4 DEF Closes, Sells, AllKindsKept, KindsKept
  <2>5. CASE \E p \in Positions : Trades(p)
    BY <2>5 DEF Trades, Sells, KindsKept
  <2>6. QED
    BY <2>1, <2>2, <2>3, <2>4, <2>5, StepShape
<1> QED
  BY <1>1, FilledStays DEF ExitsFollowEntry

\* Until the process restarts a position gets one partial exit at most, and
\* never a market exit before its entry filled, whoever closes it and whatever
\* the connection does.
THEOREM PartialExitOnce == Spec => [](OnePartialExit /\ ExitsFollowEntry)
<1>1. Init => IInv /\ PartialIsOnce /\ ExitsFollowEntry
  BY InitEstablishes, PartialInit
<1>2. /\ IInv /\ PartialIsOnce /\ ExitsFollowEntry /\ [Next]_vars
        => (IInv /\ PartialIsOnce /\ ExitsFollowEntry)'
  BY NextKeeps, PartialKeeps, ExitsKeep
<1>3. PartialIsOnce => OnePartialExit
  BY AtMostOne DEF PartialIsOnce, OnePartialExit
<1> QED
  BY <1>1, <1>2, <1>3, PTL DEF Spec

LEMMA ExitInit == Init => MonitorKnows /\ ExitIsOnce
BY DEF Init, BrokerInit, MonitorKnows, ExitIsOnce, Sent, Actors

\* Without a close request the monitor alone changes a status.
LEMMA KnowsKeeps ==
  ASSUME IInv, MonitorKnows, Closers = {}, [Next]_vars
  PROVE  MonitorKnows'
<1>0. at[Monitor] # "idle" => target[Monitor] \in Positions
  BY AtWork DEF Actors
<1>1. CASE Restarts
  BY <1>1 DEF Restarts, MonitorKnows
<1>2. CASE Rests
  BY <1>0, <1>2 DEF Rests, MonitorStays, StatusesKept, MonitorKnows
<1>3. ASSUME NEW p \in Positions, Places(p)
      PROVE  MonitorKnows'
  BY <1>3, PlacedIsNew DEF Places, MonitorStays, Becomes, MonitorKnows
<1>4. ASSUME NEW p \in Positions, Inspects(p)
      PROVE  MonitorKnows'
  BY <1>4 DEF Inspects, Goes, StatusesKept, MonitorKnows
<1>5. ASSUME NEW p \in Positions, Decides(p)
      PROVE  MonitorKnows'
  BY <1>5 DEF Decides, Goes, Becomes, MonitorKnows
<1>6. ASSUME NEW p \in Positions, Trades(p)
      PROVE  MonitorKnows'
  BY <1>6 DEF Trades, Goes, StatusesKept, MonitorKnows
<1> QED
  BY <1>1, <1>2, <1>3, <1>4, <1>5, <1>6, StepShape DEF Closes

\* So it exits an active position, and marks it before it looks at it again.
LEMMA ExitKeeps ==
  ASSUME IInv, MonitorKnows, ExitIsOnce, Closers = {}, [Next]_vars
  PROVE  ExitIsOnce'
<1> DEFINE Waits(p) == mem[p].status \notin Ended /\ ~(at[Monitor] = "mark" /\ target[Monitor] = p)
<1>1. CASE Restarts
  BY <1>1 DEF Restarts, ExitIsOnce
<1>2. CASE Rests
  BY <1>2 DEF Rests, MonitorStays, StatusesKept, AllKindsKept, KindsKept, ExitIsOnce
<1>3. ASSUME NEW p \in Positions, Places(p)
      PROVE  ExitIsOnce'
  BY <1>3 DEF Places, MonitorStays, Becomes, KindsKept, ExitIsOnce
<1>4. ASSUME NEW p \in Positions, Inspects(p) \/ Decides(p)
      PROVE  ExitIsOnce'
  <2>1. \A q \in Positions : Waits(q)' => Waits(q)
    <3>1. CASE Inspects(p)
      BY <3>1 DEF Inspects, Goes, StatusesKept
    <3>2. CASE Decides(p)
      BY <3>2 DEF Decides, Goes, Becomes, MonitorKnows, Ended
    <3>3. QED
      BY <1>4, <3>1, <3>2
  <2>2. AllKindsKept /\ UNCHANGED restarted
    BY <1>4 DEF Inspects, Decides, Goes
  <2>3. QED
    BY <2>1, <2>2 DEF AllKindsKept, KindsKept, ExitIsOnce
<1>5. ASSUME NEW p \in Positions, Trades(p)
      PROVE  ExitIsOnce'
  <2>1. \A q \in Positions : Waits(q)' => Waits(q)
    BY <1>5 DEF Trades, Goes, StatusesKept
  <2>2. UNCHANGED restarted
    BY <1>5 DEF Trades, Goes
  <2>3. CASE Goes(p, "partial", "save") /\ Sells(p, "partial")
    <3>1. \A q \in Positions : Sent(q, "exit")' = Sent(q, "exit")
      BY <2>3 DEF Sells, KindsKept
    <3>2. QED
      BY <2>1, <2>2, <3>1 DEF ExitIsOnce
  <2>4. CASE Goes(p, "exit", "mark") /\ Sells(p, "exit")
    <3>1. Waits(p) /\ ~Waits(p)'
      BY <2>4 DEF Goes, MonitorKnows, Ended
    <3>2. \A q \in Positions \ {p} : Sent(q, "exit")' = Sent(q, "exit")
      BY <2>4 DEF Sells, KindsKept
    <3>3. restarted \/ \A j, k \in Sent(p, "exit")' : j = k
      BY <2>4, <3>1 DEF Sells, SendsOne, ExitIsOnce
    <3>4. QED
      BY <2>1, <2>2, <3>1, <3>2, <3>3 DEF ExitIsOnce
  <2>5. QED
    BY <1>5, <2>3, <2>4 DEF Trades
<1> QED
  BY <1>1, <1>2, <1>3, <1>4, <1>5, StepShape DEF Closes

\* Without close requests: until the process restarts the monitor sends one
\* market exit at most for a position, and none before its entry filled.
THEOREM ExitOnce ==
  ASSUME Closers = {}
  PROVE  Spec => []OneExit
<1> DEFINE Once == IInv /\ ExitsFollowEntry /\ MonitorKnows /\ ExitIsOnce
<1>1. Init => Once
  BY InitEstablishes, PartialInit, ExitInit
<1>2. Once /\ [Next]_vars => Once'
  BY NextKeeps, ExitsKeep, KnowsKeeps, ExitKeeps
<1>3. Once => OneExit
  BY AtMostOne DEF ExitIsOnce, ExitsFollowEntry, OneExit
<1> HIDE DEF Once
<1> QED
  BY <1>1, <1>2, <1>3, PTL DEF Spec

\* Without close requests a position only moves forward in one life of the
\* process, and one that has ended stays so.
THEOREM ForwardOnly ==
  ASSUME Closers = {}
  PROVE  Spec => MovesForward
<1> DEFINE Knows == IInv /\ MonitorKnows
           Forward == \A p \in Positions :
             mem'[p].status # mem[p].status /\ ~(Crash \/ GoroutinePanic) =>
               <<mem[p].status, mem'[p].status>> \in
                 ({"none"} \X {"PENDING"})
                 \union ({"PENDING"} \X {"ACTIVE", "CLOSED"})
                 \union ({"ACTIVE"} \X (Ended \union {"PARTIAL"}))
<1>1. Init => Knows
  BY InitEstablishes, ExitInit
<1>2. Knows /\ [Next]_vars => Knows'
  BY NextKeeps, KnowsKeeps
<1>3. Knows /\ [Next]_vars => Forward
  <2> SUFFICES ASSUME IInv, MonitorKnows, [Next]_vars, NEW q \in Positions,
                      mem'[q].status # mem[q].status, ~(Crash \/ GoroutinePanic)
               PROVE  \/ mem[q].status = "none" /\ mem'[q].status = "PENDING"
                      \/ mem[q].status = "PENDING" /\ mem'[q].status \in {"ACTIVE", "CLOSED"}
                      \/ mem[q].status = "ACTIVE" /\ mem'[q].status \in Ended \union {"PARTIAL"}
    OBVIOUS
  <2>1. ~Rests /\ ~Restarts /\ \A p \in Positions : ~Inspects(p) /\ ~Trades(p) /\ ~Closes(p)
    BY DEF Rests, Restarts, Inspects, Trades, StatusesKept, Closes
  <2>2. PICK p \in Positions : Places(p) \/ Decides(p)
    BY <2>1, StepShape
  <2>3. QED
    BY <2>2 DEF Places, Decides, Goes, Becomes, MonitorKnows, Ended
<1> HIDE DEF Knows
<1>4. Spec => [][Forward]_vars
  BY <1>1, <1>2, <1>3, PTL DEF Spec
<1> QED
  BY <1>4 DEF MovesForward

-----------------------------------------------------------------------------
(* A session that holds, and what a step of it does to orders and holdings *)

\* The orders of q, but for what the cache says of them, and what q holds.
Untouched(q) ==
  /\ DOMAIN orders'[q] = DOMAIN orders[q]
  /\ \A k \in DOMAIN orders[q] :
       /\ orders'[q][k].state = orders[q][k].state
       /\ orders'[q][k].kind = orders[q][k].kind /\ orders'[q][k].qty = orders[q][k].qty
  /\ holding'[q] = holding[q]

AllUntouched == \A q \in Positions : Untouched(q)

OnlyTouches(p) == \A q \in Positions \ {p} : Untouched(q)

\* The gateway changes states of orders of p.
Moves(p, new) ==
  /\ OnlyTouches(p)
  /\ DOMAIN orders'[p] = DOMAIN orders[p]
  /\ \A k \in DOMAIN orders[p] :
       /\ orders'[p][k].state = new[k]
       /\ orders'[p][k].kind = orders[p][k].kind /\ orders'[p][k].qty = orders[p][k].qty

Fills(p, k) ==
  /\ k \in DOMAIN orders[p] /\ orders[p][k].state = "working"
  /\ Moves(p, AfterFill(p, k))
  /\ holding'[p] = IF k = Entry THEN holding[p] + orders[p][k].qty ELSE holding[p] - orders[p][k].qty

Cancels(p, ks) == Moves(p, AfterCancel(p, ks)) /\ holding'[p] = holding[p]

\* One more order of p arrives, or is refused.
Adds(p, kind, qty) ==
  /\ OnlyTouches(p)
  /\ DOMAIN orders'[p] = DOMAIN orders[p] \union {Len(orders[p]) + 1}
  /\ \A k \in DOMAIN orders[p] : orders'[p][k] = orders[p][k]
  /\ orders'[p][Len(orders[p]) + 1].kind = kind
  /\ orders'[p][Len(orders[p]) + 1].qty = qty
  /\ orders'[p][Len(orders[p]) + 1].state \in {"working", "refused"}
  /\ holding'[p] = holding[p]

\* The first orders of p.
Begins(p) ==
  /\ OnlyTouches(p)
  /\ orders[p] = <<>>
  /\ \A k \in DOMAIN orders'[p] :
       /\ orders'[p][k].state \in Open /\ orders'[p][k].qty = Quantity
       /\ orders'[p][k].kind \in {"entry", "tp", "sl"}
       /\ k = Entry <=> orders'[p][k].kind = "entry"
  /\ holding'[p] = holding[p]

LEMMA SameUntouched ==
  ASSUME UNCHANGED <<orders, holding>>
  PROVE  AllUntouched
BY DEF AllUntouched, Untouched

LEMMA MoveMoves ==
  ASSUME BrokerTypeOK, NEW p \in Positions, NEW new, Legal(p, new), Move(p, new),
         \A q \in Positions \ {p} : holding'[q] = holding[q]
  PROVE  Moves(p, new)
BY MoveEffect DEF Moves, OnlyTouches, Untouched

LEMMA FillMoves ==
  ASSUME IInv, NEW p \in Positions, NEW k \in DOMAIN orders[p], Fill(p, k)
  PROVE  Fills(p, k)
<1>1. \A j \in DOMAIN orders[p] : orders[p][j].state \in OrderStates
  BY NonEmpty DEF Order, IInv, TypeOK, BrokerTypeOK
<1>2. Legal(p, AfterFill(p, k))
  BY <1>1 DEF Legal, AfterFill, Fill, OrderStates, Open
<1>3. \A q \in Positions : holding'[q] =
        IF q # p THEN holding[q]
        ELSE IF k = Entry THEN holding[p] + orders[p][k].qty ELSE holding[p] - orders[p][k].qty
  BY DEF Fill, IInv, TypeOK, BrokerTypeOK
<1>4. Moves(p, AfterFill(p, k))
  BY <1>2, <1>3, MoveMoves DEF Fill, IInv, TypeOK
<1> QED
  BY <1>3, <1>4 DEF Fills, Fill

LEMMA CancelCancels ==
  ASSUME IInv, NEW p \in Positions, NEW ks, Move(p, AfterCancel(p, ks)), UNCHANGED holding
  PROVE  Cancels(p, ks)
<1>1. \A j \in DOMAIN orders[p] : orders[p][j].state \in OrderStates
  BY NonEmpty DEF Order, IInv, TypeOK, BrokerTypeOK
<1>2. Legal(p, AfterCancel(p, ks))
  BY <1>1 DEF Legal, AfterCancel, OrderStates, Open
<1> QED
  BY <1>2, MoveMoves DEF Cancels, IInv, TypeOK

LEMMA ForgetTouchesNothing ==
  ASSUME IInv, orders' = [p \in Positions |-> Forget(orders[p])], UNCHANGED holding
  PROVE  AllUntouched
<1> SUFFICES ASSUME NEW p \in Positions PROVE Untouched(p)
  BY DEF AllUntouched
<1>1. orders[p] \in Seq(Order) /\ orders'[p] = Forget(orders[p])
  BY DEF IInv, TypeOK, BrokerTypeOK
<1>2. \A k \in DOMAIN orders[p] :
        LET o == [orders[p][k] EXCEPT !.cached = "none"] IN
        o.kind = orders[p][k].kind /\ o.qty = orders[p][k].qty /\ o.state = orders[p][k].state
  BY <1>1, NonEmpty DEF Order
<1> QED
  BY <1>1, <1>2 DEF Forget, Untouched

\* An order that is sent while the connection is up arrives.
LEMMA SendAdds ==
  ASSUME IInv, conn = "up", NEW p \in Positions, NEW o \in Order,
         o.state \in {"working", "refused"}, o.cached = "none", Send(p, <<o>>), UNCHANGED holding
  PROVE  Adds(p, o.kind, o.qty)
<1> DEFINE n == Len(orders[p])
           new == <<o>>
<1>1. Fresh(new) /\ Len(new) = 1 /\ new[1] = o
  BY DEF Fresh, Open
<1>2. Send(p, new)
  OBVIOUS
<1> HIDE DEF new
<1>6. BrokerTypeOK /\ Fresh(new)
  BY <1>1 DEF IInv, TypeOK
<1>7. /\ \A q \in Positions \ {p} : orders'[q] = orders[q]
      /\ Len(orders[p]) \in Nat
      /\ DOMAIN orders[p] = 1 .. Len(orders[p])
      /\ DOMAIN orders'[p] = 1 .. Len(orders[p]) + Len(new)
      /\ \A k \in 1 .. Len(orders[p]) : orders'[p][k] = orders[p][k]
      /\ \A k \in 1 .. Len(new) : /\ orders'[p][Len(orders[p]) + k].kind = new[k].kind
                                  /\ orders'[p][Len(orders[p]) + k].qty = new[k].qty
  BY <1>2, <1>6, SendEffect
<1>8. \A k \in 1 .. Len(new) : orders'[p][Len(orders[p]) + k].state = new[k].state
  BY <1>2, <1>6, SendArrives
<1>3. /\ \A q \in Positions \ {p} : orders'[q] = orders[q]
      /\ n \in Nat /\ DOMAIN orders[p] = 1 .. n
      /\ DOMAIN orders'[p] = 1 .. n + Len(new)
      /\ \A k \in 1 .. n : orders'[p][k] = orders[p][k]
      /\ \A k \in 1 .. Len(new) : orders'[p][n + k].kind = new[k].kind /\ orders'[p][n + k].qty = new[k].qty
      /\ \A k \in 1 .. Len(new) : orders'[p][n + k].state = new[k].state
  BY <1>7, <1>8
<1> HIDE DEF n
<1>4. /\ DOMAIN orders'[p] = DOMAIN orders[p] \union {n + 1}
      /\ orders'[p][n + 1].kind = o.kind /\ orders'[p][n + 1].qty = o.qty
      /\ orders'[p][n + 1].state = o.state
  BY <1>1, <1>3
<1>5. OnlyTouches(p)
  BY <1>3 DEF OnlyTouches, Untouched
<1> QED
  BY <1>3, <1>4, <1>5 DEF n, Adds

\* A request's bracket arrives.
LEMMA EntryBegins ==
  ASSUME IInv, conn = "up", NEW p \in Positions, PlaceEntry(p)
  PROVE  Begins(p)
<1>1. orders[p] = <<>> /\ UNCHANGED holding
  BY Known DEF PlaceEntry
<1>2. PICK new : /\ Send(p, new) /\ Fresh(new)
                 /\ \A k \in DOMAIN new :
                      /\ new[k].kind \in {"entry", "tp", "sl"} /\ new[k].qty = Quantity
                      /\ new[k].state \in Open
                      /\ k = Entry => new[k].kind = "entry"
                      /\ k # Entry => new[k].kind \in {"tp", "sl"}
  BY EntryGroup
<1>3. /\ \A q \in Positions \ {p} : orders'[q] = orders[q]
      /\ Len(orders[p]) = 0 /\ DOMAIN new = 1 .. Len(new) /\ Len(new) \in Nat
      /\ DOMAIN orders'[p] = 1 .. 0 + Len(new)
      /\ \A k \in 1 .. Len(new) : orders'[p][0 + k].kind = new[k].kind /\ orders'[p][0 + k].qty = new[k].qty
      /\ \A k \in 1 .. Len(new) : orders'[p][0 + k].state = new[k].state
  <2>1. BrokerTypeOK /\ Len(orders[p]) = 0
    BY <1>1 DEF IInv, TypeOK
  <2>2. QED
    BY <1>2, <2>1, SendEffect, SendArrives
<1>4. \A k \in 1 .. Len(new) : 0 + k = k
  BY <1>3
<1>5. DOMAIN orders'[p] = DOMAIN new
      /\ \A k \in DOMAIN new : /\ orders'[p][k].kind = new[k].kind
                               /\ orders'[p][k].qty = new[k].qty
                               /\ orders'[p][k].state = new[k].state
  BY <1>3, <1>4
<1>6. OnlyTouches(p)
  BY <1>1, <1>3 DEF OnlyTouches, Untouched
<1> QED
  BY <1>1, <1>2, <1>5, <1>6 DEF Begins

LEMMA SessionInit ==
  ASSUME Undisturbed
  PROVE  Init => SessionHolds
<1> SUFFICES ASSUME Init PROVE SessionHolds
  OBVIOUS
<1>1. /\ enabled = TRUE /\ mode \in Modes /\ conn = "up"
      /\ flow = [f \in Flows |-> "watching"]
      /\ subscribed = TRUE /\ feed = TRUE
  BY DEF Init, GateInit, BrokerInit
<1>2. \A p \in Positions : posCache[p] = 0 /\ holding[p] = 0
  BY DEF Init, BrokerInit
<1>3. AbsQty(0) = 0
  BY DEF AbsQty
<1> QED
  BY <1>1, <1>2, <1>3 DEF SessionHolds, Undisturbed, AllowsExecution

\* Nothing ends a session that is not disturbed.
LEMMA NothingDisturbs ==
  ASSUME SessionHolds, Undisturbed
  PROVE  /\ ~GoroutinePanic /\ ~Drop /\ ~MonitorSubscribes
         /\ \A f \in Flows : ~Disconnect(f) /\ ~Reconnect(f)
         /\ Closers = {} /\ conn = "up"
<1>1. ~GoroutinePanic /\ ~MonitorSubscribes
  BY DEF SessionHolds, GoroutinePanic, MonitorSubscribes, SubscribePositions
<1>2. ~Drop
  BY DEF Drop, Fault, Undisturbed
<1>3. ASSUME NEW f \in Flows
      PROVE  ~Disconnect(f) /\ ~Reconnect(f)
  <2>1. ~Disconnect(f)
    BY DEF Disconnect, Halt, Fault, Undisturbed, SessionHolds, Flows
  <2>2. ~Reconnect(f)
    BY DEF Reconnect, CloseOld, TearDown, Opened, ReconnectFailed, Reconnected, ReconnectPanics,
           SessionHolds, Flows
  <2>3. QED
    BY <2>1, <2>2
<1>4. Closers = {} /\ conn = "up"
  BY DEF Undisturbed, SessionHolds
<1> QED
  BY <1>1, <1>2, <1>3, <1>4

\* A session that holds is only disturbed by what is left out.
LEMMA SessionKeeps ==
  ASSUME IInv, SessionHolds, Undisturbed, [Next]_vars
  PROVE  SessionHolds'
<1>0. /\ conn = "up" /\ \A f \in Flows : flow[f] = "watching"
      /\ holding \in [Positions -> Int] /\ posCache \in [Positions -> Nat]
  BY DEF SessionHolds, IInv, TypeOK, BrokerTypeOK
<1>1. CASE UNCHANGED <<gateVars, holding, posCache, subscribed, feed>>
  BY <1>1 DEF SessionHolds, gateVars
<1>2. CASE ChangeMode
  <2>1. mode' \in Modes /\ UNCHANGED <<enabled, conn, flow, holding, posCache, subscribed, feed>>
    BY <1>2 DEF ChangeMode, SwitchMode, brokerVars
  <2>2. AllowsExecution(mode')
    BY <2>1 DEF Undisturbed, AllowsExecution
  <2>3. QED
    BY <2>1, <2>2 DEF SessionHolds, AllowsExecution
<1>3. CASE Gateway
  <2>1. PICK p \in Positions : \/ \E k \in DOMAIN orders[p] : Fill(p, k)
                               \/ CancelledByBroker(p) \/ UpdatePortfolio(p)
    BY <1>3 DEF Gateway
  <2>2. ~UpdatePortfolio(p)
    BY DEF UpdatePortfolio, Undisturbed
  <2>3. CASE CancelledByBroker(p)
    BY <1>1, <1>3, <2>3 DEF CancelledByBroker, Gateway
  <2>4. ASSUME NEW k \in DOMAIN orders[p], Fill(p, k)
        PROVE  SessionHolds'
    <3>1. posCache' = [q \in Positions |-> AbsQty(holding'[q])]
      BY <2>4 DEF Fill, Portfolio, Undisturbed, SessionHolds
    <3>2. UNCHANGED <<gateVars, subscribed, feed>>
      BY <1>3, <2>4 DEF Gateway, Fill
    <3>3. QED
      BY <3>1, <3>2 DEF SessionHolds, gateVars
  <2>5. QED
    BY <2>1, <2>2, <2>3, <2>4
<1>4. CASE Crash
  <2>1. /\ enabled' = TRUE /\ UNCHANGED mode /\ conn' = "up"
        /\ flow' = [f \in Flows |-> "watching"]
        /\ subscribed' = TRUE /\ feed' = TRUE /\ UNCHANGED holding
        /\ posCache' = [p \in Positions |-> AbsQty(holding[p])]
    BY <1>4 DEF Crash, Restart, FreshCaches, Undisturbed
  <2>2. QED
    BY <2>1 DEF SessionHolds
<1>5. ~GoroutinePanic /\ ~Drop /\ ~MonitorSubscribes
      /\ \A f \in Flows : ~Disconnect(f) /\ ~Reconnect(f)
  BY NothingDisturbs
<1>6. CASE UNCHANGED vars
  BY <1>1, <1>6 DEF vars, brokerVars
<1>7. CASE \E p \in Positions : PlaceEntry(p) \/ StorePosition(p) \/ SavePosition(p)
  BY <1>1, <1>7 DEF PlaceEntry, StorePosition, SavePosition, brokerVars
<1>8. CASE \/ Tick \/ \E p \in todo : Look(p)
           \/ \E p \in {target[Monitor]} \ {NoPosition} :
                \/ CheckEntryOrder(p) \/ CheckBrokerPosition(p) \/ PlacePartialExit(p)
                \/ CheckPrice(p) \/ CheckHolding(p) \/ CheckOrders(p)
  BY <1>1, <1>8 DEF Tick, Look, CheckEntryOrder, CheckBrokerPosition, PlacePartialExit, CheckPrice,
                    CheckHolding, CheckOrders, brokerVars
<1>9. CASE Close(Monitor)
  BY <1>1, <1>9 DEF Close, CancelOrders, ExitAtMarket, MarkClosed, Save, brokerVars
<1> QED
  BY <1>2, <1>3, <1>4, <1>5, <1>6, <1>7, <1>8, <1>9 DEF Next, MonitorStep, Undisturbed

\* What the monitor has seen when it looks at p without a change...
Observes(p) ==
  /\ at[Monitor] \notin {"cancel", "exit"}
  /\ at[Monitor] = "entry" /\ at'[Monitor] = "lost" => ~EntryOpen(p)

\* ...and when it changes the status of p.
Reasons(p) ==
  /\ at[Monitor] = "lost" /\ mem'[p].status = "CLOSED" => ~Matches(p)
  /\ at[Monitor] = "holding" => posCache[p] = 0
  /\ at[Monitor] = "orders" /\ mem'[p].status \in Ended => BracketFilled(p)
  /\ at'[Monitor] = "partial" => mem[p].partialExit

\* An order the monitor finds filled is.
LEMMA FoundFilled ==
  ASSUME IInv, NEW p \in Positions, NEW k \in DOMAIN orders[p], GetOrder(p, k, TRUE) = "filled"
  PROVE  orders[p][k].state = "filled"
BY DEF GetOrder, Open, IInv, BrokerInv, CacheIsRight

LEMMA EntryEffect ==
  ASSUME IInv, SessionHolds, MonitorKnows, ~Unlisted,
         NEW p \in Positions, target[Monitor] = p, CheckEntryOrder(p)
  PROVE  AllUntouched /\ ((Inspects(p) /\ Observes(p)) \/ (Decides(p) /\ Reasons(p)))
<1>1. at[Monitor] = "entry" /\ AllUntouched /\ (Inspects(p) \/ Decides(p))
  BY EntryShape, SameUntouched DEF CheckEntryOrder, Here, brokerVars
<1>2. CASE Decides(p)
  <2>1. ~UNCHANGED mem
    BY <1>1, <1>2 DEF Decides, Goes, Becomes, MonitorKnows, Ended
  <2>2. Activate(p)
    BY <2>1, EntryOutcomes
  <2>3. at'[Monitor] = "partial" => mem[p].partialExit
    BY <2>2, GoesTo DEF Activate, Actors
  <2>4. QED
    BY <1>1, <1>2, <2>3 DEF Reasons
<1>3. CASE Inspects(p)
  <2>1. ASSUME at'[Monitor] = "lost", EntryOpen(p)
        PROVE  FALSE
    <3>1. \A listed \in Listings : GetOrder(p, Entry, listed) \in Open
      BY <2>1 DEF GetOrder, Listings, SessionHolds, EntryOpen
    <3>2. Leave
      BY <3>1, EntryOutcomes DEF Open
    <3>3. QED
      BY <2>1, <3>2, GoesTo DEF Leave, Actors
  <2>2. QED
    BY <1>1, <1>3, <2>1 DEF Observes
<1> QED
  BY <1>1, <1>2, <1>3

LEMMA LostEffect ==
  ASSUME IInv, SessionHolds, NEW p \in Positions, target[Monitor] = p, CheckBrokerPosition(p)
  PROVE  AllUntouched /\ Decides(p) /\ Reasons(p)
<1>1. at[Monitor] = "lost" /\ AllUntouched /\ Decides(p)
  BY LostShape, SameUntouched DEF CheckBrokerPosition, Here, brokerVars
<1>2. CASE Matches(p)
  <2>1. Activate(p)
    BY <1>2 DEF CheckBrokerPosition
  <2>2. at'[Monitor] = "partial" => mem[p].partialExit
    BY <2>1, GoesTo DEF Activate, Actors
  <2>3. Becomes(p, {"ACTIVE"})
    BY <2>1, StatusWritten DEF Activate
  <2>4. QED
    BY <1>1, <2>2, <2>3 DEF Becomes, Reasons
<1>3. CASE ~Matches(p)
  <2>1. at'[Monitor] = "save"
    BY <1>3, GoesTo DEF CheckBrokerPosition, Actors
  <2>2. QED
    BY <1>1, <1>3, <2>1 DEF Reasons
<1> QED
  BY <1>2, <1>3

LEMMA HoldingEffect ==
  ASSUME IInv, NEW p \in Positions, target[Monitor] = p, CheckHolding(p)
  PROVE  AllUntouched /\ ((Inspects(p) /\ Observes(p)) \/ (Decides(p) /\ Reasons(p)))
<1>1. at[Monitor] = "holding" /\ AllUntouched /\ (Inspects(p) \/ Decides(p))
  BY HoldingShape, SameUntouched DEF CheckHolding, Here, brokerVars
<1>2. CASE posCache[p] = 0
  <2>1. at'[Monitor] = "save"
    BY <1>2, GoesTo DEF CheckHolding, Actors
  <2>2. QED
    BY <1>1, <1>2, <2>1 DEF Reasons, Observes
<1>3. CASE posCache[p] # 0
  <2>1. at'[Monitor] = "orders"
    BY <1>3, GoesTo DEF CheckHolding, Actors
  <2>2. ~Decides(p)
    BY <2>1 DEF Decides, Goes
  <2>3. QED
    BY <1>1, <2>2 DEF Observes
<1> QED
  BY <1>2, <1>3

LEMMA OrdersEffect ==
  ASSUME IInv, NEW p \in Positions, target[Monitor] = p, CheckOrders(p)
  PROVE  AllUntouched /\ ((Inspects(p) /\ Observes(p)) \/ (Decides(p) /\ Reasons(p)))
<1>1. at[Monitor] = "orders" /\ AllUntouched /\ (Inspects(p) \/ Decides(p))
  BY OrdersShape, SameUntouched DEF CheckOrders, Here, brokerVars
<1>2. Inspects(p) => Observes(p)
  BY <1>1 DEF Observes
<1>3. at'[Monitor] # "partial"
  BY <1>1 DEF Inspects, Decides, Goes
<1>4. CASE FilledOf(p, "sl") \/ FilledOf(p, "tp")
  <2>1. BracketFilled(p)
    BY <1>4, FoundFilled DEF FilledOf, Bracket, BracketFilled
  <2>2. QED
    BY <1>1, <1>2, <1>3, <2>1 DEF Reasons
<1>5. CASE ~FilledOf(p, "sl") /\ ~FilledOf(p, "tp")
  <2>1. Leave \/ \E i : mem' = [mem EXCEPT ![p].status = "PARTIAL", ![p].remaining = i]
    BY <1>5 DEF CheckOrders
  <2>2. ASSUME Leave
        PROVE  ~Decides(p)
    BY <1>1, <2>2, GoesTo DEF Leave, Actors, Decides, Goes
  <2>3. ASSUME NEW i, mem' = [mem EXCEPT ![p].status = "PARTIAL", ![p].remaining = i]
        PROVE  mem'[p].status \notin Ended
    <3>1. Becomes(p, {"PARTIAL"})
      BY <2>3, StatusWritten
    <3>2. QED
      BY <3>1 DEF Becomes, Ended
  <2>4. QED
    BY <1>1, <1>2, <1>3, <2>1, <2>2, <2>3 DEF Reasons
<1> QED
  BY <1>4, <1>5

LEMMA PartialEffect ==
  ASSUME IInv, SessionHolds, NEW p \in Positions, target[Monitor] = p, PlacePartialExit(p)
  PROVE  /\ StatusesKept /\ Goes(p, "partial", "save")
         /\ AllUntouched \/ Adds(p, "partial", PartialQty)
<1>1. UNCHANGED holding /\ at[Monitor] = "partial"
  BY DEF PlacePartialExit, Here
<1>2. AllUntouched \/ Adds(p, "partial", PartialQty)
  <2>1. CASE UNCHANGED orders
    BY <1>1, <2>1, SameUntouched
  <2>2. ASSUME NEW o \in Order, o.kind = "partial", o.qty = PartialQty,
               o.state = "working", o.cached = "none", Send(p, <<o>>)
        PROVE  Adds(p, "partial", PartialQty)
    BY <1>1, <2>2, SendAdds DEF SessionHolds
  <2>3. QED
    BY <2>1, <2>2, PartialSent
<1>3. StatusesKept /\ Goes(p, "partial", "save")
  BY <1>1, PartialShape DEF Inspects, Trades, Goes
<1> QED
  BY <1>2, <1>3

\* What is active is whole, and its exit is sent, or refused.
LEMMA ExitEffect ==
  ASSUME IInv, SessionHolds, MonitorKnows, RecordsAreWhole,
         NEW p \in Positions, target[Monitor] = p, ExitAtMarket(Monitor)
  PROVE  StatusesKept /\ Goes(p, "exit", "mark") /\ Adds(p, "exit", Quantity)
<1>1. UNCHANGED holding /\ at[Monitor] = "exit" /\ UNCHANGED restarted /\ Stay /\ Goto(Monitor, "mark")
  BY DEF ExitAtMarket, Stay
<1>2. mem[p].status = "ACTIVE" /\ mem[p].remaining = Quantity
  BY <1>1 DEF MonitorKnows, RecordsAreWhole
<1>3. NeedsExit(p) /\ CanTrade
  BY <1>2, QuantityAssumption DEF NeedsExit, Held, CanTrade, SessionHolds
<1>4. Adds(p, "exit", Quantity)
  <2>1. PICK o \in Order : /\ o.kind = "exit" /\ o.qty = mem[p].remaining
                           /\ o.state \in {"working", "refused"} /\ o.cached = "none"
                           /\ Send(p, <<o>>)
    BY <1>3, ExitSent DEF Actors
  <2>2. QED
    BY <1>1, <1>2, <2>1, SendAdds DEF SessionHolds
<1>5. StatusesKept /\ Goes(p, "exit", "mark")
  BY <1>1, MonitorGoes DEF ExitAtMarket, StatusesKept
<1> QED
  BY <1>4, <1>5

LEMMA CancelEffect ==
  ASSUME IInv, SessionHolds, NEW p \in Positions, target[Monitor] = p, CancelOrders(Monitor)
  PROVE  /\ StatusesKept /\ Goes(p, "cancel", "exit")
         /\ \E ks : Cancels(p, {Entry} \union Bracket(p) \union ks)
<1>1. /\ UNCHANGED holding /\ at[Monitor] = "cancel" /\ UNCHANGED restarted
      /\ Stay /\ Goto(Monitor, "exit") /\ UNCHANGED mem
      /\ Move(p, AfterCancel(p, {Entry} \union Bracket(p) \union mem[p].partials))
  BY DEF CancelOrders, Cancel, SessionHolds, Stay
<1>2. Cancels(p, {Entry} \union Bracket(p) \union mem[p].partials)
  BY <1>1, CancelCancels
<1>3. StatusesKept /\ Goes(p, "cancel", "exit")
  BY <1>1, MonitorGoes DEF StatusesKept
<1> QED
  BY <1>2, <1>3

\* Every step of a session that holds is one of these.
CalmStep ==
  \/ AllUntouched /\ (Rests \/ Restarts)
  \/ AllUntouched /\ \E p \in Positions : Inspects(p) /\ Observes(p)
  \/ AllUntouched /\ \E p \in Positions : Decides(p) /\ Reasons(p)
  \/ Rests /\ \E p \in Positions : Cancels(p, {Entry}) \/ \E k \in DOMAIN orders[p] : Fills(p, k)
  \/ \E p \in Positions : Places(p) /\ Begins(p)
  \/ \E p \in Positions : /\ StatusesKept /\ Goes(p, "cancel", "exit")
                          /\ \E ks : Cancels(p, {Entry} \union Bracket(p) \union ks)
  \/ \E p \in Positions : /\ StatusesKept /\ Goes(p, "partial", "save")
                          /\ AllUntouched \/ Adds(p, "partial", PartialQty)
  \/ \E p \in Positions : StatusesKept /\ Goes(p, "exit", "mark") /\ Adds(p, "exit", Quantity)

LEMMA StepEffect ==
  ASSUME IInv, SessionHolds, MonitorKnows, RecordsAreWhole, Undisturbed, [Next]_vars
  PROVE  CalmStep
<1>0. /\ ~GoroutinePanic /\ ~Drop /\ ~MonitorSubscribes
      /\ \A f \in Flows : ~Disconnect(f) /\ ~Reconnect(f)
      /\ Closers = {} /\ conn = "up"
  BY NothingDisturbs
<1>1. CASE \E p \in Positions : PlaceEntry(p) \/ StorePosition(p) \/ SavePosition(p)
  <2>1. PICK p \in Positions : PlaceEntry(p) \/ StorePosition(p) \/ SavePosition(p)
    BY <1>1
  <2>2. CASE PlaceEntry(p)
    BY <1>0, <2>2, PlaceShape, EntryBegins DEF CalmStep
  <2>3. CASE StorePosition(p) \/ SavePosition(p)
    <3>1. UNCHANGED brokerVars /\ UNCHANGED <<orders, holding>>
      BY <2>3 DEF StorePosition, SavePosition, brokerVars
    <3>2. Rests
      BY <2>3, <3>1, NothingSent DEF StorePosition, SavePosition, Rests, MonitorStays, StatusesKept
    <3>3. QED
      BY <3>1, <3>2, SameUntouched DEF CalmStep
  <2>4. QED
    BY <2>1, <2>2, <2>3
<1>2. CASE \E p \in {target[Monitor]} \ {NoPosition} :
             \/ CheckEntryOrder(p) \/ CheckBrokerPosition(p) \/ PlacePartialExit(p)
             \/ CheckPrice(p) \/ CheckHolding(p) \/ CheckOrders(p)
  <2>1. PICK p \in {target[Monitor]} \ {NoPosition} :
          \/ CheckEntryOrder(p) \/ CheckBrokerPosition(p) \/ PlacePartialExit(p)
          \/ CheckPrice(p) \/ CheckHolding(p) \/ CheckOrders(p)
    BY <1>2
  <2>2. p \in Positions /\ target[Monitor] = p
    BY <2>1 DEF IInv, TypeOK, ManagedTypeOK, Actors
  <2>3. CASE CheckPrice(p)
    <3>1. AllUntouched /\ at[Monitor] = "risk"
      BY <2>3, SameUntouched DEF CheckPrice, Here, brokerVars
    <3>2. Inspects(p) /\ Observes(p)
      BY <2>2, <2>3, <3>1, PriceShape DEF Observes
    <3>3. QED
      BY <2>2, <3>1, <3>2 DEF CalmStep
  <2>4. CASE CheckEntryOrder(p) \/ CheckBrokerPosition(p) \/ CheckHolding(p) \/ CheckOrders(p)
    BY <2>2, <2>4, EntryEffect, LostEffect, HoldingEffect, OrdersEffect DEF CalmStep, Undisturbed
  <2>5. CASE PlacePartialExit(p)
    BY <2>2, <2>5, PartialEffect DEF CalmStep
  <2>6. QED
    BY <2>1, <2>3, <2>4, <2>5
<1>3. CASE Close(Monitor)
  <2>1. at[Monitor] # "idle" /\ Monitor \in Actors
    BY <1>3 DEF Close, CancelOrders, ExitAtMarket, MarkClosed, Save, Actors
  <2>2. PICK p \in Positions : target[Monitor] = p
    BY <2>1, AtWork
  <2>3. CASE CancelOrders(Monitor)
    BY <2>2, <2>3, CancelEffect DEF CalmStep
  <2>4. CASE ExitAtMarket(Monitor)
    BY <2>2, <2>4, ExitEffect DEF CalmStep
  <2>5. CASE MarkClosed(Monitor) \/ Save(Monitor)
    <3>1. AllUntouched /\ at[Monitor] \in {"mark", "save"}
      BY <2>5, SameUntouched DEF MarkClosed, Save, brokerVars
    <3>2. Inspects(p) \/ Decides(p)
      BY <1>3, <2>2, <3>1, MonitorCloseShape DEF Trades, Goes
    <3>3. Observes(p) /\ (Decides(p) => Reasons(p))
      BY <3>1 DEF Observes, Reasons, Decides, Goes
    <3>4. QED
      BY <2>2, <3>1, <3>2, <3>3 DEF CalmStep
  <2>6. QED
    BY <1>3, <2>3, <2>4, <2>5 DEF Close
<1>4. CASE Tick \/ \E p \in todo : Look(p)
  <2>1. AllUntouched /\ at[Monitor] = "idle"
    BY <1>4, SameUntouched DEF Tick, Look, brokerVars, Here
  <2>2. CASE Tick
    <3>1. Rests
      BY <2>2, NothingSent DEF Tick, Rests, MonitorStays, StatusesKept
    <3>2. QED
      BY <2>1, <3>1 DEF CalmStep
  <2>3. CASE \E p \in todo : Look(p)
    <3>1. PICK p \in todo : Look(p)
      BY <2>3
    <3>2. p \in Positions
      BY DEF IInv, TypeOK, ManagedTypeOK
    <3>3. Rests \/ (Inspects(p) /\ Observes(p))
      BY <2>1, <3>1, LookShape DEF Observes
    <3>4. QED
      BY <2>1, <3>2, <3>3 DEF CalmStep
  <2>4. QED
    BY <1>4, <2>2, <2>3
<1>5. CASE Gateway
  <2>1. Rests
    BY <1>5, BrokerShape
  <2>2. PICK p \in Positions : \/ \E k \in DOMAIN orders[p] : Fill(p, k)
                               \/ CancelledByBroker(p) \/ UpdatePortfolio(p)
    BY <1>5 DEF Gateway
  <2>3. ~UpdatePortfolio(p)
    BY DEF UpdatePortfolio, Undisturbed
  <2>4. CASE CancelledByBroker(p)
    <3>1. Cancels(p, {Entry})
      BY <2>4, CancelCancels DEF CancelledByBroker
    <3>2. QED
      BY <2>1, <3>1 DEF CalmStep
  <2>5. CASE \E k \in DOMAIN orders[p] : Fill(p, k)
    <3>1. \E k \in DOMAIN orders[p] : Fills(p, k)
      BY <2>5, FillMoves
    <3>2. QED
      BY <2>1, <3>1 DEF CalmStep
  <2>6. QED
    BY <2>2, <2>3, <2>4, <2>5
<1>6. CASE ChangeMode \/ UNCHANGED vars
  <2>1. UNCHANGED <<orders, holding>>
    BY <1>6 DEF ChangeMode, vars, brokerVars
  <2>2. QED
    BY <1>6, <2>1, BrokerShape, SameUntouched DEF CalmStep
<1>7. CASE Crash
  <2>1. AllUntouched
    BY <1>7, ForgetTouchesNothing DEF Crash, Restart, FreshCaches
  <2>2. QED
    BY <1>7, <2>1, RestartShape DEF CalmStep
<1> QED
  BY <1>0, <1>1, <1>2, <1>3, <1>4, <1>5, <1>6, <1>7 DEF Next, MonitorStep

LEMMA HasEntry ==
  ASSUME NEW s \in Seq(Order)
  PROVE  s # <<>> <=> Entry \in DOMAIN s
BY LenProperties, EmptySeq DEF Entry

\* What is not touched stays what it was.
LEMMA UntouchedKeeps ==
  ASSUME BrokerTypeOK, BrokerTypeOK', NEW q \in Positions, Untouched(q)
  PROVE  /\ \A kind : Sent(q, kind)' = Sent(q, kind)
         /\ EntryOpen(q)' <=> EntryOpen(q)
         /\ EntryFilled(q)' <=> EntryFilled(q)
         /\ BracketFilled(q)' <=> BracketFilled(q)
         /\ NoBracketOpen(q)' <=> NoBracketOpen(q)
         /\ Settled(q)' <=> Settled(q)
<1>1. orders[q] \in Seq(Order) /\ orders'[q] \in Seq(Order)
  BY DEF BrokerTypeOK
<1>2. orders[q] # <<>> <=> orders'[q] # <<>>
  BY <1>1, HasEntry DEF Untouched
<1>3. orders[q] # <<>> => Entry \in DOMAIN orders[q]
  BY <1>1, HasEntry
<1>4. \A kind : Sent(q, kind)' = Sent(q, kind)
  BY DEF Sent, Untouched
<1>5. (EntryOpen(q)' <=> EntryOpen(q)) /\ (EntryFilled(q)' <=> EntryFilled(q))
  BY <1>2, <1>3 DEF EntryOpen, EntryFilled, Untouched
<1>6. Bracket(q)' = Bracket(q) /\ Bracket(q) \subseteq DOMAIN orders[q]
  BY DEF Bracket, Untouched
<1>7. (BracketFilled(q)' <=> BracketFilled(q)) /\ (NoBracketOpen(q)' <=> NoBracketOpen(q))
  BY <1>6 DEF BracketFilled, NoBracketOpen, Untouched
<1>8. \A k \in Sent(q, "exit") : orders'[q][k].state = orders[q][k].state
  BY DEF Sent, Untouched
<1>9. ExitRefused(q)' <=> ExitRefused(q)
  BY <1>4, <1>8 DEF ExitRefused, Sent, Untouched
<1>10. Settled(q)' <=> Settled(q)
  BY <1>4, <1>5, <1>8, <1>9 DEF Settled, Untouched
<1> QED
  BY <1>4, <1>5, <1>7, <1>10

\* What a step may do to the orders of one position.
LEMMA TouchCases ==
  ASSUME CalmStep, NEW q \in Positions
  PROVE  \/ Untouched(q)
         \/ Cancels(q, {Entry})
         \/ Goes(q, "cancel", "exit") /\ \E ks : Cancels(q, {Entry} \union Bracket(q) \union ks)
         \/ \E k \in DOMAIN orders[q] : Fills(q, k)
         \/ Begins(q)
         \/ Goes(q, "partial", "save") /\ Adds(q, "partial", PartialQty)
         \/ Goes(q, "exit", "mark") /\ Adds(q, "exit", Quantity)
<1>1. AllUntouched => Untouched(q)
  BY DEF AllUntouched
<1>2. ASSUME NEW p \in Positions, OnlyTouches(p), p # q
      PROVE  Untouched(q)
  BY <1>2 DEF OnlyTouches
<1>3. ASSUME NEW p \in Positions, NEW ks, Cancels(p, ks)
      PROVE  OnlyTouches(p)
  BY <1>3 DEF Cancels, Moves
<1>4. ASSUME NEW p \in Positions, NEW k, Fills(p, k)
      PROVE  OnlyTouches(p)
  BY <1>4 DEF Fills, Moves
<1>5. ASSUME NEW p \in Positions, Begins(p)
      PROVE  OnlyTouches(p)
  BY <1>5 DEF Begins
<1>6. ASSUME NEW p \in Positions, NEW kind, NEW qty, Adds(p, kind, qty)
      PROVE  OnlyTouches(p)
  BY <1>6 DEF Adds
<1>7. CASE AllUntouched
  BY <1>1, <1>7
<1>8. CASE \E p \in Positions : Cancels(p, {Entry}) \/ \E k \in DOMAIN orders[p] : Fills(p, k)
  BY <1>2, <1>3, <1>4, <1>8
<1>9. CASE \E p \in Positions : Begins(p)
  BY <1>2, <1>5, <1>9
<1>10. CASE \E p \in Positions : /\ Goes(p, "cancel", "exit")
                                 /\ \E ks : Cancels(p, {Entry} \union Bracket(p) \union ks)
  BY <1>2, <1>3, <1>10
<1>11. CASE \E p \in Positions : Goes(p, "partial", "save") /\ Adds(p, "partial", PartialQty)
  BY <1>2, <1>6, <1>11
<1>12. CASE \E p \in Positions : Goes(p, "exit", "mark") /\ Adds(p, "exit", Quantity)
  BY <1>2, <1>6, <1>12
<1> QED
  BY <1>7, <1>8, <1>9, <1>10, <1>11, <1>12 DEF CalmStep

LEMMA WholeInit == Init => OrdersAreWhole /\ RecordsAreWhole
BY DEF Init, BrokerInit, OrdersAreWhole, RecordsAreWhole, NoRecord

LEMMA OrdersKeep ==
  ASSUME IInv, OrdersAreWhole, CalmStep
  PROVE  OrdersAreWhole'
<1> DEFINE Whole(os) == \A k \in DOMAIN os : /\ (k = Entry) <=> (os[k].kind = "entry")
                                             /\ os[k].kind # "partial" => os[k].qty = Quantity
<1>1. \A q \in Positions : Whole(orders[q])
  BY DEF OrdersAreWhole
<1>2. \A q \in Positions : Untouched(q) => Whole(orders'[q])
  BY <1>1 DEF Untouched
<1>3. \A q \in Positions : \A new : Moves(q, new) => Whole(orders'[q])
  BY <1>1 DEF Moves
<1>4. \A q \in Positions : Begins(q) => Whole(orders'[q])
  BY DEF Begins
<1>5. ASSUME NEW q \in Positions, orders[q] # <<>>,
             Adds(q, "partial", PartialQty) \/ Adds(q, "exit", Quantity)
      PROVE  Whole(orders'[q])
  <2>1. Len(orders[q]) \in Nat /\ Len(orders[q]) # 0
    BY <1>5, LenProperties, EmptySeq DEF IInv, TypeOK, BrokerTypeOK
  <2>2. Len(orders[q]) + 1 # Entry
    BY <2>1 DEF Entry
  <2>3. QED
    BY <1>1, <1>5, <2>2 DEF Adds
<1>6. ASSUME NEW q \in Positions, NEW from, from # "idle", NEW to, Goes(q, from, to)
      PROVE  orders[q] # <<>>
  BY <1>6, AtWork DEF Goes, Actors
<1> HIDE DEF Whole
<1>7. CASE AllUntouched
  BY <1>2, <1>7 DEF AllUntouched, Whole, OrdersAreWhole
<1>8. ASSUME NEW p \in Positions, OnlyTouches(p), Whole(orders'[p])
      PROVE  OrdersAreWhole'
  BY <1>2, <1>8 DEF OnlyTouches, Whole, OrdersAreWhole
<1>9. ASSUME NEW p \in Positions, NEW ks, Cancels(p, ks) \/ \E k : Fills(p, k)
      PROVE  OrdersAreWhole'
  BY <1>3, <1>8, <1>9 DEF Cancels, Fills, Moves
<1>10. ASSUME NEW p \in Positions, Begins(p)
       PROVE  OrdersAreWhole'
  BY <1>4, <1>8, <1>10 DEF Begins
<1>11. ASSUME NEW p \in Positions, NEW from, from # "idle", NEW to, Goes(p, from, to),
              Adds(p, "partial", PartialQty) \/ Adds(p, "exit", Quantity)
       PROVE  OrdersAreWhole'
  BY <1>5, <1>6, <1>8, <1>11 DEF Adds
<1> QED
  BY <1>7, <1>9, <1>10, <1>11 DEF CalmStep

\* What a record says as long as its position is not over.
LEMMA RecordsKeep ==
  ASSUME IInv, MonitorKnows, RecordsAreWhole, Undisturbed, [Next]_vars
  PROVE  RecordsAreWhole'
<1> DEFINE Whole(r) ==
             /\ r.status \in {"PENDING", "ACTIVE"} => r.side = "buy" /\ r.remaining = Quantity
             /\ r.partialExit => TRUE \in PartialExits
<1>0. /\ mem \in [Positions -> Record] /\ db \in [Positions -> Record]
      /\ \A p \in Positions : mem[p] \in Record /\ Whole(mem[p]) /\ Whole(db[p])
      /\ Whole(NoRecord)
  BY DEF RecordsAreWhole, IInv, TypeOK, ManagedTypeOK, NoRecord
<1>1. ASSUME \A p \in Positions : Whole(mem'[p]) /\ Whole(db'[p])
       PROVE  RecordsAreWhole'
  BY <1>1 DEF RecordsAreWhole
<1>2. ASSUME UNCHANGED mem \/ \E p \in Positions : Whole(mem'[p]) /\ \A q \in Positions \ {p} : mem'[q] = mem[q],
             UNCHANGED db
      PROVE  RecordsAreWhole'
  <2> HIDE DEF Whole
  <2>1. \A p \in Positions : Whole(mem'[p])
    BY <1>0, <1>2
  <2>2. QED
    BY <1>0, <1>2, <1>1, <2>1
<1>3. ASSUME NEW p \in Positions, NEW r, Whole(r), mem' = [mem EXCEPT ![p] = r], UNCHANGED db
      PROVE  RecordsAreWhole'
  <2>1. mem'[p] = r /\ \A q \in Positions \ {p} : mem'[q] = mem[q]
    BY <1>0, <1>3
  <2>2. QED
    BY <1>2, <1>3, <2>1
<1>4. ASSUME NEW p \in Positions, PlaceEntry(p)
      PROVE  RecordsAreWhole'
  <2>1. PICK side \in Sides, partial \in PartialExits :
          mem' = [mem EXCEPT ![p] =
            [status |-> "PENDING", side |-> side, remaining |-> Quantity,
             partials |-> {}, partialExit |-> partial]]
    BY <1>4 DEF PlaceEntry
  <2>2. side = "buy" /\ UNCHANGED db
    BY <1>4 DEF Undisturbed, PlaceEntry
  <2> DEFINE new == [status |-> "PENDING", side |-> side, remaining |-> Quantity,
                     partials |-> {}, partialExit |-> partial]
  <2>3. mem' = [mem EXCEPT ![p] = new]
    BY <2>1
  <2>4. partial => TRUE \in PartialExits
    <3>1. partial = TRUE \/ partial = FALSE
      BY RequestAssumption
    <3>2. partial = TRUE => TRUE \in PartialExits
      OBVIOUS
    <3>3. QED
      BY <3>1, <3>2
  <2>5. new.side = "buy" /\ new.remaining = Quantity /\ new.partialExit = partial
    BY <2>2
  <2>6. Whole(new)
    <3>1. new.partialExit => TRUE \in PartialExits
      <4> HIDE DEF new
      <4> QED
        BY <2>4, <2>5, Zenon
    <3> HIDE DEF new
    <3>2. QED
      BY <2>5, <3>1
  <2> HIDE DEF new, Whole
  <2>7. QED
    BY <1>3, <2>2, <2>3, <2>6
<1>5. ASSUME UNCHANGED mem, NEW p \in Positions, db' = [db EXCEPT ![p] = RowAfterSave(p)]
      PROVE  RecordsAreWhole'
  <2>1. \A q \in Positions : db'[q] \in {db[q], mem[q]}
    BY <1>0, <1>5 DEF RowAfterSave
  <2> HIDE DEF Whole
  <2>2. QED
    BY <1>0, <1>5, <1>1, <2>1
<1>6. CASE Crash
  <2>1. UNCHANGED db /\ \A p \in Positions : mem'[p] \in {db[p], NoRecord}
    BY <1>6 DEF Crash, Restart
  <2> HIDE DEF Whole
  <2>2. QED
    BY <1>0, <1>1, <2>1
<1>7. ASSUME NEW p \in Positions, NEW s, UNCHANGED db, SetStatus(p, s),
             s \in {"PENDING", "ACTIVE"} => mem[p].status = "PENDING"
      PROVE  RecordsAreWhole'
  <2>1. mem' = [mem EXCEPT ![p] = [mem[p] EXCEPT !.status = s]]
    BY <1>7 DEF SetStatus
  <2>2. Whole([mem[p] EXCEPT !.status = s])
    BY <1>0, <1>7 DEF Record
  <2>3. QED
    BY <1>3, <1>7, <2>1, <2>2
<1>8. ASSUME NEW p \in Positions, NEW s \in {"CLOSED", "STOPPED_OUT", "PARTIAL"}, UNCHANGED db,
              NEW i, mem' = [mem EXCEPT ![p].status = s, ![p].remaining = i]
       PROVE  RecordsAreWhole'
  <2>1. mem' = [mem EXCEPT ![p] = [mem[p] EXCEPT !.status = s, !.remaining = i]]
    BY <1>0, <1>8
  <2>2. Whole([mem[p] EXCEPT !.status = s, !.remaining = i])
    BY <1>0, <1>8 DEF Record
  <2>3. QED
    BY <1>3, <1>8, <2>1, <2>2
<1>9. ASSUME NEW p \in Positions, UNCHANGED db, End(p, "CLOSED") \/ End(p, "STOPPED_OUT")
       PROVE  RecordsAreWhole'
  BY <1>8, <1>9 DEF End
<1> HIDE DEF Whole
<1>10. ASSUME NEW p \in Positions, target[Monitor] = p,
             \/ CheckEntryOrder(p) \/ CheckBrokerPosition(p) \/ PlacePartialExit(p)
             \/ CheckPrice(p) \/ CheckHolding(p) \/ CheckOrders(p)
      PROVE  RecordsAreWhole'
  <2>0. UNCHANGED db
    BY <1>10 DEF CheckEntryOrder, CheckBrokerPosition, PlacePartialExit, CheckPrice, CheckHolding, CheckOrders
  <2>1. CASE CheckEntryOrder(p) \/ CheckBrokerPosition(p)
    <3>1. mem[p].status = "PENDING"
      BY <1>10, <2>1 DEF CheckEntryOrder, CheckBrokerPosition, Here, MonitorKnows
    <3>2. UNCHANGED mem \/ SetStatus(p, "ACTIVE") \/ SetStatus(p, "CLOSED")
      BY <2>1 DEF CheckEntryOrder, CheckBrokerPosition, Activate
    <3>3. CASE UNCHANGED mem
      BY <1>2, <2>0, <3>3
    <3>4. CASE SetStatus(p, "ACTIVE")
      BY <1>7, <2>0, <3>1, <3>4
    <3>5. CASE SetStatus(p, "CLOSED")
      BY <1>7, <2>0, <3>5
    <3>6. QED
      BY <3>2, <3>3, <3>4, <3>5
  <2>2. CASE PlacePartialExit(p)
    <3>1. UNCHANGED mem \/ mem' = [mem EXCEPT ![p].partials = @ \union {Len(orders[p]) + 1}]
      BY <2>2 DEF PlacePartialExit
    <3>2. UNCHANGED mem \/ \E P : mem' = [mem EXCEPT ![p] = [mem[p] EXCEPT !.partials = P]]
      BY <3>1
    <3>3. \A P : Whole([mem[p] EXCEPT !.partials = P])
      BY <1>0 DEF Record, Whole
    <3>4. QED
      BY <1>2, <1>3, <2>0, <3>2, <3>3
  <2>3. CASE CheckPrice(p) \/ CheckHolding(p)
    <3>1. UNCHANGED mem \/ End(p, "CLOSED")
      BY <2>3 DEF CheckPrice, CheckHolding
    <3>2. QED
      BY <1>2, <1>9, <2>0, <3>1
  <2>4. CASE CheckOrders(p)
    <3>1. \/ UNCHANGED mem \/ End(p, "STOPPED_OUT") \/ End(p, "CLOSED")
          \/ \E i : mem' = [mem EXCEPT ![p].status = "PARTIAL", ![p].remaining = i]
      BY <2>4 DEF CheckOrders
    <3>2. ASSUME NEW i, mem' = [mem EXCEPT ![p].status = "PARTIAL", ![p].remaining = i]
          PROVE  RecordsAreWhole'
      BY <1>8, <2>0, <3>2
    <3>3. QED
      BY <1>2, <1>9, <2>0, <3>1, <3>2
  <2>5. QED
    BY <1>10, <2>1, <2>2, <2>3, <2>4
<1>11. CASE Close(Monitor)
  <2>1. at[Monitor] # "idle" /\ Monitor \in Actors
    BY <1>11 DEF Close, CancelOrders, ExitAtMarket, MarkClosed, Save, Actors
  <2>2. PICK p \in Positions : target[Monitor] = p
    BY <2>1, AtWork
  <2>3. CASE CancelOrders(Monitor) \/ ExitAtMarket(Monitor)
    BY <1>2, <2>3 DEF CancelOrders, ExitAtMarket
  <2>4. CASE MarkClosed(Monitor)
    BY <1>7, <2>2, <2>4 DEF MarkClosed
  <2>5. CASE Save(Monitor)
    BY <1>5, <2>2, <2>5 DEF Save
  <2>6. QED
    BY <1>11, <2>3, <2>4, <2>5 DEF Close
<1>12. CASE GoroutinePanic
  <2>1. UNCHANGED db /\ \A p \in Positions : mem'[p] \in {db[p], NoRecord}
    BY <1>12 DEF GoroutinePanic, Restart
  <2>2. QED
    BY <1>0, <1>1, <2>1
<1>13. CASE \E p \in {target[Monitor]} \ {NoPosition} :
             \/ CheckEntryOrder(p) \/ CheckBrokerPosition(p) \/ PlacePartialExit(p)
             \/ CheckPrice(p) \/ CheckHolding(p) \/ CheckOrders(p)
  BY <1>10, <1>13 DEF IInv, TypeOK, ManagedTypeOK, Actors
<1>14. CASE Tick \/ (\E p \in todo : Look(p)) \/ MonitorSubscribes
  BY <1>2, <1>14 DEF Tick, Look, MonitorSubscribes, managedVars
<1>15. CASE MonitorStep
  BY <1>11, <1>13, <1>14, <1>15 DEF MonitorStep
<1>16. CASE \E p \in Positions : PlaceEntry(p) \/ StorePosition(p) \/ SavePosition(p)
  BY <1>2, <1>4, <1>5, <1>16 DEF StorePosition, SavePosition
<1>17. CASE Gateway \/ Drop \/ (\E f \in Flows : Disconnect(f) \/ Reconnect(f)) \/ ChangeMode
            \/ UNCHANGED vars
  BY <1>2, <1>17 DEF Gateway, Drop, Disconnect, Reconnect, ChangeMode, vars, managedVars
<1>18. Closers = {}
  BY DEF Undisturbed
<1> QED
  BY <1>6, <1>12, <1>15, <1>16, <1>17, <1>18 DEF Next

\* What a fill and a cancel do to the states of the other orders.
LEMMA FillStates ==
  ASSUME NEW p \in Positions, NEW k \in DOMAIN orders[p], NEW j \in DOMAIN orders[p]
  PROVE  /\ AfterFill(p, k)[j] \in Open => j # k /\ orders[p][j].state \in Open
         /\ AfterFill(p, k)[j] = "filled" => j = k \/ orders[p][j].state = "filled"
         /\ orders[p][j].state \notin Open => AfterFill(p, k)[j] = orders[p][j].state \/ j = k
         /\ AfterFill(p, k)[k] = "filled"
         /\ j # k /\ k # Entry /\ j \notin Bracket(p) => AfterFill(p, k)[j] = orders[p][j].state
         /\ k \in Bracket(p) \ {Entry} /\ j \in Bracket(p) => AfterFill(p, k)[j] \notin Open
BY DEF AfterFill, Open

LEMMA CancelStates ==
  ASSUME NEW p \in Positions, NEW ks, NEW j \in DOMAIN orders[p]
  PROVE  /\ AfterCancel(p, ks)[j] \in Open => orders[p][j].state \in Open
         /\ AfterCancel(p, ks)[j] = "filled" <=> orders[p][j].state = "filled"
         /\ orders[p][j].state \notin Open => AfterCancel(p, ks)[j] = orders[p][j].state
         /\ j \in ks => AfterCancel(p, ks)[j] \notin Open
         /\ Entry \in ks /\ orders[p][Entry].state \in Open /\ j \in Bracket(p) =>
              AfterCancel(p, ks)[j] \notin Open
         /\ j \notin ks \union Bracket(p) => AfterCancel(p, ks)[j] = orders[p][j].state
BY DEF AfterCancel, Open

\* Orders that move are the same orders.
LEMMA MovedKinds ==
  ASSUME NEW p \in Positions, NEW new, Moves(p, new)
  PROVE  Bracket(p)' = Bracket(p) /\ \A kind : Sent(p, kind)' = Sent(p, kind)
BY DEF Moves, Bracket, Sent

\* So are the bracket's when another order arrives.
LEMMA AddedKinds ==
  ASSUME IInv, NEW p \in Positions, NEW kind, NEW qty, Adds(p, kind, qty)
  PROVE  /\ kind \notin {"tp", "sl"} => Bracket(p)' = Bracket(p)
         /\ Sent(p, kind)' = Sent(p, kind) \union {Len(orders[p]) + 1}
         /\ \A other : other # kind => Sent(p, other)' = Sent(p, other)
         /\ Len(orders[p]) + 1 \notin DOMAIN orders[p]
<1>1. Len(orders[p]) + 1 \notin DOMAIN orders[p]
  BY LenProperties DEF IInv, TypeOK, BrokerTypeOK
<1> DEFINE n == Len(orders[p]) + 1
<1> HIDE DEF n
<1>2. /\ DOMAIN orders'[p] = DOMAIN orders[p] \union {n} /\ n \notin DOMAIN orders[p]
      /\ \A k \in DOMAIN orders[p] : orders'[p][k] = orders[p][k]
      /\ orders'[p][n].kind = kind
  BY <1>1 DEF Adds, n
<1>3. kind \notin {"tp", "sl"} => Bracket(p)' = Bracket(p)
  BY <1>2 DEF Bracket
<1>4. /\ Sent(p, kind)' = Sent(p, kind) \union {n}
      /\ \A other : other # kind => Sent(p, other)' = Sent(p, other)
  BY <1>2 DEF Sent
<1> QED
  BY <1>1, <1>3, <1>4 DEF n

\* The facts of one position that the arguments below need.
LEMMA Position ==
  ASSUME IInv, OrdersAreWhole, NEW p \in Positions
  PROVE  /\ holding[p] \in Int /\ Quantity \in Nat \ {0}
         /\ Entry \notin Bracket(p) /\ Bracket(p) \subseteq DOMAIN orders[p]
         /\ ~EntryFilled(p) => holding[p] = 0 /\ ~BracketFilled(p)
         /\ \A k \in DOMAIN orders[p] :
              /\ Entry \in DOMAIN orders[p] /\ orders[p] # <<>>
              /\ orders[p][k].qty \in Nat /\ orders[p][k].kind \in Kinds
              /\ k = Entry <=> orders[p][k].kind = "entry"
              /\ orders[p][k].kind # "partial" => orders[p][k].qty = Quantity
<1>1. holding[p] \in Int /\ Quantity \in Nat \ {0}
  BY QuantityAssumption DEF IInv, TypeOK, BrokerTypeOK
<1>2. Entry \notin Bracket(p) /\ Bracket(p) \subseteq DOMAIN orders[p]
  BY DEF Bracket, OrdersAreWhole
<1>3. ~EntryFilled(p) => holding[p] = 0
  BY DEF IInv, BrokerInv, HeldAfterEntry
<1>4. ~EntryFilled(p) => ~BracketFilled(p)
  BY <1>2 DEF BracketFilled, IInv, BrokerInv, EntryIsFirst
<1>5. \A k \in DOMAIN orders[p] : orders[p][k] \in Order /\ Entry \in DOMAIN orders[p] /\ orders[p] # <<>>
  BY NonEmpty DEF IInv, TypeOK, BrokerTypeOK
<1>6. \A k \in DOMAIN orders[p] : orders[p][k].qty \in Nat /\ orders[p][k].kind \in Kinds
  BY <1>5 DEF Order
<1> QED
  BY <1>1, <1>2, <1>3, <1>4, <1>5, <1>6 DEF OrdersAreWhole

LEMMA BracketInit == Init => BracketSells
<1> SUFFICES ASSUME Init, NEW p \in Positions
             PROVE  holding[p] <= Quantity /\ ~BracketFilled(p)
  BY DEF BracketSells
<1>1. holding[p] = 0 /\ DOMAIN orders[p] = {}
  BY DEF Init, BrokerInit
<1> QED
  BY <1>1, QuantityAssumption DEF BracketFilled, Bracket

\* A filled order of the bracket has sold what the entry bought.
LEMMA BracketKeeps ==
  ASSUME IInv, IInv', OrdersAreWhole, BracketSells, CalmStep
  PROVE  BracketSells'
<1> DEFINE Sold(p) == holding[p] <= Quantity /\ (BracketFilled(p) => holding[p] <= 0)
<1>0. /\ BrokerTypeOK /\ BrokerTypeOK'
      /\ \A p \in Positions : holding[p] <= Quantity /\ (BracketFilled(p) => holding[p] <= 0)
  BY DEF IInv, TypeOK, BracketSells
<1>1. ASSUME NEW q \in Positions, Untouched(q)
      PROVE  Sold(q)'
  <2>1. holding'[q] = holding[q] /\ (BracketFilled(q)' <=> BracketFilled(q))
    BY <1>0, <1>1, UntouchedKeeps DEF Untouched
  <2>2. QED
    BY <1>0, <2>1
<1>2. ASSUME NEW p \in Positions, NEW ks, Cancels(p, ks)
      PROVE  Sold(p)'
  <2>1. BracketFilled(p)' => BracketFilled(p)
    BY <1>2, MovedKinds, CancelStates, Position DEF Cancels, Moves, BracketFilled
  <2>2. QED
    BY <1>0, <1>2, <2>1 DEF Cancels
<1>3. ASSUME NEW p \in Positions, NEW k \in DOMAIN orders[p], Fills(p, k)
      PROVE  Sold(p)'
  <2>1. /\ Bracket(p)' = Bracket(p) /\ Bracket(p) \subseteq DOMAIN orders[p]
        /\ holding[p] \in Int /\ Quantity \in Nat /\ orders[p][k].qty \in Nat
        /\ \A j \in Bracket(p) : orders'[p][j].state = "filled" => j = k \/ orders[p][j].state = "filled"
    BY <1>3, MovedKinds, FillStates, Position DEF Fills, Moves
  <2>2. CASE k = Entry
    <3>1. ~EntryFilled(p) /\ orders[p][k].qty = Quantity
      BY <1>3, <2>2, Position DEF EntryFilled, Fills
    <3>2. holding[p] = 0 /\ ~BracketFilled(p) /\ Entry \notin Bracket(p)
      BY <3>1, Position
    <3>3. holding'[p] = Quantity
      BY <1>3, <2>1, <2>2, <3>1, <3>2 DEF Fills
    <3>4. ~BracketFilled(p)'
      BY <2>1, <2>2, <3>2 DEF BracketFilled
    <3>5. QED
      BY <2>1, <3>3, <3>4
  <2>3. CASE k # Entry
    <3>1. holding'[p] = holding[p] - orders[p][k].qty
      BY <1>3, <2>3 DEF Fills
    <3>2. CASE k \in Bracket(p)
      <4>1. orders[p][k].qty = Quantity
        BY <3>2, Position DEF Bracket
      <4>2. QED
        BY <1>0, <2>1, <3>1, <4>1
    <3>3. CASE k \notin Bracket(p)
      <4>1. BracketFilled(p)' => BracketFilled(p)
        BY <2>1, <3>3 DEF BracketFilled
      <4>2. QED
        BY <1>0, <2>1, <3>1, <4>1
    <3>4. QED
      BY <3>2, <3>3
  <2>4. QED
    BY <2>2, <2>3
<1>4. ASSUME NEW p \in Positions, Begins(p)
      PROVE  Sold(p)'
  <2>1. holding[p] = 0 /\ Quantity \in Nat /\ holding'[p] = holding[p]
    BY <1>4, Position DEF Begins, EntryFilled
  <2>2. ~BracketFilled(p)'
    BY <1>4 DEF Begins, BracketFilled, Bracket, Open
  <2>3. QED
    BY <2>1, <2>2
<1>5. ASSUME NEW p \in Positions, NEW kind \in {"partial", "exit"}, NEW qty, Adds(p, kind, qty)
      PROVE  Sold(p)'
  <2>1. Bracket(p)' = Bracket(p) /\ Bracket(p) \subseteq DOMAIN orders[p]
    BY <1>5, AddedKinds, Position
  <2>2. BracketFilled(p)' <=> BracketFilled(p)
    BY <1>5, <2>1 DEF Adds, BracketFilled
  <2>3. QED
    BY <1>0, <1>5, <2>2 DEF Adds
<1>6. ASSUME NEW q \in Positions
      PROVE  Sold(q)'
  <2> HIDE DEF Sold
  <2> QED
    BY <1>1, <1>2, <1>3, <1>4, <1>5, TouchCases
<1> QED
  BY <1>6 DEF BracketSells

\* The entry of a position that has orders does not open again.
LEMMA EntryStaysShut ==
  ASSUME IInv, IInv', CalmStep, NEW q \in Positions, orders[q] # <<>>, ~EntryOpen(q)
  PROVE  ~EntryOpen(q)'
<1>0. BrokerTypeOK /\ BrokerTypeOK' /\ Entry \in DOMAIN orders[q] /\ orders[q][Entry].state \notin Open
  BY HasEntry DEF EntryOpen, IInv, TypeOK, BrokerTypeOK
<1>1. CASE Untouched(q)
  BY <1>0, <1>1, UntouchedKeeps
<1>2. CASE \E ks : Cancels(q, ks)
  BY <1>0, <1>2, CancelStates DEF Cancels, Moves, EntryOpen
<1>3. CASE \E k \in DOMAIN orders[q] : Fills(q, k)
  BY <1>0, <1>3, FillStates DEF Fills, Moves, EntryOpen
<1>4. CASE \E kind, qty : Adds(q, kind, qty)
  BY <1>0, <1>4 DEF Adds, EntryOpen
<1>5. ~Begins(q)
  BY DEF Begins
<1> QED
  BY <1>1, <1>2, <1>3, <1>4, <1>5, TouchCases

\* A settled position stays so, unless the monitor cancels its orders or sends
\* another.
LEMMA SettledStays ==
  ASSUME IInv, IInv', OrdersAreWhole, BracketSells, CalmStep,
         NEW q \in Positions, orders[q] # <<>>, Settled(q),
         at[Monitor] \in {"cancel", "exit", "partial"} => target[Monitor] # q
  PROVE  Settled(q)'
<1>0. /\ BrokerTypeOK /\ BrokerTypeOK' /\ ~EntryOpen(q) /\ ~EntryOpen(q)'
      /\ holding[q] \in Int /\ holding[q] <= Quantity /\ Quantity \in Nat
  BY EntryStaysShut, Position DEF IInv, TypeOK, Settled, BracketSells
<1>1. ASSUME NEW e \in Sent(q, "exit")
      PROVE  e \in DOMAIN orders[q] /\ e # Entry /\ e \notin Bracket(q) /\ orders[q][e].qty = Quantity
  BY Position DEF Sent, Bracket
<1>2. CASE Untouched(q)
  BY <1>0, <1>2, UntouchedKeeps
<1>3. CASE Cancels(q, {Entry})
  <2>1. Sent(q, "exit")' = Sent(q, "exit") /\ holding'[q] = holding[q]
    BY <1>3, MovedKinds DEF Cancels
  <2>2. \A e \in Sent(q, "exit") : orders'[q][e].state = orders[q][e].state
    BY <1>1, <1>3, CancelStates DEF Cancels, Moves
  <2>3. ExitRefused(q) => ExitRefused(q)'
    BY <1>3, <2>1, <2>2 DEF ExitRefused, Cancels, Moves
  <2>4. QED
    BY <1>0, <2>1, <2>2, <2>3 DEF Settled
<1>4. ASSUME NEW k \in DOMAIN orders[q], Fills(q, k)
      PROVE  Settled(q)'
  <2>1. k # Entry /\ orders[q][k].qty \in Nat
    BY <1>0, <1>4, Position DEF Fills, EntryOpen, Open
  <2>2. Sent(q, "exit")' = Sent(q, "exit") /\ holding'[q] = holding[q] - orders[q][k].qty
    BY <1>4, <2>1, MovedKinds DEF Fills
  <2>3. CASE holding[q] <= 0
    BY <1>0, <2>1, <2>2, <2>3 DEF Settled
  <2>4. ASSUME NEW e \in Sent(q, "exit"), orders[q][e].state \in Open
        PROVE  Settled(q)'
    <3>1. CASE k = e
      BY <1>0, <1>1, <2>2, <3>1 DEF Settled
    <3>2. CASE k # e
      <4>1. orders'[q][e].state = orders[q][e].state
        BY <1>1, <1>4, <2>1, <3>2, FillStates DEF Fills, Moves
      <4>2. QED
        BY <1>0, <2>2, <2>4, <4>1 DEF Settled
    <3>3. QED
      BY <3>1, <3>2
  <2>5. CASE ExitRefused(q)
    <3>1. PICK e \in Sent(q, "exit") :
            orders[q][e].state = "refused" /\ \A j \in DOMAIN orders[q] : j <= e
      BY <2>5 DEF ExitRefused
    <3>2. orders'[q][e].state = "refused"
      BY <1>1, <1>4, <2>1, <3>1, FillStates DEF Fills, Moves
    <3>3. ExitRefused(q)'
      BY <1>4, <2>2, <3>1, <3>2 DEF ExitRefused, Fills, Moves
    <3>4. QED
      BY <1>0, <3>3 DEF Settled
  <2>6. QED
    BY <2>3, <2>4, <2>5 DEF Settled
<1>5. ~Goes(q, "cancel", "exit") /\ ~Goes(q, "exit", "mark") /\ ~Goes(q, "partial", "save") /\ ~Begins(q)
  BY DEF Goes, Begins
<1> QED
  BY <1>2, <1>3, <1>4, <1>5, TouchCases

\* What posCache says nothing of is not held.
LEMMA NothingHeld ==
  ASSUME IInv, SessionHolds, NEW p \in Positions, posCache[p] = 0
  PROVE  holding[p] = 0
BY DEF SessionHolds, AbsQty, IInv, TypeOK, BrokerTypeOK

\* The monitor ends a position that is settled.
LEMMA NewlyEnded ==
  ASSUME IInv, SessionHolds, MonitorKnows, RecordsAreWhole, BracketSells, EndedIsSettled,
         NEW p \in Positions, Decides(p), Reasons(p), mem'[p].status \in Ended
  PROVE  Settled(p)
<1>1. CASE Goes(p, "lost", "save") /\ Becomes(p, {"CLOSED"})
  <2>1. mem[p].status = "PENDING" /\ ~Matches(p) /\ ~EntryOpen(p)
    BY <1>1 DEF Goes, Becomes, MonitorKnows, Reasons, EndedIsSettled
  <2>2. mem[p].side = "buy" /\ posCache[p] \in Nat
    BY <2>1 DEF RecordsAreWhole, IInv, TypeOK, BrokerTypeOK
  <2>3. posCache[p] = 0
    BY <2>1, <2>2 DEF Matches
  <2>4. QED
    BY <2>1, <2>3, NothingHeld DEF Settled
<1>2. CASE Goes(p, "holding", "save") \/ Goes(p, "orders", "save")
  <2>1. mem[p].status = "ACTIVE"
    BY <1>2 DEF Goes, MonitorKnows
  <2>2. ~EntryOpen(p)
    BY <2>1, Known DEF Held, EntryFilled, EntryOpen, Open
  <2>3. holding[p] <= 0
    BY <1>2, NothingHeld DEF Goes, Reasons, BracketSells
  <2>4. QED
    BY <2>2, <2>3 DEF Settled
<1>3. CASE Goes(p, "mark", "save")
  BY <1>3 DEF Goes, EndedIsSettled
<1>4. CASE Becomes(p, {"ACTIVE"})
  BY <1>4 DEF Becomes, Ended
<1> QED
  BY <1>1, <1>2, <1>3, <1>4 DEF Decides

\* A position ends because the monitor says so.
LEMMA EndedByDecision ==
  ASSUME CalmStep, NEW q \in Positions, mem'[q].status \in Ended, mem'[q].status # mem[q].status
  PROVE  \E p \in Positions : AllUntouched /\ Decides(p) /\ Reasons(p)
<1>1. ~StatusesKept
  BY DEF StatusesKept
<1>2. ~Restarts
  BY DEF Restarts, Crash, GoroutinePanic, Restart, Loaded, NoRecord, Ended
<1>3. \A p \in Positions : ~Inspects(p) /\ ~Places(p)
  BY <1>1 DEF Inspects, Places, Becomes, Ended
<1> QED
  BY <1>1, <1>2, <1>3 DEF CalmStep, Rests

LEMMA EndedInit == Init => EndedIsSettled
BY DEF Init, NoRecord, Ended, EndedIsSettled, Actors

\* What has ended is settled, and what is about to end too.
LEMMA EndedKeeps ==
  ASSUME IInv, IInv', SessionHolds, MonitorKnows, OrdersAreWhole, RecordsAreWhole, BracketSells,
         EndedIsSettled, CalmStep
  PROVE  EndedIsSettled'
<1>1. ASSUME NEW q \in Positions, mem[q].status \in Ended
      PROVE  Settled(q)'
  <2>1. orders[q] # <<>> /\ Settled(q)
    BY <1>1, Known DEF Ended, EndedIsSettled
  <2>2. at[Monitor] \in {"cancel", "exit", "partial"} => target[Monitor] # q
    BY <1>1 DEF MonitorKnows, Ended
  <2>3. QED
    BY <2>1, <2>2, SettledStays
<1>2. ASSUME NEW q \in Positions, at[Monitor] = "mark", target[Monitor] = q
      PROVE  Settled(q)'
  <2>1. orders[q] # <<>> /\ Settled(q)
    BY <1>2, AtWork DEF EndedIsSettled, Actors
  <2>2. QED
    BY <1>2, <2>1, SettledStays
<1>3. ASSUME NEW q \in Positions, at[Monitor] = "lost", target[Monitor] = q
      PROVE  ~EntryOpen(q)'
  BY <1>3, AtWork, EntryStaysShut DEF EndedIsSettled, Actors
<1>4. ASSUME NEW q \in Positions, mem'[q].status \in Ended, mem'[q].status # mem[q].status
      PROVE  Settled(q)'
  <2>4. PICK p \in Positions : AllUntouched /\ Decides(p) /\ Reasons(p)
    BY <1>4, EndedByDecision
  <2>5. p = q
    BY <1>4, <2>4 DEF Decides, Becomes
  <2>6. Settled(q)
    BY <1>4, <2>4, <2>5, NewlyEnded
  <2>7. QED
    BY <2>4, <2>6, UntouchedKeeps DEF AllUntouched, IInv, TypeOK
<1>5. ASSUME NEW p \in Positions, Goes(p, "exit", "mark"), Adds(p, "exit", Quantity)
      PROVE  Settled(p)'
  <2>1. mem[p].status = "ACTIVE"
    BY <1>5 DEF Goes, MonitorKnows
  <2>2. orders[p] # <<>> /\ ~EntryOpen(p)
    BY <2>1, Known DEF Held, EntryFilled, EntryOpen, Open
  <2>3. ~EntryOpen(p)'
    BY <2>2, EntryStaysShut
  <2>4. Len(orders[p]) + 1 \in Sent(p, "exit")'
    BY <1>5, AddedKinds
  <2>5. orders'[p][Len(orders[p]) + 1].state \in Open \union {"refused"}
    BY <1>5 DEF Adds, Open
  <2>6. \A j \in DOMAIN orders'[p] : j <= Len(orders[p]) + 1
    <3>1. Len(orders[p]) \in Nat /\ DOMAIN orders[p] = 1 .. Len(orders[p])
      BY LenProperties DEF IInv, TypeOK, BrokerTypeOK
    <3>2. QED
      BY <1>5, <3>1 DEF Adds
  <2>7. QED
    BY <2>3, <2>4, <2>5, <2>6 DEF Settled, ExitRefused
<1>6. ASSUME NEW q \in Positions, target'[Monitor] = q
      PROVE  /\ at'[Monitor] = "mark" => Settled(q)'
             /\ at'[Monitor] = "lost" => ~EntryOpen(q)'
  <2>1. CASE MonitorStays
    BY <1>2, <1>3, <1>6, <2>1 DEF MonitorStays
  <2>2. CASE Restarts
    BY <2>2 DEF Restarts
  <2>3. ASSUME AllUntouched, NEW p \in Positions, Inspects(p), Observes(p)
        PROVE  /\ at'[Monitor] = "mark" => Settled(q)'
               /\ at'[Monitor] = "lost" => ~EntryOpen(q)'
    <3>1. at'[Monitor] # "mark"
      BY <2>3 DEF Inspects, Goes, Observes
    <3>2. at'[Monitor] = "lost" => p = q /\ ~EntryOpen(p)
      BY <1>6, <2>3 DEF Inspects, Goes, Observes
    <3>3. Untouched(q)
      BY <2>3 DEF AllUntouched
    <3>4. QED
      BY <3>1, <3>2, <3>3, UntouchedKeeps DEF IInv, TypeOK
  <2>4. ASSUME NEW p \in Positions, Decides(p) \/ Goes(p, "cancel", "exit") \/ Goes(p, "partial", "save")
        PROVE  at'[Monitor] \notin {"mark", "lost"}
    BY <2>4 DEF Decides, Goes
  <2>5. ASSUME NEW p \in Positions, Goes(p, "exit", "mark"), Adds(p, "exit", Quantity)
        PROVE  at'[Monitor] # "lost" /\ Settled(q)'
    <3>1. p = q /\ at'[Monitor] # "lost"
      BY <1>6, <2>5 DEF Goes
    <3>2. QED
      BY <1>5, <2>5, <3>1
  <2>6. QED
    BY <2>1, <2>2, <2>3, <2>4, <2>5 DEF CalmStep, Rests, Places
<1>7. at'[Monitor] # "idle" => target'[Monitor] \in Positions
  BY DEF IInv, ManagedInv, WorkWasSent, Actors
<1>8. (\A q \in Positions : mem[q].status \in Ended => Settled(q))'
  BY <1>1, <1>4
<1>9. /\ (at[Monitor] = "mark" => Settled(target[Monitor]))'
      /\ (at[Monitor] = "lost" => ~EntryOpen(target[Monitor]))'
  <2>1. CASE at'[Monitor] \notin {"mark", "lost"}
    BY <2>1
  <2>2. CASE at'[Monitor] \in {"mark", "lost"}
    <3>1. PICK q \in Positions : target'[Monitor] = q
      BY <1>7, <2>2
    <3>2. /\ at'[Monitor] = "mark" => Settled(q)'
          /\ at'[Monitor] = "lost" => ~EntryOpen(q)'
      BY <1>6, <3>1
    <3>3. QED
      BY <3>1, <3>2 DEF Settled, EntryOpen, Sent, ExitRefused
  <2>3. QED
    BY <2>1, <2>2
<1> QED
  BY <1>8, <1>9 DEF EndedIsSettled

-----------------------------------------------------------------------------
(* What the exit orders of a position will sell *)

First(s) == CHOOSE k \in s : TRUE

\* The equation of the fold that counts n for each element of a subset of D.
Counts(g, D, n) ==
  g = [s \in SUBSET D |-> IF s = {} THEN 0 ELSE n + g[s \ {First(s)}]]

LEMMA CountStep ==
  ASSUME NEW n \in Nat, NEW s, IsFiniteSet(s)
  PROVE  /\ s = {} => n * Cardinality(s) = 0
         /\ s # {} => First(s) \in s /\ n * Cardinality(s) = n + n * Cardinality(s \ {First(s)})
<1>1. Cardinality(s) \in Nat
  BY FS_CardinalityType
<1>2. CASE s = {}
  <2>1. Cardinality(s) = 0
    BY <1>2, FS_EmptySet
  <2>2. QED
    BY <1>2, <2>1
<1>3. CASE s # {}
  <2>1. First(s) \in s
    BY <1>3 DEF First
  <2>2. Cardinality(s \ {First(s)}) = Cardinality(s) - 1
    BY <2>1, FS_RemoveElement
  <2> DEFINE c == Cardinality(s)
  <2> HIDE DEF c
  <2>3. c \in Nat => n * c = n + n * (c - 1)
    OBVIOUS
  <2>4. QED
    BY <1>1, <1>3, <2>1, <2>2, <2>3 DEF c
<1> QED
  BY <1>2, <1>3

\* The fold has one solution, which is a product.
LEMMA CountIs ==
  ASSUME NEW D, IsFiniteSet(D), NEW n \in Nat, NEW g, Counts(g, D, n)
  PROVE  \A s \in SUBSET D : g[s] = n * Cardinality(s)
<1> DEFINE Wrong == {s \in SUBSET D : g[s] # n * Cardinality(s)}
<1>1. IsWellFoundedOn(StrictSubsetOrdering(D), FiniteSubsetsOf(D))
  BY FS_StrictSubsetOrderingWellFounded
<1>2. Wrong \subseteq FiniteSubsetsOf(D)
  BY FS_Subset DEF FiniteSubsetsOf
<1>3. ASSUME Wrong # {} PROVE FALSE
  <2>1. PICK s \in Wrong : \A r \in Wrong : ~(<<r, s>> \in StrictSubsetOrdering(D))
    BY <1>1, <1>2, <1>3, WFMin
  <2>2. s \in SUBSET D /\ g[s] # n * Cardinality(s) /\ IsFiniteSet(s)
    BY <2>1, FS_Subset
  <2>3. s # {}
    BY <2>2, CountStep DEF Counts
  <2> DEFINE r == s \ {First(s)}
  <2>4. First(s) \in s /\ n * Cardinality(s) = n + n * Cardinality(r)
    BY <2>2, <2>3, CountStep
  <2>5. r \in SUBSET D /\ r # s /\ r \subseteq s
    BY <2>2, <2>4
  <2>6. <<r, s>> \in StrictSubsetOrdering(D)
    <3> HIDE DEF r
    <3> QED
      BY <2>2, <2>5 DEF StrictSubsetOrdering
  <2>7. g[r] = n * Cardinality(r)
    <3> HIDE DEF r
    <3> QED
      BY <2>1, <2>5, <2>6
  <2>8. g[s] = n + g[r]
    BY <2>2, <2>3 DEF Counts
  <2>9. QED
    <3> HIDE DEF r
    <3> QED
      BY <2>2, <2>4, <2>7, <2>8
<1> QED
  BY <1>3

LEMMA CountExists ==
  ASSUME NEW D, IsFiniteSet(D), NEW n \in Nat
  PROVE  \E g : Counts(g, D, n)
<1> DEFINE W == [s \in SUBSET D |-> n * Cardinality(s)]
           V == [s \in SUBSET D |-> IF s = {} THEN 0 ELSE n + W[s \ {First(s)}]]
<1>1. \A s \in SUBSET D : W[s] = V[s]
  <2> SUFFICES ASSUME NEW s \in SUBSET D PROVE W[s] = V[s]
    OBVIOUS
  <2>1. IsFiniteSet(s) /\ s \ {First(s)} \in SUBSET D
    BY FS_Subset
  <2>2. W[s] = n * Cardinality(s) /\ W[s \ {First(s)}] = n * Cardinality(s \ {First(s)})
    BY <2>1
  <2>3. V[s] = IF s = {} THEN 0 ELSE n + W[s \ {First(s)}]
    OBVIOUS
  <2> HIDE DEF W, V
  <2>4. QED
    BY <2>1, <2>2, <2>3, CountStep
<1>2. W = V
  <2>1. W = [s \in SUBSET D |-> W[s]] /\ V = [s \in SUBSET D |-> V[s]]
    OBVIOUS
  <2> HIDE DEF W, V
  <2>2. QED
    BY <1>1, <2>1
<1>3. W = [s \in SUBSET D |-> IF s = {} THEN 0 ELSE n + W[s \ {First(s)}]]
  <2> HIDE DEF W
  <2> QED
    BY <1>2
<1> HIDE DEF W
<1> QED
  BY <1>3 DEF Counts

\* Each exit order sells the whole position.
LEMMA ExitsSell ==
  ASSUME IInv, OrdersAreWhole, NEW p \in Positions
  PROVE  /\ ToBeSold(p) \in Nat
         /\ (\E k \in Sent(p, "exit") : orders[p][k].state \in Open) => ToBeSold(p) >= Quantity
<1> DEFINE open == {k \in Sent(p, "exit") : orders[p][k].state \in Open}
           R(g) == g = [s \in SUBSET open |->
                          IF s = {} THEN 0 ELSE orders[p][First(s)].qty + g[s \ {First(s)}]]
<1>1. open \subseteq DOMAIN orders[p] /\ \A k \in open : orders[p][k].qty = Quantity
  BY Position DEF Sent
<1>2. IsFiniteSet(open)
  <2>1. DOMAIN orders[p] = 1 .. Len(orders[p]) /\ Len(orders[p]) \in Nat
    BY LenProperties DEF IInv, TypeOK, BrokerTypeOK
  <2>2. IsFiniteSet(DOMAIN orders[p])
    BY <2>1, FS_Interval
  <2>3. QED
    BY <1>1, <2>2, FS_Subset
<1>3. ToBeSold(p) = (CHOOSE g : R(g))[open]
  BY DEF ToBeSold, MapThenSumSet, MapThenFoldSet, First
<1>4. ASSUME NEW g PROVE R(g) <=> Counts(g, open, Quantity)
  <2>1. \A s \in SUBSET open : s # {} => orders[p][First(s)].qty = Quantity
    <3> HIDE DEF open
    <3> QED
      BY <1>1 DEF First
  <2>2. [s \in SUBSET open |-> IF s = {} THEN 0 ELSE orders[p][First(s)].qty + g[s \ {First(s)}]]
        = [s \in SUBSET open |-> IF s = {} THEN 0 ELSE Quantity + g[s \ {First(s)}]]
    <3> HIDE DEF open
    <3> QED
      BY <2>1
  <2>3. QED
    BY <2>2 DEF Counts
<1> HIDE DEF open
<1>5. Quantity \in Nat
  BY QuantityAssumption
<1>6. \E g : R(g)
  BY <1>2, <1>4, <1>5, CountExists
<1> DEFINE c == CHOOSE g : R(g)
<1>7. Counts(c, open, Quantity)
  <2> HIDE DEF R
  <2> QED
    BY <1>4, <1>6
<1>8. c[open] = Quantity * Cardinality(open)
  <2> HIDE DEF c
  <2> QED
    BY <1>2, <1>5, <1>7, CountIs
<1>9. ToBeSold(p) = Quantity * Cardinality(open)
  BY <1>3, <1>8
<1>10. Cardinality(open) \in Nat /\ (open # {} => Cardinality(open) # 0)
  BY <1>2, FS_CardinalityType, FS_EmptySet
<1>11. \A n, m \in Nat : n * m \in Nat /\ (m # 0 => n * m >= n)
  OBVIOUS
<1>12. (\E k \in Sent(p, "exit") : orders[p][k].state \in Open) => open # {}
  BY DEF open
<1> QED
  BY <1>5, <1>9, <1>10, <1>11, <1>12

LEMMA SettledInit ==
  ASSUME Undisturbed
  PROVE  Init => IInv /\ MonitorKnows /\ SettledInv
BY InitEstablishes, ExitInit, SessionInit, WholeInit, BracketInit, EndedInit DEF SettledInv

LEMMA SettledKeeps ==
  ASSUME Undisturbed, IInv, MonitorKnows, SettledInv, [Next]_vars
  PROVE  IInv' /\ MonitorKnows' /\ SettledInv'
<1>1. SessionHolds /\ OrdersAreWhole /\ RecordsAreWhole /\ BracketSells /\ EndedIsSettled
  BY DEF SettledInv
<1>2. IInv' /\ MonitorKnows' /\ SessionHolds'
  BY <1>1, NextKeeps, KnowsKeeps, SessionKeeps DEF Undisturbed
<1>3. CalmStep
  BY <1>1, StepEffect
<1>4. OrdersAreWhole' /\ RecordsAreWhole'
  BY <1>1, <1>3, OrdersKeep, RecordsKeep
<1>5. BracketSells' /\ EndedIsSettled'
  BY <1>1, <1>2, <1>3, BracketKeeps, EndedKeeps
<1> QED
  BY <1>2, <1>4, <1>5 DEF SettledInv

\* In a session that holds, whatever the modes it trades in, the partial exits
\* and the restarts: of a bought position that the monitor has ended, nothing
\* is left but what its market exits are selling, unless the last of them was
\* refused.
THEOREM NothingIsLeft ==
  ASSUME Undisturbed
  PROVE  Spec => []NothingLeftBehind
<1> DEFINE Settles == IInv /\ MonitorKnows /\ SettledInv
<1>1. Init => Settles
  BY SettledInit
<1>2. Settles /\ [Next]_vars => Settles'
  BY SettledKeeps
<1>3. Settles => NothingLeftBehind
  <2> SUFFICES ASSUME Settles, NEW p \in Positions, mem[p].status \in Ended
               PROVE  holding[p] <= ToBeSold(p) \/ ExitRefused(p)
    BY DEF NothingLeftBehind
  <2>1. Settled(p) /\ holding[p] <= Quantity
    BY DEF SettledInv, EndedIsSettled, BracketSells
  <2>2. holding[p] \in Int /\ Quantity \in Nat
    BY Position DEF SettledInv
  <2>3. /\ ToBeSold(p) \in Nat
        /\ (\E k \in Sent(p, "exit") : orders[p][k].state \in Open) => ToBeSold(p) >= Quantity
    BY ExitsSell DEF SettledInv
  <2>4. QED
    BY <2>1, <2>2, <2>3 DEF Settled
<1> HIDE DEF Settles
<1> QED
  BY <1>1, <1>2, <1>3, PTL DEF Spec

-----------------------------------------------------------------------------
(* Without partial exits: one way out *)

LEMMA BracketStaysShut ==
  ASSUME IInv, IInv', OrdersAreWhole, CalmStep,
         NEW q \in Positions, orders[q] # <<>>, NoBracketOpen(q)
  PROVE  NoBracketOpen(q)'
<1>0. /\ BrokerTypeOK /\ BrokerTypeOK' /\ Bracket(q) \subseteq DOMAIN orders[q]
      /\ \A j \in Bracket(q) : orders[q][j].state \notin Open
  BY Position DEF IInv, TypeOK, NoBracketOpen
<1>1. CASE Untouched(q)
  BY <1>0, <1>1, UntouchedKeeps
<1>2. ASSUME NEW ks, Cancels(q, ks)
      PROVE  NoBracketOpen(q)'
  BY <1>0, <1>2, MovedKinds, CancelStates DEF Cancels, Moves, NoBracketOpen
<1>3. ASSUME NEW k \in DOMAIN orders[q], Fills(q, k)
      PROVE  NoBracketOpen(q)'
  BY <1>0, <1>3, MovedKinds, FillStates DEF Fills, Moves, NoBracketOpen
<1>4. ASSUME NEW kind \in {"partial", "exit"}, NEW qty, Adds(q, kind, qty)
      PROVE  NoBracketOpen(q)'
  BY <1>0, <1>4, AddedKinds DEF Adds, NoBracketOpen
<1>5. ~Begins(q)
  BY DEF Begins
<1> QED
  BY <1>1, <1>2, <1>3, <1>4, <1>5, TouchCases

\* The monitor exits a position once its bracket is gone.
LEMMA GoneKeeps ==
  ASSUME IInv, IInv', OrdersAreWhole, RecordsAreWhole, BracketIsGone, CalmStep, PartialExits \subseteq {FALSE}
  PROVE  BracketIsGone'
<1>0. \A p \in Positions : ~mem[p].partialExit
  BY DEF RecordsAreWhole
<1>1. ASSUME NEW q \in Positions, at[Monitor] \in {"exit", "mark"}, target[Monitor] = q
      PROVE  NoBracketOpen(q)'
  BY <1>1, AtWork, BracketStaysShut DEF BracketIsGone, Actors
<1>2. ASSUME NEW p \in Positions, NEW ks, Cancels(p, {Entry} \union Bracket(p) \union ks)
      PROVE  NoBracketOpen(p)'
  BY <1>2, Position, MovedKinds, CancelStates DEF Cancels, Moves, NoBracketOpen
<1> DEFINE Shut(q) == at'[Monitor] # "partial" /\ (at'[Monitor] \in {"exit", "mark"} => NoBracketOpen(q)')
<1>3. ASSUME NEW q \in Positions, target'[Monitor] = q
      PROVE  Shut(q)
  <2>1. CASE MonitorStays
    BY <1>1, <1>3, <2>1 DEF MonitorStays, BracketIsGone
  <2>2. CASE Restarts
    BY <2>2 DEF Restarts
  <2>3. ASSUME NEW p \in Positions, Inspects(p), Observes(p)
        PROVE  Shut(q)
    BY <2>3 DEF Inspects, Goes, Observes
  <2>4. ASSUME NEW p \in Positions, Decides(p), Reasons(p)
        PROVE  Shut(q)
    BY <1>0, <2>4 DEF Decides, Goes, Reasons
  <2>5. ASSUME NEW p \in Positions, Goes(p, "cancel", "exit"),
               \E ks : Cancels(p, {Entry} \union Bracket(p) \union ks)
        PROVE  Shut(q)
    BY <1>2, <1>3, <2>5 DEF Goes
  <2>6. ASSUME NEW p \in Positions, Goes(p, "partial", "save")
        PROVE  Shut(q)
    BY <2>6 DEF Goes
  <2>7. ASSUME NEW p \in Positions, Goes(p, "exit", "mark")
        PROVE  Shut(q)
    BY <1>1, <1>3, <2>7 DEF Goes
  <2> HIDE DEF Shut
  <2>8. QED
    BY <2>1, <2>2, <2>3, <2>4, <2>5, <2>6, <2>7 DEF CalmStep, Rests, Places
<1>4. at'[Monitor] # "idle" => target'[Monitor] \in Positions
  BY DEF IInv, ManagedInv, WorkWasSent, Actors
<1>5. CASE at'[Monitor] \notin {"partial", "exit", "mark"}
  BY <1>5 DEF BracketIsGone
<1>6. CASE at'[Monitor] \in {"partial", "exit", "mark"}
  <2>1. PICK q \in Positions : target'[Monitor] = q
    BY <1>4, <1>6
  <2>2. Shut(q)
    BY <1>3, <2>1
  <2>3. QED
    BY <2>1, <2>2 DEF BracketIsGone, NoBracketOpen, Bracket
<1> QED
  BY <1>5, <1>6

\* The monitor ends a position whose bracket is gone.
LEMMA NewlyOut ==
  ASSUME IInv, SessionHolds, MonitorKnows, RecordsAreWhole, EndedIsSettled, OneWayOut, BracketIsGone,
         NEW p \in Positions, Decides(p), Reasons(p), mem'[p].status \in Ended
  PROVE  NoBracketOpen(p)
<1>0. holding[p] = 0 /\ EntryFilled(p) => NoBracketOpen(p)
  BY QuantityAssumption DEF OneWayOut
<1>1. CASE Goes(p, "lost", "save") /\ Becomes(p, {"CLOSED"})
  <2>1. mem[p].status = "PENDING" /\ ~Matches(p) /\ ~EntryOpen(p)
    BY <1>1 DEF Goes, Becomes, MonitorKnows, Reasons, EndedIsSettled
  <2>2. mem[p].side = "buy" /\ posCache[p] \in Nat
    BY <2>1 DEF RecordsAreWhole, IInv, TypeOK, BrokerTypeOK
  <2>3. posCache[p] = 0
    BY <2>1, <2>2 DEF Matches
  <2>4. holding[p] = 0
    BY <2>3, NothingHeld
  <2>5. ~EntryFilled(p) => NoBracketOpen(p)
    BY <2>1 DEF OneWayOut
  <2>6. QED
    BY <1>0, <2>4, <2>5
<1>2. CASE Goes(p, "holding", "save")
  <2>1. mem[p].status = "ACTIVE" /\ holding[p] = 0
    BY <1>2, NothingHeld DEF Goes, MonitorKnows, Reasons
  <2>2. EntryFilled(p)
    BY <2>1, Known DEF Held
  <2>3. QED
    BY <1>0, <2>1, <2>2
<1>3. CASE Goes(p, "orders", "save")
  BY <1>3 DEF Goes, Reasons, OneWayOut
<1>4. CASE Goes(p, "mark", "save")
  BY <1>4 DEF Goes, BracketIsGone
<1>5. CASE Becomes(p, {"ACTIVE"})
  BY <1>5 DEF Becomes, Ended
<1> QED
  BY <1>1, <1>2, <1>3, <1>4, <1>5 DEF Decides

\* What ends a position, and what has ended it before.
LEMMA EndedIsOut ==
  ASSUME IInv, IInv', SessionHolds, MonitorKnows, OrdersAreWhole, RecordsAreWhole, EndedIsSettled,
         OneWayOut, BracketIsGone, CalmStep,
         NEW q \in Positions, mem'[q].status \in Ended
  PROVE  NoBracketOpen(q)'
<1>1. CASE mem[q].status \in Ended
  <2>1. orders[q] # <<>> /\ NoBracketOpen(q)
    BY <1>1, Known DEF Ended, OneWayOut
  <2>2. QED
    BY <2>1, BracketStaysShut
<1>2. CASE mem[q].status \notin Ended
  <2>1. PICK p \in Positions : AllUntouched /\ Decides(p) /\ Reasons(p)
    BY <1>2, EndedByDecision
  <2>2. p = q
    BY <1>2, <2>1 DEF Decides, Becomes
  <2>3. NoBracketOpen(q)
    BY <2>1, <2>2, NewlyOut
  <2>4. QED
    BY <2>1, <2>3, UntouchedKeeps DEF AllUntouched, IInv, TypeOK
<1> QED
  BY <1>1, <1>2

LEMMA OutInit == Init => OneWayOut /\ BracketIsGone
<1> SUFFICES ASSUME Init PROVE OneWayOut /\ BracketIsGone
  OBVIOUS
<1>1. \A p \in Positions : orders[p] = <<>> /\ DOMAIN orders[p] = {}
  BY DEF Init, BrokerInit
<1>2. at[Monitor] = "idle"
  BY DEF Init, Actors
<1> QED
  BY <1>1, <1>2 DEF OneWayOut, BracketIsGone, Sent, EntryFilled, NoBracketOpen, Bracket

\* The part of OneWayOut that a fill changes.
LEMMA FillOut ==
  ASSUME IInv, IInv', OrdersAreWhole, OneWayOut, CalmStep,
         NEW q \in Positions, NEW k \in DOMAIN orders[q], Fills(q, k)
  PROVE  /\ EntryFilled(q)' => \/ holding'[q] = Quantity
                               \/ BracketFilled(q)' \/ Sent(q, "exit")' # {}
         /\ (~EntryOpen(q)' /\ ~EntryFilled(q)') \/ BracketFilled(q)' => NoBracketOpen(q)'
<1>1. /\ Bracket(q)' = Bracket(q) /\ Bracket(q) \subseteq DOMAIN orders[q] /\ Entry \notin Bracket(q)
      /\ Sent(q, "exit")' = Sent(q, "exit") /\ Entry \in DOMAIN orders[q] /\ orders[q] # <<>>
      /\ DOMAIN orders'[q] = DOMAIN orders[q]
      /\ \A j \in DOMAIN orders[q] : orders'[q][j].state = AfterFill(q, k)[j]
  BY Position, MovedKinds DEF Fills, Moves
<1>2. orders'[q] # <<>>
  BY <1>1, HasEntry DEF IInv, TypeOK, BrokerTypeOK
<1>3. CASE k = Entry
  <2>1. ~EntryFilled(q) /\ orders[q][k].qty = Quantity
    BY <1>3, Position DEF EntryFilled, Fills
  <2>2. holding[q] = 0 /\ ~BracketFilled(q) /\ Quantity \in Nat
    BY <2>1, Position
  <2>3. holding'[q] = Quantity
    BY <1>3, <2>1, <2>2 DEF Fills
  <2>4. EntryFilled(q)'
    BY <1>1, <1>2, <1>3, FillStates DEF EntryFilled
  <2>5. ~BracketFilled(q)'
    BY <1>1, <1>3, <2>2, FillStates DEF BracketFilled
  <2>6. QED
    BY <2>3, <2>4, <2>5
<1>4. CASE k \in Bracket(q)
  <2>1. BracketFilled(q)'
    BY <1>1, <1>4, FillStates DEF BracketFilled
  <2>2. NoBracketOpen(q)'
    BY <1>1, <1>4, FillStates DEF NoBracketOpen
  <2>3. QED
    BY <2>1, <2>2
<1>5. CASE k # Entry /\ k \notin Bracket(q)
  <2>1. k \in Sent(q, "exit")
    <3>1. orders[q][k].kind \in {"partial", "exit"}
      BY <1>5, Position DEF Kinds, Bracket
    <3>2. Sent(q, "partial") = {}
      BY DEF OneWayOut
    <3>3. QED
      BY <3>1, <3>2 DEF Sent
  <2>2. NoBracketOpen(q)
    BY <2>1 DEF OneWayOut
  <2>3. NoBracketOpen(q)'
    BY <1>1, <2>2, BracketStaysShut
  <2>4. QED
    BY <1>1, <2>1, <2>3
<1> QED
  BY <1>3, <1>4, <1>5

\* And the part that a cancel changes.
LEMMA CancelOut ==
  ASSUME IInv, IInv', OrdersAreWhole, OneWayOut, CalmStep, NEW q \in Positions, NEW ks,
         Entry \in ks, Cancels(q, ks)
  PROVE  /\ EntryFilled(q)' => \/ holding'[q] = Quantity
                               \/ BracketFilled(q)' \/ Sent(q, "exit")' # {}
         /\ (~EntryOpen(q)' /\ ~EntryFilled(q)') \/ BracketFilled(q)' => NoBracketOpen(q)'
<1>1. /\ Bracket(q)' = Bracket(q) /\ Bracket(q) \subseteq DOMAIN orders[q]
      /\ Sent(q, "exit")' = Sent(q, "exit")
      /\ DOMAIN orders'[q] = DOMAIN orders[q] /\ holding'[q] = holding[q]
      /\ \A j \in DOMAIN orders[q] : orders'[q][j].state = AfterCancel(q, ks)[j]
  BY Position, MovedKinds DEF Cancels, Moves
<1>2. CASE orders[q] = <<>>
  <2>1. DOMAIN orders'[q] = {} /\ Bracket(q) = {}
    BY <1>1, <1>2, Position
  <2>2. orders'[q] = <<>>
    BY <2>1, HasEntry DEF IInv, TypeOK, BrokerTypeOK
  <2>3. QED
    BY <1>1, <2>1, <2>2 DEF EntryFilled, NoBracketOpen
<1>3. CASE orders[q] # <<>>
  <2>1. Entry \in DOMAIN orders[q] /\ orders'[q] # <<>>
    BY <1>1, <1>3, HasEntry DEF IInv, TypeOK, BrokerTypeOK
  <2>2. EntryFilled(q)' <=> EntryFilled(q)
    BY <1>1, <1>3, <2>1, CancelStates DEF EntryFilled
  <2>3. BracketFilled(q)' <=> BracketFilled(q)
    BY <1>1, CancelStates DEF BracketFilled
  <2>4. CASE EntryOpen(q)
    <3>1. NoBracketOpen(q)'
      BY <1>1, <2>4, CancelStates DEF EntryOpen, NoBracketOpen
    <3>2. QED
      BY <1>1, <2>2, <2>3, <3>1 DEF OneWayOut
  <2>5. CASE ~EntryOpen(q)
    <3>1. ~EntryFilled(q) \/ BracketFilled(q) => NoBracketOpen(q)'
      BY <1>3, <2>5, BracketStaysShut DEF OneWayOut
    <3>2. QED
      BY <1>1, <2>2, <2>3, <3>1 DEF OneWayOut
  <2>6. QED
    BY <2>4, <2>5
<1> QED
  BY <1>2, <1>3

LEMMA OutKeeps ==
  ASSUME IInv, IInv', SessionHolds, MonitorKnows, OrdersAreWhole, RecordsAreWhole, EndedIsSettled,
         OneWayOut, BracketIsGone, CalmStep
  PROVE  OneWayOut'
<1> SUFFICES ASSUME NEW q \in Positions
             PROVE  /\ Sent(q, "partial")' = {}
                    /\ EntryFilled(q)' => \/ holding'[q] = Quantity
                                          \/ BracketFilled(q)' \/ Sent(q, "exit")' # {}
                    /\ (~EntryOpen(q)' /\ ~EntryFilled(q)') \/ BracketFilled(q)' => NoBracketOpen(q)'
                    /\ Sent(q, "exit")' # {} => NoBracketOpen(q)'
  BY EndedIsOut DEF OneWayOut
<1>1. /\ Sent(q, "partial") = {}
      /\ Sent(q, "exit") # {} => NoBracketOpen(q) /\ orders[q] # <<>>
  BY Position DEF OneWayOut, Sent
<1>2. CASE Untouched(q)
  <2>1. /\ Sent(q, "partial")' = Sent(q, "partial") /\ Sent(q, "exit")' = Sent(q, "exit")
        /\ EntryOpen(q)' <=> EntryOpen(q)
        /\ EntryFilled(q)' <=> EntryFilled(q)
        /\ BracketFilled(q)' <=> BracketFilled(q)
        /\ NoBracketOpen(q)' <=> NoBracketOpen(q)
        /\ holding'[q] = holding[q]
    BY <1>2, UntouchedKeeps DEF IInv, TypeOK, Untouched
  <2>2. QED
    BY <2>1 DEF OneWayOut
<1>3. ASSUME NEW new, Moves(q, new)
      PROVE  /\ Sent(q, "partial")' = {}
             /\ Sent(q, "exit")' # {} => NoBracketOpen(q)'
  BY <1>1, <1>3, MovedKinds, BracketStaysShut
<1>4. ASSUME NEW ks, Entry \in ks, Cancels(q, ks)
      PROVE  /\ Sent(q, "partial")' = {}
             /\ Sent(q, "exit")' # {} => NoBracketOpen(q)'
  BY <1>3, <1>4 DEF Cancels
<1>5. ASSUME NEW k \in DOMAIN orders[q], Fills(q, k)
      PROVE  /\ Sent(q, "partial")' = {}
             /\ Sent(q, "exit")' # {} => NoBracketOpen(q)'
  BY <1>3, <1>5 DEF Fills
<1>6. CASE Begins(q)
  <2>1. Sent(q, "partial")' = {} /\ Sent(q, "exit")' = {}
    BY <1>6 DEF Begins, Sent
  <2>2. \A k \in DOMAIN orders'[q] : orders'[q][k].state \in Open
    BY <1>6 DEF Begins
  <2>3. ~BracketFilled(q)'
    BY <2>2 DEF BracketFilled, Bracket, Open
  <2>4. CASE orders'[q] = <<>>
    BY <2>1, <2>3, <2>4 DEF EntryFilled, NoBracketOpen, Bracket
  <2>5. CASE orders'[q] # <<>>
    <3>1. Entry \in DOMAIN orders'[q]
      BY <2>5, HasEntry DEF IInv, TypeOK, BrokerTypeOK
    <3>2. EntryOpen(q)' /\ ~EntryFilled(q)'
      BY <2>2, <2>5, <3>1 DEF EntryOpen, EntryFilled, Open
    <3>3. QED
      BY <2>1, <2>3, <3>2
  <2>6. QED
    BY <2>4, <2>5
<1>7. CASE Goes(q, "exit", "mark") /\ Adds(q, "exit", Quantity)
  <2>1. NoBracketOpen(q) /\ orders[q] # <<>>
    BY <1>7, AtWork DEF Goes, BracketIsGone, Actors
  <2>2. NoBracketOpen(q)'
    BY <2>1, BracketStaysShut
  <2>3. Sent(q, "partial")' = {} /\ Sent(q, "exit")' # {}
    BY <1>1, <1>7, AddedKinds
  <2>4. QED
    BY <2>2, <2>3
<1>8. ~Goes(q, "partial", "save")
  BY DEF Goes, BracketIsGone
<1> QED
  BY <1>2, <1>4, <1>5, <1>6, <1>7, <1>8, FillOut, CancelOut, TouchCases

\* Without partial exits besides: no entry and no bracket order of a position
\* that the monitor has ended is open.
THEOREM NoBracketIsLeft ==
  ASSUME Undisturbed, PartialExits \subseteq {FALSE}
  PROVE  Spec => []EndedHasNoBracket
<1> DEFINE Clears == IInv /\ MonitorKnows /\ SettledInv /\ OneWayOut /\ BracketIsGone
<1>1. Init => Clears
  BY SettledInit, OutInit
<1>2. Clears /\ [Next]_vars => Clears'
  <2> SUFFICES ASSUME Clears, [Next]_vars
               PROVE  Clears'
    OBVIOUS
  <2>1. IInv' /\ MonitorKnows' /\ SettledInv'
    BY SettledKeeps
  <2>2. SessionHolds /\ OrdersAreWhole /\ RecordsAreWhole /\ BracketSells /\ EndedIsSettled
    BY DEF SettledInv
  <2>3. CalmStep
    BY <2>2, StepEffect
  <2>4. OneWayOut' /\ BracketIsGone'
    BY <2>1, <2>2, <2>3, OutKeeps, GoneKeeps
  <2>5. QED
    BY <2>1, <2>4
<1>3. Clears => EndedHasNoBracket
  <2> SUFFICES ASSUME Clears, NEW p \in Positions, mem[p].status \in Ended,
                      NEW k \in DOMAIN orders[p], orders[p][k].state \in Open
               PROVE  orders[p][k].kind = "exit"
    BY DEF EndedHasNoBracket
  <2>1. orders[p][k].kind \in Kinds /\ (k = Entry <=> orders[p][k].kind = "entry") /\ orders[p] # <<>>
    BY Position DEF SettledInv
  <2>2. k # Entry
    BY <2>1 DEF SettledInv, EndedIsSettled, Settled, EntryOpen
  <2>3. orders[p][k].kind \notin {"tp", "sl"}
    BY DEF OneWayOut, NoBracketOpen, Bracket
  <2>4. orders[p][k].kind # "partial"
    BY DEF OneWayOut, Sent
  <2>5. QED
    BY <2>1, <2>2, <2>3, <2>4 DEF Kinds
<1> HIDE DEF Clears
<1> QED
  BY <1>1, <1>2, <1>3, PTL DEF Spec

=============================================================================
