---------------------------- MODULE TWSRequests ----------------------------
(***************************************************************************)
(* The requests that wait for an answer of the gateway, over the sessions  *)
(* of TWSClient: tws/dispatcher.go with the id counter, ReqContractDetails *)
(* of the client, GetAccount and ListOrders of the trading service, quotes *)
(* and bars of services/ibkr_data.go.  A caller makes one request.         *)
(***************************************************************************)
EXTENDS TWSClient

CONSTANTS
  Callers,
  KindsOf,     \* the requests each of them may make
  FirstId,     \* the order id the gateway starts every session with
  MaxAnswers,  \* items in an answer: at most
  Capacity,    \* of a dispatcher channel: 16
  MaxReplaced  \* connections that are replaced while requests are made

Kinds == {"account", "contract", "orders", "quote", "bars"}

ASSUME RequestAssumption ==
  /\ KindsOf \in [Callers -> SUBSET Kinds]
  /\ FirstId \in Nat \ {0}
  /\ MaxAnswers \in Nat
  /\ Capacity \in Nat \ {0}
  /\ MaxReplaced \in Nat

VARIABLES
  nextId,   \* Client.orderIDs
  pending,  \* the registrations of every dispatcher, by generation
  streams,  \* IBKRDataService.streams, with the bars of histBuf
  chan,     \* the channel of each caller
  call,     \* how far each caller is
  owed      \* external: what the gateway still has to answer, and where

requestVars == <<nextId, pending, streams, chan, call, owed>>

NoChannel == [buf |-> <<>>, closedBy |-> "nobody", dropped |-> 0]

Streamed == {"quote", "bars"}

RequestTypeOK ==
  /\ nextId \in Nat
  /\ pending \subseteq [gen : 0..MaxGeneration, id : Nat, caller : Callers]
  /\ streams \subseteq [id : Nat, caller : Callers, bars : Nat]
  /\ \A c \in Callers :
       /\ \A i \in DOMAIN chan[c].buf :
            chan[c].buf[i] \in [what : {"item", "error", "bars"}, to : Callers, n : Nat]
       /\ chan[c].closedBy \in {"nobody", "end", "drain", "other"}
       /\ chan[c].dropped \in Nat
       /\ call[c].at \in {"idle", "waiting", "done"}
       /\ call[c].result \in {"none", "ok", "error", "panic"}
       /\ call[c].from \subseteq Callers
  /\ owed \subseteq [sock : Nat, id : Nat, kind : Kinds, to : Callers, left : 0..MaxAnswers]

\* A call: how far it is, its request, the generation of its registration, the
\* items the gateway answers with and those received.  History, read by the
\* properties only: whose answers it received (from), to whom the gateway
\* still owed an answer under its id when it asked (crossed), whether its id
\* comes from a counter that nextValidId has not seeded (early), and whether
\* items are missing that no full channel dropped (short).
NoCall == [at |-> "idle", kind |-> "none", id |-> 0, gen |-> 0, size |-> 0, got |-> 0,
           from |-> {}, crossed |-> {}, early |-> FALSE,
           result |-> "none", by |-> "nobody", short |-> FALSE]

RequestInit ==
  /\ nextId = FirstId
  /\ pending = {}
  /\ streams = {}
  /\ chan = [c \in Callers |-> NoChannel]
  /\ call = [c \in Callers |-> NoCall]
  /\ owed = {}

-----------------------------------------------------------------------------
(* The dispatcher *)

At(g, id) == {e \in pending : e.gen = g /\ e.id = id}

\* Dispatch: a full channel drops the message.
Deliver(c, m) ==
  IF Len(chan[c].buf) < Capacity
  THEN [chan[c] EXCEPT !.buf = Append(@, m)] ELSE [chan[c] EXCEPT !.dropped = @ + 1]

Dispatch(id, m) ==
  /\ chan' = [c \in Callers |->
       IF \E e \in At(generation, id) : e.caller = c THEN Deliver(c, m) ELSE chan[c]]
  /\ UNCHANGED <<pending, streams>>

\* Closing the channels of the registrations es removes them.
CloseAll(es, why) ==
  /\ pending' = pending \ es
  /\ chan' = [c \in Callers |->
       IF \E e \in es : e.caller = c THEN [chan[c] EXCEPT !.closedBy = why] ELSE chan[c]]

Complete(g, id, why) == CloseAll(At(g, id), why)

-----------------------------------------------------------------------------
(* The streams of the data service *)

Stream(id) == {e \in streams : e.id = id}

\* HistoricalData keeps a bar of a stream that exists.
KeepBar(id) ==
  /\ streams' = {IF e.id = id THEN [e EXCEPT !.bars = @ + 1] ELSE e : e \in streams}
  /\ UNCHANGED chan

\* TickPrice hands on a tick, Error the error, and HistoricalDataEnd the bars
\* that were kept.
HandOn(id, what, to) ==
  /\ chan' = [c \in Callers |->
       LET mine == {e \in Stream(id) : e.caller = c} IN
       IF mine = {} THEN chan[c]
       ELSE [chan[c] EXCEPT !.buf = Append(@, [what |-> what, to |-> to,
               n |-> IF what = "bars" THEN (CHOOSE e \in mine : TRUE).bars
                     ELSE IF what = "item" THEN 1 ELSE 0])]]
  /\ streams' = IF what = "bars"
                THEN {IF e.id = id THEN [e EXCEPT !.bars = 0] ELSE e : e \in streams}
                ELSE streams

\* subscribe; unsubscribe closes whatever stream has the id by then.
Subscribe(id, c) ==
  streams' = (streams \ Stream(id)) \union {[id |-> id, caller |-> c, bars |-> 0]}

CloseStreams(es, why) ==
  /\ streams' = streams \ es
  /\ chan' = [c \in Callers |->
       IF \E e \in es : e.caller = c THEN [chan[c] EXCEPT !.closedBy = why] ELSE chan[c]]

-----------------------------------------------------------------------------
(* A caller *)

\* To whom the gateway still owes, on the client's connection, an answer under
\* this id that the same service hands on.
Crossing(k, id) ==
  {r.to : r \in {q \in owed : /\ conn \in alive /\ q.sock = conn /\ q.id = id
                              /\ (q.kind \in Streamed) = (k \in Streamed)}}

\* An id of the counter between Reset, which leaves it at 0, and nextValidId.
Early(k) == k # "orders" /\ \E f \in Flows : flow[f].at = "opened"

\* The write of a request of caller c: it meets a nil connection, arrives,
\* fails, or is lost in a connection that is closed or not started yet.
Written(c, k, id) ==
  LET Goes(n) == [call[c] EXCEPT !.at = "waiting", !.kind = k, !.id = id,
                                    !.gen = generation, !.size = n,
                                    !.crossed = Crossing(k, id), !.early = Early(k)]
      Fails(r) == [call[c] EXCEPT !.at = "done", !.kind = k, !.result = r]
  IN
  \/ conn = Nil /\ call' = [call EXCEPT ![c] = Fails("panic")] /\ UNCHANGED owed
  \/ /\ conn \in alive
     /\ \E n \in 0..MaxAnswers :
          /\ call' = [call EXCEPT ![c] = Goes(n)]
          /\ owed' = owed \union {[sock |-> conn, id |-> id, kind |-> k, to |-> c, left |-> n]}
  \/ /\ conn # Nil
     /\ conn \notin alive \/ ~connected
     /\ \E x \in {Goes(0), Fails("error")} : call' = [call EXCEPT ![c] = x]
     /\ UNCHANGED owed

\* Mutant: a stream uses the next id without taking it.
IdAfter_StreamsPeek(k) == IF k = "contract" THEN nextId + 1 ELSE nextId

\* Mutant: a request that needs no id gives one back.
IdAfter_GivesBack(k) == IF k = "orders" THEN nextId - 1 ELSE nextId + 1

\* NextOrderId takes an id; the ListOrders request has the fixed id 0.
IdAfter(k) == IF k = "orders" THEN nextId ELSE nextId + 1

\* NextOrderId, Register or subscribe, and the request; one that is not
\* waiting then has gone through its deferred Complete.  ListOrders holds
\* globalReqMu and uses the id 0.
Ask(c, k) ==
  LET id == IF k = "orders" THEN 0 ELSE nextId IN
  /\ call[c].at = "idle"
  /\ k = "orders" => \A d \in Callers : call[d].kind = "orders" => call[d].at = "done"
  /\ k \in Streamed \/ At(generation, id) = {}
  /\ nextId' = IdAfter(k)
  /\ Written(c, k, id)
  /\ IF call'[c].at = "done" THEN UNCHANGED <<pending, streams>>
     ELSE IF k \in Streamed THEN Subscribe(id, c) /\ UNCHANGED pending
     ELSE /\ pending' = pending \union {[gen |-> generation, id |-> id, caller |-> c]}
          /\ UNCHANGED streams
  /\ UNCHANGED chan

\* Register panics when the id is registered.
AskTwice(c, k) ==
  LET id == IF k = "orders" THEN 0 ELSE nextId IN
  /\ call[c].at = "idle"
  /\ k \notin Streamed
  /\ k = "orders" => \A d \in Callers : call[d].kind = "orders" => call[d].at = "done"
  /\ At(generation, id) # {}
  /\ nextId' = IdAfter(k)
  /\ call' = [call EXCEPT ![c].at = "done", ![c].kind = k, ![c].result = "panic"]
  /\ UNCHANGED <<pending, streams, chan, owed>>

\* The bid and the ask make a quote.
Receive(c) ==
  /\ call[c].at = "waiting"
  /\ chan[c].buf # <<>>
  /\ Head(chan[c].buf).what = "item"
  /\ call[c].kind = "quote" => call[c].got = 0
  /\ call' = [call EXCEPT ![c].got = @ + 1, ![c].from = @ \union {Head(chan[c].buf).to}]
  /\ chan' = [chan EXCEPT ![c].buf = Tail(@)]
  /\ UNCHANGED <<nextId, pending, streams, owed>>

\* The request returns and its deferred Complete runs: on the dispatcher it
\* was registered with in ReqContractDetails, on the client's current one in
\* GetAccount and ListOrders.
Return(c, result, more, from) ==
  LET g == IF call[c].kind = "contract" THEN call[c].gen ELSE generation
      mine == IF call[c].kind \in Streamed THEN {} ELSE At(g, call[c].id)
      theirs == IF call[c].kind \in Streamed THEN Stream(call[c].id) ELSE {}
  IN
  /\ call[c].at = "waiting"
  /\ call' = [call EXCEPT ![c] =
       [@ EXCEPT !.at = "done", !.result = result, !.by = chan[c].closedBy,
                 !.from = call[c].from \union from,
                 !.short = call[c].got + more + chan[c].dropped < call[c].size,
                 !.id = 0, !.got = 0, !.size = 0, !.gen = 0]]
  /\ pending' = pending \ mine
  /\ streams' = streams \ theirs
  /\ chan' = [d \in Callers |->
       IF d = c THEN NoChannel
       ELSE IF \E e \in mine \union theirs : e.caller = d
       THEN [chan[d] EXCEPT !.closedBy = "other"] ELSE chan[d]]
  /\ UNCHANGED <<nextId, owed>>

\* All bars of a history, or the second price of a quote.
ReturnAnswer(c) ==
  /\ chan[c].buf # <<>>
  /\ LET m == Head(chan[c].buf) IN
     /\ m.what = "bars" \/ (m.what = "item" /\ call[c].kind = "quote" /\ call[c].got = 1)
     /\ Return(c, "ok", m.n, {m.to})

ReturnError(c) ==
  /\ chan[c].buf # <<>>
  /\ Head(chan[c].buf).what = "error"
  /\ Return(c, "error", 0, {Head(chan[c].buf).to})

\* Mutant: the closed channel is looked at before what it still holds.
ReturnClosed_AtOnce(c) ==
  /\ call[c].kind \notin Streamed
  /\ chan[c].closedBy # "nobody"
  /\ Return(c, "ok", 0, {})

\* A closed channel ends a dispatcher request with success; a quote or a
\* history does not look whether its channel is closed.
ReturnClosed(c) ==
  /\ call[c].kind \notin Streamed
  /\ chan[c].buf = <<>>
  /\ chan[c].closedBy # "nobody"
  /\ Return(c, "ok", 0, {})

\* The context ends, or the 15 s of a quote, for which one price is enough.
GiveUp(c) ==
  Return(c, IF call[c].kind = "quote" /\ call[c].got > 0 THEN "ok" ELSE "error", 0, {})

CallerNext(c) ==
  \/ \E k \in KindsOf[c] : Ask(c, k) \/ AskTwice(c, k)
  \/ Receive(c) \/ ReturnAnswer(c) \/ ReturnError(c) \/ ReturnClosed(c) \/ GiveUp(c)

-----------------------------------------------------------------------------
(* The sessions under the requests *)

\* A read loop hands on the next frame of the answer to r: to the dispatcher,
\* then to the data service.
ItemArrives(r) ==
  /\ r.left > 0
  /\ owed' = (owed \ {r}) \union {[r EXCEPT !.left = @ - 1]}
  /\ IF r.kind = "bars" THEN KeepBar(r.id) /\ UNCHANGED pending
     ELSE IF r.kind = "quote" THEN HandOn(r.id, "item", r.to) /\ UNCHANGED pending
     ELSE Dispatch(r.id, [what |-> "item", to |-> r.to, n |-> 1])

EndArrives(r) ==
  /\ r.left = 0
  /\ r.kind # "quote"
  /\ owed' = owed \ {r}
  /\ IF r.kind = "bars" THEN HandOn(r.id, "bars", r.to) /\ UNCHANGED pending
     ELSE Complete(generation, r.id, "end") /\ UNCHANGED streams

\* Errors of the id 0 are not dispatched.
ErrorArrives(r) ==
  /\ owed' = owed \ {r}
  /\ IF r.kind \in Streamed THEN HandOn(r.id, "error", r.to) /\ UNCHANGED pending
     ELSE IF r.id = 0 THEN UNCHANGED <<pending, streams, chan>>
     ELSE Dispatch(r.id, [what |-> "error", to |-> r.to, n |-> 0])

FrameArrives(s) ==
  /\ loop[s].at = "reading"
  /\ loop[s].src \in alive
  /\ \E r \in owed : r.sock = loop[s].src /\ (ItemArrives(r) \/ EndArrives(r) \/ ErrorArrives(r))
  /\ UNCHANGED <<nextId, call>>
  /\ UNCHANGED sessionVars

\* The data service's OnDisconnect closes every stream.
OnDisconnect(f) ==
  /\ CleanUp(f)
  /\ CloseStreams(streams, "drain")
  /\ UNCHANGED <<nextId, pending, call, owed>>

DrainAll(f) ==
  /\ Drain(f)
  /\ CloseAll({e \in pending : e.gen = generation}, "drain")
  /\ UNCHANGED <<nextId, streams, call, owed>>

ResetIds(f) ==
  /\ generation < MaxReplaced
  /\ Reset(f)
  /\ nextId' = 0
  /\ UNCHANGED <<pending, streams, chan, call, owed>>

SeedIds(f) ==
  /\ Initialise(f)
  /\ nextId' = FirstId
  /\ UNCHANGED <<pending, streams, chan, call, owed>>

\* The last connection holds, which bounds the model.
Lose(s) ==
  /\ s <= MaxReplaced
  /\ Drop(s)
  /\ owed' = {r \in owed : r.sock # s}
  /\ UNCHANGED <<nextId, pending, streams, chan, call>>

\* What has no effect on a request.
Silent ==
  /\ \/ \E s \in Sockets : LoopExits(s)
     \/ \E f \in Flows : Halt(f) \/ Open(f) \/ Connect(f) \/ ConnectFails(f) \/ Resume(f)
  /\ UNCHANGED requestVars

RequestNext ==
  \/ (\E c \in Callers : CallerNext(c)) /\ UNCHANGED sessionVars
  \/ \E s \in Sockets : FrameArrives(s) \/ Lose(s)
  \/ \E f \in Flows : OnDisconnect(f) \/ DrainAll(f) \/ ResetIds(f) \/ SeedIds(f)
  \/ Silent

RequestSpec == SessionInit /\ RequestInit /\ [][RequestNext]_<<sessionVars, requestVars>>

-----------------------------------------------------------------------------
(* Properties *)

\* The requests of c and d may have one id on one connection: both list the
\* open orders, under the fixed id 0, or the id of one of them was taken before
\* the counter was seeded.
MayShareId(c, d) ==
  \/ call[c].kind = "orders" /\ call[d].kind = "orders"
  \/ call[c].early
  \/ call[d].early

\* Until the manual endpoint replaces a session a caller receives the answer to
\* another's request only if the two may share an id: a lost session, a
\* timeout, or an id that a later session hands out again is not enough.
OwnAnswers ==
  ~Replaced => \A c \in Callers : \A d \in call[c].from \ {c} : MayShareId(c, d)

\* A request that an end marker of the gateway ended has all of its answer but
\* what a full channel dropped, ListOrders too; unless it was made while the
\* gateway still owed an answer to a request with which it may share an id.
EndMeansWhole ==
  ~Replaced => \A c \in Callers :
    call[c].result = "ok" /\ call[c].by = "end" /\ call[c].short =>
      \E d \in call[c].crossed : MayShareId(c, d)

\* "Callers blocked on a channel receive will get a closed-channel signal and
\* should return an error" (DrainAll).
DrainedRequestFails ==
  \A c \in Callers : (call[c].kind \notin Streamed /\ call[c].result = "ok") => call[c].by # "drain"

=============================================================================
