------------------------- MODULE TWSRequestsProofs -------------------------
(***************************************************************************)
(* Proofs about TWSRequests: its types, whose answers a caller receives,   *)
(* and when an answer that was ended is whole, for any number of callers,  *)
(* answers and replaced connections and every first id of the gateway.     *)
(***************************************************************************)
EXTENDS TWSRequests, TWSClientProofs

Message == [what : {"item", "error", "bars"}, to : Callers, n : Nat]
Channel == [buf : Seq(Message), closedBy : {"nobody", "end", "drain", "other"}, dropped : Nat]
Call ==
  [at : {"idle", "waiting", "done"}, kind : Kinds \union {"none"}, id : Nat, gen : 0..MaxGeneration,
   size : 0..MaxAnswers, got : Nat, from : SUBSET Callers, crossed : SUBSET Callers, early : BOOLEAN,
   result : {"none", "ok", "error", "panic"}, by : {"nobody", "end", "drain", "other"}, short : BOOLEAN]
Registration == [gen : 0..MaxGeneration, id : Nat, caller : Callers]
OneStream == [id : Nat, caller : Callers, bars : Nat]
Debt == [sock : Nat, id : Nat, kind : Kinds, to : Callers, left : 0..MaxAnswers]

RequestTypes ==
  /\ nextId \in Nat
  /\ pending \subseteq Registration
  /\ streams \subseteq OneStream
  /\ owed \subseteq Debt
  /\ chan \in [Callers -> Channel]
  /\ call \in [Callers -> Call]

Waits(c) == call[c].at = "waiting"

\* Nothing has happened to a caller that has not asked.
IdleIsFresh ==
  \A c \in Callers : call[c].at = "idle" =>
    /\ chan[c] = NoChannel
    /\ call[c].kind = "none" /\ call[c].got = 0 /\ call[c].result = "none"
    /\ call[c].from = {} /\ call[c].crossed = {}

\* A registration is that of the request its caller waits for, or was left
\* behind in the dispatcher of an older generation.
PendingIsAsked ==
  \A e \in pending :
    \/ /\ Waits(e.caller) /\ call[e.caller].kind \notin Streamed
       /\ call[e.caller].id = e.id /\ call[e.caller].gen = e.gen /\ e.gen <= generation
    \/ call[e.caller].at = "done" /\ e.gen < generation

\* A stream is that of a quote or a history its caller waits for.
StreamIsAsked ==
  \A e \in streams :
    Waits(e.caller) /\ call[e.caller].kind \in Streamed /\ call[e.caller].id = e.id

\* The gateway owes a caller the answer it has asked for, once, in a connection
\* that was opened.
OwedIsAsked ==
  \A r \in owed :
    /\ r.sock \in Sockets
    /\ call[r.to].at # "idle"
    /\ call[r.to].kind = r.kind
    /\ Waits(r.to) => call[r.to].id = r.id
    /\ \A q \in owed : q.to = r.to => q = r

\* What the gateway still answers on the client's connection.
Due == {r \in owed : conn \in alive /\ r.sock = conn}

\* The counter is seeded before a connection is used for anything else, and is
\* past the seeded ids that are answered on the connection.
IdsAreFresh ==
  /\ (conn \in alive /\ flow["auto"].at # "opened") => nextId >= FirstId
  /\ \A r \in Due :
       IF r.kind = "orders" THEN r.id = 0
       ELSE ~call[r.to].early => FirstId <= r.id /\ r.id < nextId /\ flow["auto"].at # "opened"

\* What is for d may come to c: it is c, or crossed c's request.
Hears(c, d) == d = c \/ d \in call[c].crossed

\* An answer finds the caller it is for, or one whose request it crossed.
OneAddressee ==
  \A r \in Due :
    IF r.kind \in Streamed THEN \A e \in Stream(r.id) : Hears(e.caller, r.to)
    ELSE \A e \in At(generation, r.id) : Hears(e.caller, r.to)

\* Nothing else is in a caller's channel.
ChannelIsOwn ==
  \A c \in Callers : Waits(c) => \A i \in 1..Len(chan[c].buf) : Hears(c, chan[c].buf[i].to)

\* What a caller has received is its own or crossed its request, which can only
\* be if the two may share an id; an answer that was ended without all of its
\* items was crossed too.
SharesAreKnown ==
  \A c \in Callers :
    /\ \A d \in call[c].from : Hears(c, d)
    /\ \A d \in call[c].crossed : call[d].at # "idle" /\ MayShareId(c, d)
    /\ (call[c].result = "ok" /\ call[c].by = "end" /\ call[c].short) => call[c].crossed # {}

\* What has come of an answer.
Come(c) == call[c].got + Len(chan[c].buf) + chan[c].dropped

\* A caller's registration goes when its channel is closed.
ClosedIsGone ==
  \A c \in Callers : Waits(c) /\ chan[c].closedBy # "nobody" /\ call[c].kind \notin Streamed =>
    \A e \in At(generation, call[c].id) : e.caller # c

\* The items of an answer that crossed no other are counted, until the end
\* marker says so.
AnswerIsCounted ==
  /\ \A r \in Due : \A e \in At(generation, r.id) :
       r.kind \notin Streamed /\ call[e.caller].crossed = {} => Come(r.to) + r.left = call[r.to].size
  /\ \A c \in Callers : Waits(c) /\ chan[c].closedBy = "end" =>
       /\ call[c].kind \notin Streamed
       /\ call[c].crossed = {} => Come(c) = call[c].size

\* What ReturnAnswer takes for the end of an answer reaches streams only.
StreamsHaveBars ==
  \A c \in Callers : Waits(c) /\ call[c].kind \notin Streamed =>
    \A i \in 1..Len(chan[c].buf) : chan[c].buf[i].what # "bars"

Asking == IdleIsFresh /\ PendingIsAsked /\ StreamIsAsked /\ OwedIsAsked /\ ClosedIsGone /\ StreamsHaveBars

Answering ==
  ~Replaced => IdsAreFresh /\ OneAddressee /\ ChannelIsOwn /\ AnswerIsCounted /\ SharesAreKnown

RequestInv == SessionInv /\ RequestTypes /\ Asking /\ Answering

-----------------------------------------------------------------------------
\* What the types say of one caller.
LEMMA CallerFacts ==
  ASSUME RequestTypes, NEW c \in Callers
  PROVE  /\ call[c] \in Call /\ chan[c] \in Channel
         /\ chan[c].buf \in Seq(Message) /\ Len(chan[c].buf) \in Nat
         /\ call[c].id \in Nat /\ call[c].got \in Nat /\ call[c].size \in Nat /\ chan[c].dropped \in Nat
         /\ FirstId \in Nat \ {0}
<1>1. call[c] \in Call /\ chan[c] \in Channel
  BY DEF RequestTypes
<1> QED BY <1>1, RequestAssumption DEF Call, Channel

\* A message is the last in the channel, or is dropped.
LEMMA DeliverFacts ==
  ASSUME RequestTypes, NEW c \in Callers, NEW m \in Message
  PROVE  /\ Deliver(c, m) \in Channel
         /\ Deliver(c, m).closedBy = chan[c].closedBy
         /\ Len(Deliver(c, m).buf) + Deliver(c, m).dropped = Len(chan[c].buf) + chan[c].dropped + 1
         /\ \A i \in 1..Len(Deliver(c, m).buf) :
              Deliver(c, m).buf[i] = m \/ (i \in 1..Len(chan[c].buf) /\ Deliver(c, m).buf[i] = chan[c].buf[i])
<1>1. chan[c] \in Channel /\ chan[c].buf \in Seq(Message) /\ Len(chan[c].buf) \in Nat /\ chan[c].dropped \in Nat
  BY CallerFacts
<1>2. CASE Len(chan[c].buf) < Capacity
  <2> DEFINE b == Append(chan[c].buf, m)
  <2>1. /\ b \in Seq(Message) /\ Len(b) = Len(chan[c].buf) + 1
        /\ \A i \in 1..Len(b) : b[i] = m \/ (i \in 1..Len(chan[c].buf) /\ b[i] = chan[c].buf[i])
    BY <1>1
  <2>2. Deliver(c, m) = [chan[c] EXCEPT !.buf = b]
    BY <1>2 DEF Deliver
  <2> HIDE DEF b
  <2>3. /\ Deliver(c, m).buf = b /\ Deliver(c, m).closedBy = chan[c].closedBy
        /\ Deliver(c, m).dropped = chan[c].dropped /\ Deliver(c, m) \in Channel
    BY <1>1, <2>1, <2>2 DEF Channel
  <2>4. Len(Deliver(c, m).buf) = Len(chan[c].buf) + 1 /\ Deliver(c, m).dropped = chan[c].dropped
    BY <2>1, <2>3
  <2>5. \A i \in 1..Len(Deliver(c, m).buf) :
          Deliver(c, m).buf[i] = m \/ (i \in 1..Len(chan[c].buf) /\ Deliver(c, m).buf[i] = chan[c].buf[i])
    BY <2>1, <2>3
  <2> QED BY <1>1, <2>3, <2>4, <2>5
<1>3. CASE ~(Len(chan[c].buf) < Capacity)
  <2>1. Deliver(c, m) = [chan[c] EXCEPT !.dropped = @ + 1]
    BY <1>3 DEF Deliver
  <2>2. /\ Deliver(c, m).buf = chan[c].buf /\ Deliver(c, m).closedBy = chan[c].closedBy
        /\ Deliver(c, m).dropped = chan[c].dropped + 1 /\ Deliver(c, m) \in Channel
    BY <1>1, <2>1 DEF Channel
  <2> QED BY <1>1, <2>2
<1> QED BY <1>2, <1>3

LEMMA ComeIsNat ==
  ASSUME RequestTypes, NEW c \in Callers
  PROVE  Come(c) \in Nat
<1> DEFINE got == call[c].got  held == Len(chan[c].buf)  lost == chan[c].dropped
<1>1. held \in Nat /\ lost \in Nat /\ got \in Nat
  BY CallerFacts
<1>2. Come(c) = got + held + lost
  BY DEF Come
<1> HIDE DEF got, held, lost
<1> QED BY <1>1, <1>2

-----------------------------------------------------------------------------
(* Steps that hand no answer to anybody *)

\* A session that is replaced stays so.
Quieter == ~Replaced' => ~Replaced

\* Caller c is where it was; its channel may have been closed, by nobody's end
\* marker, with its registration.
Same(c) ==
  /\ call'[c] = call[c]
  /\ chan'[c].buf = chan[c].buf /\ chan'[c].dropped = chan[c].dropped
  /\ \/ chan'[c] = chan[c]
     \/ /\ call[c].at # "idle" /\ chan'[c].closedBy # "end"
        /\ Waits(c) => \A e \in pending' : e.caller # c

\* Caller c has its result, and leaves nothing in the current dispatcher.
Returned(c) ==
  /\ call'[c].at = "done" /\ call'[c].crossed = call[c].crossed
  /\ call[c].at # "idle" => call'[c].kind = call[c].kind /\ call'[c].early = call[c].early
  /\ ~Replaced' =>
       /\ \A d \in call'[c].from : d = c \/ d \in call[c].crossed
       /\ (call'[c].result = "ok" /\ call'[c].by = "end" /\ call'[c].short) => call[c].crossed # {}
  /\ \A e \in pending' : e.caller = c => e.gen < generation'
  /\ \A e \in streams' : e.caller # c

\* Requests return, registrations and debts go, connections come and go.
LEMMA Elsewhere ==
  ASSUME RequestInv, RequestTypes', Quieter,
         \A c \in Callers : Same(c) \/ Returned(c),
         pending' \subseteq pending, streams' \subseteq streams, owed' \subseteq owed,
         generation \in Nat, generation' \in Nat, generation <= generation', Sockets \subseteq Sockets',
         Due' \subseteq Due, Due' # {} => generation' = generation,
         ~Replaced' => IdsAreFresh'
  PROVE  Asking' /\ Answering'
<1> USE DEF RequestInv, Asking
<1>1. /\ \A e \in pending : e \in Registration
      /\ \A e \in streams : e.caller \in Callers
      /\ \A r \in owed : r.to \in Callers
  BY DEF RequestTypes, Registration, OneStream, Debt
<1>2. IdleIsFresh'
  BY DEF IdleIsFresh, Same, Returned
<1>3. PendingIsAsked'
  <2> SUFFICES ASSUME NEW e \in pending'
               PROVE  \/ /\ Waits(e.caller)' /\ call'[e.caller].kind \notin Streamed
                         /\ call'[e.caller].id = e.id /\ call'[e.caller].gen = e.gen /\ e.gen <= generation'
                      \/ call'[e.caller].at = "done" /\ e.gen < generation'
    BY DEF PendingIsAsked
  <2>1. e \in pending /\ e.caller \in Callers /\ e.gen \in Nat
    BY <1>1, ClientAssumption DEF Registration
  <2>2. CASE Returned(e.caller)
    BY <2>1, <2>2 DEF Returned
  <2>3. CASE Same(e.caller)
    BY <2>1, <2>3 DEF Same, PendingIsAsked, Waits
  <2> QED BY <2>1, <2>2, <2>3
<1>4. StreamIsAsked'
  BY <1>1 DEF StreamIsAsked, Same, Returned, Waits
<1>5. OwedIsAsked'
  BY <1>1 DEF OwedIsAsked, Same, Returned, Waits
<1>6. ClosedIsGone'
  <2> SUFFICES ASSUME NEW c \in Callers, Waits(c)', chan'[c].closedBy # "nobody",
                      call'[c].kind \notin Streamed,
                      NEW e \in pending', e.gen = generation', e.id = call'[c].id, e.caller = c
               PROVE  FALSE
    BY DEF ClosedIsGone, At
  <2>1. Same(c)
    BY DEF Returned, Waits
  <2>2. Waits(c) /\ chan[c].closedBy # "nobody" /\ call[c].kind \notin Streamed /\ e.id = call[c].id
    BY <2>1 DEF Same, Waits
  <2>3. e \in pending /\ e.gen <= generation /\ e.gen \in Nat
    BY <1>1, <2>2, ClientAssumption DEF PendingIsAsked, Waits, Registration
  <2>4. e.gen = generation
    BY <2>3
  <2> QED BY <2>2, <2>3, <2>4 DEF ClosedIsGone, At
<1>7. StreamsHaveBars'
  BY DEF StreamsHaveBars, Same, Returned, Waits
<1>8. Answering'
  <2> SUFFICES ASSUME ~Replaced'
               PROVE  /\ OneAddressee' /\ ChannelIsOwn' /\ AnswerIsCounted' /\ SharesAreKnown'
    BY DEF Answering
  <2>1. /\ ~Replaced
        /\ OneAddressee /\ ChannelIsOwn /\ AnswerIsCounted /\ SharesAreKnown
    BY DEF Quieter, Answering
  <2>2. OneAddressee'
    <3>1. \A c \in Callers : call'[c].crossed = call[c].crossed
      BY DEF Same, Returned
    <3> QED BY <1>1, <2>1, <3>1 DEF OneAddressee, Hears, At, Stream, Registration
  <2>3. ChannelIsOwn'
    BY <2>1 DEF ChannelIsOwn, Hears, Same, Returned, Waits
  <2>4. ASSUME NEW r \in Due', NEW e \in At(generation, r.id)', r.kind \notin Streamed,
               call'[e.caller].crossed = {}
        PROVE  Come(r.to)' + r.left = call'[r.to].size
    <3>1. r \in Due /\ generation' = generation /\ e \in At(generation, r.id) /\ e \in pending'
      BY <2>4 DEF At
    <3>2. e.caller \in Callers /\ e.gen = generation' /\ Hears(e.caller, r.to)
      BY <1>1, <2>1, <2>4, <3>1 DEF OneAddressee, At, Registration
    <3>3. Same(e.caller) /\ call[e.caller].crossed = {}
      BY <2>4, <3>1, <3>2 DEF Same, Returned
    <3>4. Come(r.to) + r.left = call[r.to].size /\ e.caller = r.to
      BY <2>1, <2>4, <3>1, <3>2, <3>3 DEF AnswerIsCounted, Hears
    <3> QED BY <3>3, <3>4 DEF Same, Come
  <2>5. ASSUME NEW c \in Callers, Waits(c)', chan'[c].closedBy = "end"
        PROVE  /\ call'[c].kind \notin Streamed
               /\ call'[c].crossed = {} => Come(c)' = call'[c].size
    <3>1. Same(c) /\ chan'[c] = chan[c]
      BY <2>5 DEF Same, Returned, Waits
    <3> QED BY <2>1, <2>5, <3>1 DEF Same, AnswerIsCounted, Come, Waits
  <2>6. SharesAreKnown'
    <3>1. ASSUME NEW c \in Callers, NEW d \in call'[c].crossed
          PROVE  call'[d].at # "idle" /\ MayShareId(c, d)'
      <4>1. d \in call[c].crossed /\ d \in Callers /\ call[c].at # "idle"
        BY <3>1 DEF Same, Returned, RequestTypes, Call, IdleIsFresh
      <4>2. call[d].at # "idle" /\ MayShareId(c, d)
        BY <2>1, <4>1 DEF SharesAreKnown
      <4> QED BY <4>1, <4>2 DEF Same, Returned, MayShareId
    <3>2. ASSUME NEW c \in Callers
          PROVE  /\ \A d \in call'[c].from : Hears(c, d)'
                 /\ (call'[c].result = "ok" /\ call'[c].by = "end" /\ call'[c].short) => call'[c].crossed # {}
      BY <2>1 DEF SharesAreKnown, Hears, Same, Returned
    <3> QED BY <3>1, <3>2 DEF SharesAreKnown
  <2> QED BY <2>2, <2>3, <2>4, <2>5, <2>6 DEF AnswerIsCounted
<1> QED BY <1>2, <1>3, <1>4, <1>5, <1>6, <1>7, <1>8

-----------------------------------------------------------------------------
(* Steps that hand on a message *)

\* Who is registered, or has a stream, for the id of an answer.
Receivers(r) ==
  {c \in Callers : \E e \in (IF r.kind \in Streamed THEN Stream(r.id) ELSE At(generation, r.id)) : e.caller = c}

\* Caller c has such a message at the end of its channel, unless that is full.
Added(c, what, to) ==
  /\ chan'[c].closedBy = chan[c].closedBy
  /\ Len(chan'[c].buf) + chan'[c].dropped = Len(chan[c].buf) + chan[c].dropped + 1
  /\ \A i \in 1..Len(chan'[c].buf) :
       \/ chan'[c].buf[i].what = what /\ chan'[c].buf[i].to = to
       \/ i \in 1..Len(chan[c].buf) /\ chan'[c].buf[i] = chan[c].buf[i]

\* With the message one more has come of the answer.
LEMMA OneMore ==
  ASSUME RequestTypes, RequestTypes', call' = call, NEW c \in Callers,
         NEW what, NEW to, Added(c, what, to)
  PROVE  /\ Come(c) \in Nat /\ Come(c)' = Come(c) + 1
         /\ call'[c].size = call[c].size
<1> DEFINE got == call[c].got  held == Len(chan[c].buf)  lost == chan[c].dropped
           heldThen == Len(chan'[c].buf)  lostThen == chan'[c].dropped
<1>1. held \in Nat /\ lost \in Nat /\ got \in Nat
  BY CallerFacts
<1>2. heldThen \in Nat /\ lostThen \in Nat
  <2>1. chan'[c].buf \in Seq(Message) /\ chan'[c].dropped \in Nat
    BY DEF RequestTypes, Channel
  <2> QED BY <2>1
<1>3. heldThen + lostThen = held + lost + 1
  BY DEF Added
<1>4. Come(c) = got + held + lost /\ Come(c)' = got + heldThen + lostThen
  BY DEF Come
<1> HIDE DEF got, held, lost, heldThen, lostThen
<1>5. got + held + lost \in Nat /\ got + heldThen + lostThen = got + held + lost + 1
  BY <1>1, <1>2, <1>3
<1> QED BY <1>4, <1>5

\* A receiver waits for an answer with this id and of this kind.
LEMMA ReceiverFacts ==
  ASSUME RequestInv, NEW r \in owed, NEW c \in Receivers(r)
  PROVE  /\ c \in Callers /\ Waits(c) /\ call[c].id = r.id
         /\ call[c].kind \in Streamed <=> r.kind \in Streamed
         /\ r.kind \notin Streamed => chan[c].closedBy = "nobody"
         /\ ~Replaced /\ r \in Due => Hears(c, r.to)
<1> USE DEF RequestInv, Asking
<1>1. CASE r.kind \in Streamed
  <2>1. PICK e \in Stream(r.id) : e.caller = c
    BY <1>1 DEF Receivers
  <2>2. e \in streams /\ e.id = r.id /\ e.caller = c
    BY <2>1 DEF Stream
  <2>3. c \in Callers /\ Waits(c) /\ call[c].id = r.id /\ call[c].kind \in Streamed
    BY <2>2 DEF StreamIsAsked, Receivers
  <2>4. ~Replaced /\ r \in Due => Hears(c, r.to)
    BY <1>1, <2>1 DEF Answering, OneAddressee
  <2> QED BY <1>1, <2>3, <2>4
<1>2. CASE r.kind \notin Streamed
  <2>1. PICK e \in At(generation, r.id) : e.caller = c
    BY <1>2 DEF Receivers
  <2>2. e \in pending /\ e.id = r.id /\ e.caller = c /\ e.gen = generation
    BY <2>1 DEF At
  <2>3. generation \in Nat
    BY ClientAssumption DEF SessionInv, SessionTypeOK
  <2>4. c \in Callers /\ Waits(c) /\ call[c].id = r.id /\ call[c].kind \notin Streamed
    BY <2>2, <2>3 DEF PendingIsAsked, Receivers
  <2>5. chan[c].closedBy = "nobody"
    BY <2>1, <2>4 DEF ClosedIsGone
  <2>6. ~Replaced /\ r \in Due => Hears(c, r.to)
    BY <1>2, <2>1 DEF Answering, OneAddressee
  <2> QED BY <1>2, <2>4, <2>5, <2>6
<1> QED BY <1>1, <1>2

\* A message of the answer r comes to the receivers G, and less is left of it,
\* or nothing.
Reaches(r, G, what, less) ==
  /\ G \subseteq Receivers(r)
  /\ what = "bars" => r.kind \in Streamed
  /\ \A c \in Callers \ G : chan'[c] = chan[c]
  /\ \A c \in G : Added(c, what, r.to)
  /\ \A e \in streams' : \E d \in streams : d.id = e.id /\ d.caller = e.caller
  /\ less.left = r.left - 1 /\ less.sock = r.sock /\ less.id = r.id /\ less.kind = r.kind /\ less.to = r.to
  /\ owed' \subseteq (owed \ {r}) \union {less}
  /\ (less \in owed' /\ r.kind \notin Streamed) => G = Receivers(r)

LEMMA Gets ==
  ASSUME RequestInv, RequestTypes', UNCHANGED <<nextId, call, pending>>, UNCHANGED sessionVars,
         NEW r \in owed, ~Replaced => r \in Due,
         NEW G, NEW what, NEW less, Reaches(r, G, what, less)
  PROVE  Asking' /\ Answering'
<1> USE DEF RequestInv, Asking, Reaches
<1>1. /\ \A c \in G : /\ c \in Callers /\ Waits(c) /\ call[c].id = r.id
                      /\ call[c].kind \in Streamed <=> r.kind \in Streamed
                      /\ r.kind \notin Streamed => chan[c].closedBy = "nobody"
                      /\ ~Replaced => Hears(c, r.to)
      /\ \A q \in owed : q \in Debt
      /\ generation' = generation /\ conn' = conn /\ alive' = alive /\ Replaced' = Replaced
      /\ flow' = flow /\ Sockets' = Sockets
  BY ReceiverFacts DEF Replaced, RequestTypes, sessionVars, Sockets
<1>2. IdleIsFresh'
  BY <1>1 DEF IdleIsFresh, Waits
<1>3. PendingIsAsked' /\ StreamIsAsked'
  BY <1>1 DEF PendingIsAsked, StreamIsAsked, Waits
<1>4. OwedIsAsked'
  BY <1>1 DEF OwedIsAsked, Waits
<1>5. ClosedIsGone'
  BY <1>1 DEF ClosedIsGone, Added, Waits, At
<1>6. StreamsHaveBars'
  BY <1>1 DEF StreamsHaveBars, Added, Waits
<1>7. Answering'
  <2> SUFFICES ASSUME ~Replaced
               PROVE  IdsAreFresh' /\ OneAddressee' /\ ChannelIsOwn' /\ AnswerIsCounted' /\ SharesAreKnown'
    BY <1>1 DEF Answering
  <2>1. /\ IdsAreFresh /\ OneAddressee /\ ChannelIsOwn /\ AnswerIsCounted /\ SharesAreKnown
        /\ r \in Due
    BY DEF Answering
  <2>2. \A q \in Due' : q \in Due \/ q = less
    BY <1>1 DEF Due
  <2>3. IdsAreFresh'
    BY <1>1, <2>1, <2>2 DEF IdsAreFresh
  <2>4. OneAddressee'
    <3> SUFFICES ASSUME NEW q \in Due'
                 PROVE  IF q.kind \in Streamed THEN \A e \in Stream(q.id)' : Hears(e.caller, q.to)
                        ELSE \A e \in At(generation, q.id)' : Hears(e.caller, q.to)
      BY DEF OneAddressee, Hears
    <3>1. PICK d \in Due : d.id = q.id /\ d.kind = q.kind /\ d.to = q.to
      BY <2>1, <2>2
    <3>2. IF q.kind \in Streamed THEN \A e \in Stream(q.id) : Hears(e.caller, q.to)
          ELSE \A e \in At(generation, q.id) : Hears(e.caller, q.to)
      BY <2>1, <3>1 DEF OneAddressee
    <3> QED BY <1>1, <3>2 DEF Stream, At
  <2>5. ChannelIsOwn'
    <3> SUFFICES ASSUME NEW c \in Callers, Waits(c), NEW i \in 1..Len(chan'[c].buf)
                 PROVE  Hears(c, chan'[c].buf[i].to)
      BY DEF ChannelIsOwn, Hears, Waits
    <3>1. CASE c \in G
      BY <1>1, <2>1, <3>1 DEF ChannelIsOwn, Added
    <3>2. CASE c \notin G
      BY <2>1, <3>2 DEF ChannelIsOwn
    <3> QED BY <3>1, <3>2
  <2>6. ASSUME NEW q \in Due', NEW e \in At(generation, q.id)', q.kind \notin Streamed,
               call[e.caller].crossed = {}
        PROVE  Come(q.to)' + q.left = call'[q.to].size
    <3>1. e \in At(generation, q.id) /\ e \in pending /\ e.id = q.id
      BY <1>1, <2>6 DEF At
    <3>2. CASE q = less
      <4>1. Come(r.to) + r.left = call[r.to].size /\ e.caller = r.to /\ r.to \in Callers
        BY <1>1, <2>1, <2>6, <3>1, <3>2 DEF AnswerIsCounted, OneAddressee, Hears, Debt
      <4>2. r.to \in G
        BY <2>6, <3>1, <3>2, <4>1 DEF Receivers, Due
      <4>3. Added(r.to, what, r.to) /\ r.left \in Nat
        BY <1>1, <4>2, RequestAssumption DEF Debt
      <4>4. Come(r.to) \in Nat /\ Come(r.to)' = Come(r.to) + 1 /\ call'[r.to].size = call[r.to].size
        BY <4>1, <4>3, OneMore
      <4>5. q.to = r.to /\ q.left = r.left - 1
        BY <3>2
      <4> HIDE DEF Come
      <4>6. Come(r.to)' + q.left = call'[r.to].size
        BY <4>1, <4>3, <4>4, <4>5
      <4> QED BY <4>5, <4>6
    <3>3. CASE q # less
      <4>1. q \in Due /\ q \in owed /\ q # r
        BY <2>2, <3>3 DEF Due
      <4>2. Come(q.to) + q.left = call[q.to].size /\ e.caller = q.to /\ q.to \in Callers /\ q.to # r.to
        BY <1>1, <2>1, <2>6, <3>1, <4>1 DEF AnswerIsCounted, OneAddressee, Hears, OwedIsAsked, Debt
      <4>3. q.to \notin G
        BY <1>1, <2>6, <4>2 DEF Hears
      <4> QED BY <4>2, <4>3 DEF Come
    <3> QED BY <3>2, <3>3
  <2>7. ASSUME NEW c \in Callers, Waits(c)', chan'[c].closedBy = "end"
        PROVE  /\ call'[c].kind \notin Streamed
               /\ call'[c].crossed = {} => Come(c)' = call'[c].size
    <3>1. chan[c].closedBy = "end" /\ Waits(c)
      BY <2>7 DEF Added, Waits
    <3>2. call[c].kind \notin Streamed
      BY <2>1, <3>1 DEF AnswerIsCounted
    <3>3. c \notin G
      BY <1>1, <3>1, <3>2
    <3> QED BY <2>1, <3>1, <3>3 DEF AnswerIsCounted, Come
  <2>8. SharesAreKnown'
    BY <2>1 DEF SharesAreKnown, Hears, MayShareId
  <2> QED BY <2>1, <2>3, <2>4, <2>5, <2>6, <2>7, <2>8 DEF AnswerIsCounted
<1> QED BY <1>2, <1>3, <1>4, <1>5, <1>6, <1>7

\* HandOn gives the message to whoever has the stream, and changes no stream but
\* for its bars.
LEMMA HandOnFacts ==
  ASSUME RequestTypes, NEW r \in owed, r.kind \in Streamed,
         NEW what \in {"item", "error", "bars"}, HandOn(r.id, what, r.to)
  PROVE  /\ chan' \in [Callers -> Channel] /\ streams' \subseteq OneStream
         /\ \A c \in Callers \ Receivers(r) : chan'[c] = chan[c]
         /\ \A c \in Receivers(r) : Added(c, what, r.to)
         /\ \A e \in streams' : \E d \in streams : d.id = e.id /\ d.caller = e.caller
<1> DEFINE Mine(c) == {e \in Stream(r.id) : e.caller = c}
           N(c) == IF what = "bars" THEN (CHOOSE e \in Mine(c) : TRUE).bars
                   ELSE IF what = "item" THEN 1 ELSE 0
           M(c) == [what |-> what, to |-> r.to, n |-> N(c)]
<1>1. /\ \A c \in Callers : c \in Receivers(r) <=> Mine(c) # {}
      /\ r.to \in Callers
  BY DEF Receivers, RequestTypes, Debt
<1>2. ASSUME NEW c \in Callers, Mine(c) # {}
      PROVE  M(c) \in Message
  <2>1. (CHOOSE e \in Mine(c) : TRUE) \in Mine(c)
    BY <1>2
  <2> HIDE DEF Mine
  <2>2. (CHOOSE e \in Mine(c) : TRUE) \in streams
    BY <2>1 DEF Mine, Stream
  <2>3. (CHOOSE e \in Mine(c) : TRUE).bars \in Nat
    BY <2>2 DEF RequestTypes, OneStream
  <2> QED BY <1>1, <2>3 DEF Message
<1>3. \A c \in Callers :
        chan'[c] = IF Mine(c) = {} THEN chan[c] ELSE [chan[c] EXCEPT !.buf = Append(@, M(c))]
  BY DEF HandOn
<1>4. \A c \in Callers \ Receivers(r) : chan'[c] = chan[c]
  BY <1>1, <1>3
<1>5. ASSUME NEW c \in Receivers(r)
      PROVE  chan'[c] \in Channel /\ Added(c, what, r.to)
  <2> DEFINE m == M(c)  b == Append(chan[c].buf, m)
  <2>1. c \in Callers /\ Mine(c) # {} /\ m \in Message /\ m.what = what /\ m.to = r.to
    BY <1>1, <1>2, <1>5 DEF Receivers
  <2>2. chan[c] \in Channel /\ chan[c].buf \in Seq(Message) /\ Len(chan[c].buf) \in Nat /\ chan[c].dropped \in Nat
    BY <2>1, CallerFacts
  <2>3. chan'[c] = [chan[c] EXCEPT !.buf = b]
    BY <1>3, <2>1
  <2> HIDE DEF m
  <2>4. /\ b \in Seq(Message) /\ Len(b) = Len(chan[c].buf) + 1
        /\ \A i \in 1..Len(b) : b[i] = m \/ (i \in 1..Len(chan[c].buf) /\ b[i] = chan[c].buf[i])
    BY <2>1, <2>2
  <2> HIDE DEF b
  <2>5. /\ chan'[c].buf = b /\ chan'[c].closedBy = chan[c].closedBy
        /\ chan'[c].dropped = chan[c].dropped /\ chan'[c] \in Channel
    BY <2>2, <2>3, <2>4 DEF Channel
  <2>6. Len(chan'[c].buf) + chan'[c].dropped = Len(chan[c].buf) + chan[c].dropped + 1
    <3> DEFINE held == Len(chan[c].buf)  lost == chan[c].dropped
    <3>1. Len(chan'[c].buf) = held + 1 /\ chan'[c].dropped = lost /\ held \in Nat /\ lost \in Nat
      BY <2>2, <2>4, <2>5
    <3> HIDE DEF held, lost
    <3>2. Len(chan'[c].buf) + chan'[c].dropped = held + lost + 1
      BY <3>1
    <3> QED BY <3>2 DEF held, lost
  <2>7. \A i \in 1..Len(chan'[c].buf) :
          \/ chan'[c].buf[i].what = what /\ chan'[c].buf[i].to = r.to
          \/ i \in 1..Len(chan[c].buf) /\ chan'[c].buf[i] = chan[c].buf[i]
    BY <2>1, <2>4, <2>5
  <2> QED BY <2>5, <2>6, <2>7 DEF Added
<1>6. chan' \in [Callers -> Channel]
  <2>1. \A c \in Callers : chan'[c] \in Channel
    BY <1>4, <1>5 DEF RequestTypes
  <2>2. chan' = [c \in Callers |-> chan'[c]]
    BY DEF HandOn
  <2> QED BY <2>1, <2>2
<1>7. \A e \in streams : [e EXCEPT !.bars = 0] \in OneStream
  BY DEF RequestTypes, OneStream
<1>8. \A e \in streams : [e EXCEPT !.bars = 0].id = e.id /\ [e EXCEPT !.bars = 0].caller = e.caller
  BY DEF RequestTypes, OneStream
<1>9. \/ streams' = streams
      \/ streams' = {IF e.id = r.id THEN [e EXCEPT !.bars = 0] ELSE e : e \in streams}
  BY DEF HandOn
<1>10. streams' \subseteq OneStream
  BY <1>7, <1>9 DEF RequestTypes
<1>11. ASSUME NEW e \in streams'
       PROVE  \E d \in streams : d.id = e.id /\ d.caller = e.caller
  <2>1. \E d \in streams : e = d \/ e = [d EXCEPT !.bars = 0]
    BY <1>9
  <2> QED BY <1>8, <2>1
<1> QED BY <1>4, <1>5, <1>6, <1>10, <1>11

\* Dispatch gives the message to whoever is registered.
LEMMA DispatchFacts ==
  ASSUME RequestTypes, NEW r \in owed, r.kind \notin Streamed,
         NEW m \in Message, m.to = r.to, Dispatch(r.id, m)
  PROVE  /\ chan' \in [Callers -> Channel]
         /\ \A c \in Callers \ Receivers(r) : chan'[c] = chan[c]
         /\ \A c \in Receivers(r) : Added(c, m.what, r.to)
<1>1. \A c \in Callers : c \in Receivers(r) <=> (\E e \in At(generation, r.id) : e.caller = c)
  BY DEF Receivers
<1>2. \A c \in Callers : chan'[c] = IF c \in Receivers(r) THEN Deliver(c, m) ELSE chan[c]
  BY <1>1 DEF Dispatch
<1>3. ASSUME NEW c \in Receivers(r)
      PROVE  chan'[c] \in Channel /\ Added(c, m.what, r.to)
  <2>1. c \in Callers /\ chan'[c] = Deliver(c, m)
    BY <1>2, <1>3 DEF Receivers
  <2>2. /\ Deliver(c, m) \in Channel
        /\ Deliver(c, m).closedBy = chan[c].closedBy
        /\ Len(Deliver(c, m).buf) + Deliver(c, m).dropped = Len(chan[c].buf) + chan[c].dropped + 1
        /\ \A i \in 1..Len(Deliver(c, m).buf) :
             Deliver(c, m).buf[i] = m \/ (i \in 1..Len(chan[c].buf) /\ Deliver(c, m).buf[i] = chan[c].buf[i])
    BY <2>1, DeliverFacts
  <2> QED BY <2>1, <2>2 DEF Added
<1>4. chan' \in [Callers -> Channel]
  <2>1. \A c \in Callers : chan'[c] \in Channel
    BY <1>2, <1>3 DEF RequestTypes
  <2>2. chan' = [c \in Callers |-> chan'[c]]
    BY DEF Dispatch
  <2> QED BY <2>1, <2>2
<1> QED BY <1>2, <1>3, <1>4

\* Channels that are closed keep what they hold.
LEMMA CloseFacts ==
  ASSUME RequestTypes, NEW G, NEW why \in {"end", "drain", "other"},
         chan' = [c \in Callers |-> IF \E e \in G : e.caller = c THEN [chan[c] EXCEPT !.closedBy = why] ELSE chan[c]]
  PROVE  /\ chan' \in [Callers -> Channel]
         /\ \A c \in Callers :
              /\ chan'[c].buf = chan[c].buf /\ chan'[c].dropped = chan[c].dropped
              /\ (\E e \in G : e.caller = c) => chan'[c].closedBy = why
              /\ ~(\E e \in G : e.caller = c) => chan'[c] = chan[c]
<1>1. ASSUME NEW c \in Callers
      PROVE  /\ [chan[c] EXCEPT !.closedBy = why] \in Channel
             /\ [chan[c] EXCEPT !.closedBy = why].buf = chan[c].buf
             /\ [chan[c] EXCEPT !.closedBy = why].dropped = chan[c].dropped
             /\ [chan[c] EXCEPT !.closedBy = why].closedBy = why
  <2>1. chan[c] \in Channel
    BY DEF RequestTypes
  <2> QED BY <2>1 DEF Channel
<1> QED BY <1>1 DEF RequestTypes

-----------------------------------------------------------------------------
(* The frames of an answer *)

\* What is left of an answer when one item of it has gone.
LEMMA LessFacts ==
  ASSUME RequestTypes, NEW r \in owed, NEW less, less = [r EXCEPT !.left = r.left - 1]
  PROVE  /\ r \in Debt
         /\ less.left = r.left - 1 /\ less.sock = r.sock /\ less.id = r.id /\ less.kind = r.kind /\ less.to = r.to
         /\ r.left > 0 => less \in Debt
<1>1. r \in Debt /\ r.left \in 0..MaxAnswers /\ MaxAnswers \in Nat
  BY RequestAssumption DEF RequestTypes, Debt
<1>2. /\ less.left = r.left - 1 /\ less.sock = r.sock /\ less.id = r.id /\ less.kind = r.kind /\ less.to = r.to
  BY <1>1 DEF Debt
<1>3. r.left > 0 => r.left - 1 \in 0..MaxAnswers
  BY <1>1
<1>4. r.left > 0 => less \in Debt
  BY <1>1, <1>3 DEF Debt
<1> QED BY <1>1, <1>2, <1>4

\* A frame keeps the types.
LEMMA FrameTypes ==
  ASSUME RequestTypes, NEW r \in owed, ItemArrives(r) \/ EndArrives(r) \/ ErrorArrives(r),
         UNCHANGED <<nextId, call>>
  PROVE  RequestTypes'
<1>1. r \in Debt /\ nextId' \in Nat /\ call' \in [Callers -> Call]
  BY DEF RequestTypes
<1>2. owed' \subseteq Debt
  BY LessFacts DEF ItemArrives, EndArrives, ErrorArrives, RequestTypes
<1>3. CASE ItemArrives(r) /\ r.kind = "bars"
  <2>1. /\ streams' = {IF e.id = r.id THEN [e EXCEPT !.bars = @ + 1] ELSE e : e \in streams}
        /\ chan' = chan /\ pending' = pending
    BY <1>3 DEF ItemArrives, KeepBar
  <2>2. \A e \in streams : [e EXCEPT !.bars = @ + 1] \in OneStream /\ e \in OneStream
    BY DEF RequestTypes, OneStream
  <2>3. streams' \subseteq OneStream
    BY <2>1, <2>2
  <2> QED BY <1>1, <1>2, <2>1, <2>3 DEF RequestTypes
<1>4. CASE r.kind \in Streamed /\ ~(ItemArrives(r) /\ r.kind = "bars")
  <2>1. pending' = pending /\ \E what \in {"item", "error", "bars"} : HandOn(r.id, what, r.to)
    BY <1>4 DEF ItemArrives, EndArrives, ErrorArrives, Streamed
  <2>2. chan' \in [Callers -> Channel] /\ streams' \subseteq OneStream
    BY <1>4, <2>1, HandOnFacts
  <2> QED BY <1>1, <1>2, <2>1, <2>2 DEF RequestTypes
<1>5. CASE r.kind \notin Streamed /\ EndArrives(r)
  <2>1. CloseAll(At(generation, r.id), "end") /\ streams' = streams
    BY <1>5 DEF EndArrives, Complete, Streamed
  <2>2. chan' \in [Callers -> Channel] /\ pending' \subseteq pending
    BY <2>1, CloseFacts DEF CloseAll
  <2> QED BY <1>1, <1>2, <2>1, <2>2 DEF RequestTypes
<1>6. CASE r.kind \notin Streamed /\ ~EndArrives(r)
  <2>1. \/ UNCHANGED <<pending, streams, chan>>
        \/ \E m \in {[what |-> "item", to |-> r.to, n |-> 1], [what |-> "error", to |-> r.to, n |-> 0]} :
             Dispatch(r.id, m)
    BY <1>6 DEF ItemArrives, ErrorArrives, Streamed
  <2>2. /\ [what |-> "item", to |-> r.to, n |-> 1] \in Message
        /\ [what |-> "error", to |-> r.to, n |-> 0] \in Message
    BY <1>1 DEF Message, Debt
  <2>3. pending' = pending /\ streams' = streams
    BY <2>1 DEF Dispatch
  <2>4. chan' \in [Callers -> Channel]
    BY <1>6, <2>1, <2>2, DispatchFacts DEF RequestTypes
  <2> QED BY <1>1, <1>2, <2>3, <2>4 DEF RequestTypes
<1> QED BY <1>3, <1>4, <1>5, <1>6

\* The gateway owes it to nobody else.
LEMMA LessIsOwed ==
  ASSUME RequestInv, NEW r \in owed, NEW less, less = [r EXCEPT !.left = r.left - 1]
  PROVE  /\ r \in Debt
         /\ less.left = r.left - 1 /\ less.sock = r.sock /\ less.id = r.id /\ less.kind = r.kind /\ less.to = r.to
         /\ less \notin owed \ {r}
<1>1. /\ r \in Debt
      /\ less.left = r.left - 1 /\ less.sock = r.sock /\ less.id = r.id /\ less.kind = r.kind /\ less.to = r.to
  BY LessFacts DEF RequestInv
<1> QED BY <1>1 DEF RequestInv, Asking, OwedIsAsked

LEMMA ItemKeeps ==
  ASSUME RequestInv, RequestTypes', NEW r \in owed, ~Replaced => r \in Due, ItemArrives(r),
         UNCHANGED <<nextId, call>>, UNCHANGED sessionVars
  PROVE  Asking' /\ Answering'
<1> DEFINE less == [r EXCEPT !.left = r.left - 1]
<1>1. /\ r \in Debt
      /\ less.left = r.left - 1 /\ less.sock = r.sock /\ less.id = r.id /\ less.kind = r.kind /\ less.to = r.to
  BY LessIsOwed
<1>2. owed' = (owed \ {r}) \union {less} /\ r.left > 0
  BY DEF ItemArrives
<1> HIDE DEF less
<1>3. CASE r.kind = "bars"
  <2>1. /\ streams' = {IF e.id = r.id THEN [e EXCEPT !.bars = @ + 1] ELSE e : e \in streams}
        /\ chan' = chan /\ pending' = pending
    BY <1>3 DEF ItemArrives, KeepBar
  <2>2. \A e \in streams : /\ e.id = [e EXCEPT !.bars = @ + 1].id /\ e.caller = [e EXCEPT !.bars = @ + 1].caller
    BY DEF RequestInv, RequestTypes, OneStream
  <2>3. ASSUME NEW e \in streams'
        PROVE  \E d \in streams : d.id = e.id /\ d.caller = e.caller
    <3>1. \E d \in streams : e = d \/ e = [d EXCEPT !.bars = @ + 1]
      BY <2>1
    <3> QED BY <2>2, <3>1
  <2>4. r.kind \in Streamed
    BY <1>3 DEF Streamed
  <2>5. Reaches(r, {}, "item", less)
    BY <1>1, <1>2, <2>1, <2>3, <2>4 DEF Reaches
  <2> QED BY <1>1, <1>2, <2>1, <2>3, <2>4, <2>5, Gets
<1>4. CASE r.kind = "quote"
  <2>1. HandOn(r.id, "item", r.to) /\ pending' = pending
    BY <1>4 DEF ItemArrives
  <2>2. r.kind \in Streamed
    BY <1>4 DEF Streamed
  <2>3. /\ chan' \in [Callers -> Channel] /\ streams' \subseteq OneStream
        /\ \A c \in Callers \ Receivers(r) : chan'[c] = chan[c]
        /\ \A c \in Receivers(r) : Added(c, "item", r.to)
        /\ \A e \in streams' : \E d \in streams : d.id = e.id /\ d.caller = e.caller
    BY <2>1, <2>2, HandOnFacts DEF RequestInv
  <2>4. Reaches(r, Receivers(r), "item", less)
    BY <1>1, <1>2, <2>1, <2>2, <2>3 DEF Reaches
  <2> QED BY <1>1, <1>2, <2>1, <2>2, <2>3, <2>4, Gets
<1>5. CASE r.kind \notin Streamed
  <2> DEFINE m == [what |-> "item", to |-> r.to, n |-> 1]
  <2>1. Dispatch(r.id, m) /\ pending' = pending /\ streams' = streams
    BY <1>5 DEF ItemArrives, Dispatch, Streamed
  <2>2. m \in Message /\ m.to = r.to /\ m.what = "item"
    BY <1>1 DEF Message, Debt
  <2> HIDE DEF m
  <2>3. /\ chan' \in [Callers -> Channel]
        /\ \A c \in Callers \ Receivers(r) : chan'[c] = chan[c]
        /\ \A c \in Receivers(r) : Added(c, "item", r.to)
    BY <1>5, <2>1, <2>2, DispatchFacts DEF RequestInv
  <2>4. Reaches(r, Receivers(r), "item", less)
    BY <1>1, <1>2, <2>1, <2>3 DEF Reaches
  <2> QED BY <1>1, <1>2, <2>1, <2>3, <2>4, Gets
<1> QED BY <1>3, <1>4, <1>5 DEF Streamed

LEMMA ErrorKeeps ==
  ASSUME RequestInv, RequestTypes', NEW r \in owed, ~Replaced => r \in Due, ErrorArrives(r),
         UNCHANGED <<nextId, call>>, UNCHANGED sessionVars
  PROVE  Asking' /\ Answering'
<1> DEFINE less == [r EXCEPT !.left = r.left - 1]
<1>1. /\ r \in Debt
      /\ less.left = r.left - 1 /\ less.sock = r.sock /\ less.id = r.id /\ less.kind = r.kind /\ less.to = r.to
      /\ less \notin owed \ {r}
  BY LessIsOwed
<1>2. owed' = owed \ {r} /\ owed' \subseteq (owed \ {r}) \union {less} /\ less \notin owed'
  BY <1>1 DEF ErrorArrives
<1> HIDE DEF less
<1>3. CASE r.kind \in Streamed
  <2>1. HandOn(r.id, "error", r.to) /\ pending' = pending
    BY <1>3 DEF ErrorArrives
  <2>2. /\ chan' \in [Callers -> Channel] /\ streams' \subseteq OneStream
        /\ \A c \in Callers \ Receivers(r) : chan'[c] = chan[c]
        /\ \A c \in Receivers(r) : Added(c, "error", r.to)
        /\ \A e \in streams' : \E d \in streams : d.id = e.id /\ d.caller = e.caller
    BY <1>3, <2>1, HandOnFacts DEF RequestInv
  <2>3. Reaches(r, Receivers(r), "error", less)
    BY <1>1, <1>2, <1>3, <2>1, <2>2 DEF Reaches
  <2> QED BY <1>1, <1>2, <1>3, <2>1, <2>2, <2>3, Gets
<1>4. CASE r.kind \notin Streamed /\ r.id = 0
  <2>1. UNCHANGED <<pending, streams, chan>>
    BY <1>4 DEF ErrorArrives
  <2>2. Reaches(r, {}, "error", less)
    BY <1>1, <1>2, <2>1 DEF Reaches
  <2> QED BY <1>1, <1>2, <2>1, <2>2, Gets
<1>5. CASE r.kind \notin Streamed /\ r.id # 0
  <2> DEFINE m == [what |-> "error", to |-> r.to, n |-> 0]
  <2>1. Dispatch(r.id, m) /\ pending' = pending /\ streams' = streams
    BY <1>5 DEF ErrorArrives, Dispatch
  <2>2. m \in Message /\ m.to = r.to /\ m.what = "error"
    BY <1>1 DEF Message, Debt
  <2> HIDE DEF m
  <2>3. /\ chan' \in [Callers -> Channel]
        /\ \A c \in Callers \ Receivers(r) : chan'[c] = chan[c]
        /\ \A c \in Receivers(r) : Added(c, "error", r.to)
    BY <1>5, <2>1, <2>2, DispatchFacts DEF RequestInv
  <2>4. Reaches(r, Receivers(r), "error", less)
    BY <1>1, <1>2, <2>1, <2>3 DEF Reaches
  <2> QED BY <1>1, <1>2, <2>1, <2>3, <2>4, Gets
<1> QED BY <1>3, <1>4, <1>5

LEMMA EndKeeps ==
  ASSUME RequestInv, RequestTypes', NEW r \in owed, ~Replaced => r \in Due, EndArrives(r),
         UNCHANGED <<nextId, call>>, UNCHANGED sessionVars
  PROVE  Asking' /\ Answering'
<1> DEFINE less == [r EXCEPT !.left = r.left - 1]
<1>1. /\ r \in Debt
      /\ less.left = r.left - 1 /\ less.sock = r.sock /\ less.id = r.id /\ less.kind = r.kind /\ less.to = r.to
      /\ less \notin owed \ {r}
  BY LessIsOwed
<1>2. owed' = owed \ {r} /\ owed' \subseteq (owed \ {r}) \union {less} /\ less \notin owed' /\ r.left = 0
  BY <1>1 DEF EndArrives
<1> HIDE DEF less
<1>3. CASE r.kind \in Streamed
  <2>1. HandOn(r.id, "bars", r.to) /\ pending' = pending
    BY <1>3 DEF EndArrives, Streamed
  <2>2. /\ chan' \in [Callers -> Channel] /\ streams' \subseteq OneStream
        /\ \A c \in Callers \ Receivers(r) : chan'[c] = chan[c]
        /\ \A c \in Receivers(r) : Added(c, "bars", r.to)
        /\ \A e \in streams' : \E d \in streams : d.id = e.id /\ d.caller = e.caller
    BY <1>3, <2>1, HandOnFacts DEF RequestInv
  <2>3. Reaches(r, Receivers(r), "bars", less)
    BY <1>1, <1>2, <1>3, <2>2 DEF Reaches
  <2> QED BY <2>1, <2>3, Gets
<1>4. CASE r.kind \notin Streamed
  <2> DEFINE G == At(generation, r.id)
  <2>1. /\ pending' = pending \ G /\ streams' = streams
        /\ chan' = [c \in Callers |-> IF \E e \in G : e.caller = c THEN [chan[c] EXCEPT !.closedBy = "end"] ELSE chan[c]]
    BY <1>4 DEF EndArrives, Complete, CloseAll, Streamed
  <2>2. /\ chan' \in [Callers -> Channel]
        /\ \A c \in Callers :
             /\ chan'[c].buf = chan[c].buf /\ chan'[c].dropped = chan[c].dropped
             /\ (\E e \in G : e.caller = c) => chan'[c].closedBy = "end"
             /\ ~(\E e \in G : e.caller = c) => chan'[c] = chan[c]
    BY <2>1, CloseFacts DEF RequestInv
  <2>3. \A c \in Callers : c \in Receivers(r) <=> \E e \in G : e.caller = c
    BY <1>4 DEF Receivers
  <2>4. \A c \in Receivers(r) :
          /\ Waits(c) /\ call[c].id = r.id /\ call[c].kind \notin Streamed
          /\ ~Replaced => Hears(c, r.to)
    BY <1>4, ReceiverFacts
  <2>5. /\ \A c \in Callers : Waits(c)' = Waits(c) /\ call'[c] = call[c] /\ Come(c)' = Come(c)
        /\ \A e \in pending' : e \in pending /\ e \notin G
        /\ generation' = generation /\ conn' = conn /\ alive' = alive /\ Replaced' = Replaced
        /\ flow' = flow /\ Sockets' = Sockets /\ nextId' = nextId
    BY <2>1, <2>2 DEF Replaced, Waits, Come, sessionVars, Sockets
  <2> HIDE DEF G
  <2> USE DEF RequestInv, Asking
  <2>6. IdleIsFresh'
    BY <2>2, <2>3, <2>4, <2>5 DEF IdleIsFresh, Waits
  <2>7. PendingIsAsked' /\ StreamIsAsked'
    BY <2>1, <2>5 DEF PendingIsAsked, StreamIsAsked, Waits
  <2>8. OwedIsAsked'
    BY <1>2, <2>5 DEF OwedIsAsked, Waits
  <2>9. ClosedIsGone'
    <3> SUFFICES ASSUME NEW c \in Callers, Waits(c), chan'[c].closedBy # "nobody", call[c].kind \notin Streamed,
                        NEW e \in pending', e.gen = generation, e.id = call[c].id, e.caller = c
                 PROVE  FALSE
      BY <2>5 DEF ClosedIsGone, At
    <3>1. e \in At(generation, call[c].id) /\ e \notin G
      BY <2>5 DEF At
    <3>2. CASE c \in Receivers(r)
      BY <2>4, <3>1, <3>2 DEF G
    <3>3. CASE c \notin Receivers(r)
      BY <2>2, <2>3, <3>1, <3>3 DEF ClosedIsGone
    <3> QED BY <3>2, <3>3
  <2>10. StreamsHaveBars'
    BY <2>2, <2>5 DEF StreamsHaveBars, Waits
  <2>11. Answering'
    <3> SUFFICES ASSUME ~Replaced
                 PROVE  IdsAreFresh' /\ OneAddressee' /\ ChannelIsOwn' /\ AnswerIsCounted' /\ SharesAreKnown'
      BY <2>5 DEF Answering
    <3>1. /\ IdsAreFresh /\ OneAddressee /\ ChannelIsOwn /\ AnswerIsCounted /\ SharesAreKnown
          /\ r \in Due /\ Due' \subseteq Due
      BY <1>2, <2>5 DEF Answering, Due
    <3>2. IdsAreFresh'
      BY <2>5, <3>1 DEF IdsAreFresh
    <3>3. OneAddressee'
      BY <2>1, <2>5, <3>1 DEF OneAddressee, Hears, At, Stream
    <3>4. ChannelIsOwn'
      BY <2>2, <2>5, <3>1 DEF ChannelIsOwn, Hears, Waits
    <3>5. ASSUME NEW q \in Due', NEW e \in At(generation, q.id)', q.kind \notin Streamed,
                 call'[e.caller].crossed = {}
          PROVE  Come(q.to)' + q.left = call'[q.to].size
      <4>1. q \in Due /\ e \in At(generation, q.id) /\ q.to \in Callers
        BY <2>5, <3>1, <3>5 DEF At, Due, RequestTypes, Debt
      <4> QED BY <2>5, <3>1, <3>5, <4>1 DEF AnswerIsCounted
    <3>6. ASSUME NEW c \in Callers, Waits(c)', chan'[c].closedBy = "end"
          PROVE  /\ call'[c].kind \notin Streamed
                 /\ call'[c].crossed = {} => Come(c)' = call'[c].size
      <4>1. CASE c \in Receivers(r)
        <5>1. PICK e \in At(generation, r.id) : e.caller = c
          BY <2>3, <4>1 DEF G
        <5>2. call[c].crossed = {} => c = r.to /\ Come(c) + 0 = call[c].size
          BY <1>2, <1>4, <2>4, <3>1, <4>1, <5>1 DEF AnswerIsCounted, Hears
        <5>3. Come(c) \in Nat
          BY ComeIsNat
        <5> QED BY <2>4, <2>5, <4>1, <5>2, <5>3
      <4>2. CASE c \notin Receivers(r)
        BY <2>2, <2>3, <2>5, <3>1, <3>6, <4>2 DEF AnswerIsCounted
      <4> QED BY <4>1, <4>2
    <3>7. SharesAreKnown'
      BY <2>5, <3>1 DEF SharesAreKnown, Hears, MayShareId
    <3> QED BY <2>5, <3>1, <3>2, <3>3, <3>4, <3>5, <3>6, <3>7 DEF AnswerIsCounted
  <2> QED BY <2>6, <2>7, <2>8, <2>9, <2>10, <2>11
<1> QED BY <1>3, <1>4

\* Only a loop that reads the client's connection hands anything on, until the
\* manual endpoint replaces a session.
LEMMA FrameKeeps ==
  ASSUME RequestInv, NEW s \in Sockets, FrameArrives(s)
  PROVE  RequestTypes' /\ Asking' /\ Answering'
<1>1. PICK r \in owed : r.sock = loop[s].src /\ (ItemArrives(r) \/ EndArrives(r) \/ ErrorArrives(r))
  BY DEF FrameArrives
<1>2. ~Replaced => r \in Due
  BY <1>1 DEF FrameArrives, Due, RequestInv, SessionInv, OneConnection
<1>3. UNCHANGED <<nextId, call>> /\ UNCHANGED sessionVars
  BY DEF FrameArrives
<1> QED BY <1>1, <1>2, <1>3, FrameTypes, ItemKeeps, EndKeeps, ErrorKeeps DEF RequestInv

-----------------------------------------------------------------------------
(* The callers *)

\* What the deferred Complete or unsubscribe of a request takes away.
GenOf(c) == IF call[c].kind = "contract" THEN call[c].gen ELSE generation
Mine(c) == IF call[c].kind \in Streamed THEN {} ELSE At(GenOf(c), call[c].id)
Theirs(c) == IF call[c].kind \in Streamed THEN Stream(call[c].id) ELSE {}

\* What a request that returns changes.
LEMMA ReturnFacts ==
  ASSUME RequestTypes, NEW c \in Callers, NEW result \in {"ok", "error"}, NEW more,
         NEW from \in SUBSET Callers, Return(c, result, more, from)
  PROVE  /\ RequestTypes'
         /\ Waits(c) /\ pending' = pending \ Mine(c) /\ streams' = streams \ Theirs(c)
         /\ nextId' = nextId /\ owed' = owed
         /\ call'[c].at = "done" /\ call'[c].result = result /\ call'[c].by = chan[c].closedBy
         /\ call'[c].kind = call[c].kind /\ call'[c].early = call[c].early /\ call'[c].crossed = call[c].crossed
         /\ call'[c].from = call[c].from \union from
         /\ call'[c].short = (call[c].got + more + chan[c].dropped < call[c].size)
         /\ \A d \in Callers : d # c =>
              /\ call'[d] = call[d]
              /\ chan'[d].buf = chan[d].buf /\ chan'[d].dropped = chan[d].dropped
              /\ IF \E e \in Mine(c) \union Theirs(c) : e.caller = d
                 THEN chan'[d].closedBy = "other" ELSE chan'[d] = chan[d]
<1> DEFINE short == call[c].got + more + chan[c].dropped < call[c].size
           all == call[c].from \union from
           new == [call[c] EXCEPT !.at = "done", !.result = result, !.by = chan[c].closedBy,
                     !.from = all, !.short = short,
                     !.id = 0, !.got = 0, !.size = 0, !.gen = 0]
<1>1. Waits(c) /\ pending' = pending \ Mine(c) /\ streams' = streams \ Theirs(c) /\ nextId' = nextId /\ owed' = owed
  BY DEF Return, Waits, Mine, Theirs, GenOf
<1>2. call' = [call EXCEPT ![c] = new]
  BY DEF Return
<1>3. chan' = [d \in Callers |->
                 IF d = c THEN NoChannel
                 ELSE IF \E e \in Mine(c) \union Theirs(c) : e.caller = d
                 THEN [chan[d] EXCEPT !.closedBy = "other"] ELSE chan[d]]
  BY DEF Return, Mine, Theirs, GenOf
<1>4. /\ call[c] \in Call /\ call \in [Callers -> Call] /\ chan \in [Callers -> Channel] /\ 0 \in 0..MaxAnswers /\ 0 \in 0..MaxGeneration
      /\ chan[c].closedBy \in {"nobody", "end", "drain", "other"}
      /\ short \in BOOLEAN /\ all \in SUBSET Callers
  BY RequestAssumption, ClientAssumption DEF RequestTypes, Channel, Call
<1> HIDE DEF short, all
<1>5. /\ new \in Call /\ new.at = "done" /\ new.result = result /\ new.by = chan[c].closedBy
      /\ new.kind = call[c].kind /\ new.early = call[c].early /\ new.crossed = call[c].crossed
      /\ new.from = all /\ new.short = short
  BY <1>4 DEF Call
<1> HIDE DEF new
<1>6. /\ call' \in [Callers -> Call] /\ call'[c] = new
      /\ \A d \in Callers : d # c => call'[d] = call[d]
  BY <1>2, <1>4, <1>5
<1>7. NoChannel \in Channel
  BY DEF NoChannel, Channel
<1>8. ASSUME NEW d \in Callers
      PROVE  LET closed == [chan[d] EXCEPT !.closedBy = "other"]
             IN  closed \in Channel /\ closed.buf = chan[d].buf /\ closed.dropped = chan[d].dropped /\ closed.closedBy = "other"
  BY <1>4 DEF Channel
<1>9. chan' \in [Callers -> Channel]
  BY <1>3, <1>4, <1>7, <1>8
<1>10. RequestTypes'
  BY <1>1, <1>6, <1>9 DEF RequestTypes
<1>11. ASSUME NEW d \in Callers, d # c
       PROVE  /\ chan'[d].buf = chan[d].buf /\ chan'[d].dropped = chan[d].dropped
              /\ IF \E e \in Mine(c) \union Theirs(c) : e.caller = d
                 THEN chan'[d].closedBy = "other" ELSE chan'[d] = chan[d]
  BY <1>3, <1>8, <1>11
<1> QED BY <1>1, <1>5, <1>6, <1>10, <1>11 DEF short, all

\* A request returns, with what it may hear, and if no other answer crossed it
\* with all its items.
LEMMA ReturnKeeps ==
  ASSUME RequestInv, RequestTypes', NEW c \in Callers, NEW result \in {"ok", "error"}, NEW more \in Nat,
         NEW from \in SUBSET Callers, Return(c, result, more, from), UNCHANGED sessionVars,
         ~Replaced => /\ \A d \in from : Hears(c, d)
                      /\ (result = "ok" /\ chan[c].closedBy = "end" /\ call[c].crossed = {})
                           => ~(call[c].got + more + chan[c].dropped < call[c].size)
  PROVE  Asking' /\ Answering'
<1> USE DEF RequestInv, Asking
<1>1. /\ Waits(c) /\ pending' = pending \ Mine(c) /\ streams' = streams \ Theirs(c)
      /\ nextId' = nextId /\ owed' = owed
      /\ call'[c].at = "done" /\ call'[c].result = result /\ call'[c].by = chan[c].closedBy
      /\ call'[c].kind = call[c].kind /\ call'[c].early = call[c].early /\ call'[c].crossed = call[c].crossed
      /\ call'[c].from = call[c].from \union from
      /\ call'[c].short = (call[c].got + more + chan[c].dropped < call[c].size)
  BY ReturnFacts
<1>2. \A d \in Callers : d # c =>
        /\ call'[d] = call[d]
        /\ chan'[d].buf = chan[d].buf /\ chan'[d].dropped = chan[d].dropped
        /\ IF \E e \in Mine(c) \union Theirs(c) : e.caller = d
           THEN chan'[d].closedBy = "other" ELSE chan'[d] = chan[d]
  BY ReturnFacts
<1>3. /\ generation' = generation /\ conn' = conn /\ alive' = alive /\ Replaced' = Replaced
      /\ flow' = flow /\ Sockets' = Sockets /\ generation \in Nat /\ MaxGeneration \in Nat
      /\ \A e \in pending : e \in Registration /\ e.caller \in Callers /\ e.gen \in Nat
      /\ \A e \in streams : e.caller \in Callers
  BY ClientAssumption DEF Replaced, sessionVars, Sockets, SessionInv, SessionTypeOK, RequestTypes, Registration, OneStream
<1>4. ASSUME NEW d \in Callers, d # c
       PROVE  Same(d)
  <2>1. CASE ~\E e \in Mine(c) \union Theirs(c) : e.caller = d
    BY <1>1, <1>2, <1>4, <2>1 DEF Same
  <2>2. CASE \E e \in Mine(c) \union Theirs(c) : e.caller = d
    <3>1. PICK e \in Mine(c) \union Theirs(c) : e.caller = d
      BY <2>2
    <3>2. /\ chan'[d].buf = chan[d].buf /\ chan'[d].dropped = chan[d].dropped /\ chan'[d].closedBy = "other"
      BY <1>2, <1>4, <2>2
    <3>3. CASE e \in Mine(c)
      <4>1. e \in pending /\ e.gen = GenOf(c) /\ e.id = call[c].id /\ call[c].kind \notin Streamed
        BY <3>3 DEF Mine, At
      <4>2. call[d].at # "idle" /\ (Waits(d) => call[d].gen = GenOf(c) /\ call[d].id = call[c].id)
        BY <3>1, <4>1 DEF PendingIsAsked, Waits
      <4>3. ASSUME Waits(d), NEW f \in pending', f.caller = d
            PROVE  FALSE
        <5>1. f \in pending /\ f \notin Mine(c)
          BY <1>1, <4>3
        <5>2. f.gen = GenOf(c) /\ f.id = call[c].id
          BY <4>2, <4>3, <5>1 DEF PendingIsAsked, Waits
        <5> QED BY <4>1, <5>1, <5>2 DEF Mine, At
      <4> QED BY <1>2, <1>4, <3>2, <4>2, <4>3 DEF Same
    <3>4. CASE e \in Theirs(c)
      <4>1. Waits(d) /\ call[d].kind \in Streamed
        BY <3>1, <3>4 DEF Theirs, Stream, StreamIsAsked
      <4>2. \A f \in pending' : f.caller # d
        BY <1>1, <4>1 DEF PendingIsAsked, Waits
      <4> QED BY <1>2, <1>4, <3>2, <4>1, <4>2 DEF Same, Waits
    <3> QED BY <3>1, <3>3, <3>4
  <2> QED BY <2>1, <2>2
<1>5. Returned(c)
  <2>1. ASSUME ~Replaced
        PROVE  /\ \A d \in call'[c].from : d = c \/ d \in call[c].crossed
               /\ (call'[c].result = "ok" /\ call'[c].by = "end" /\ call'[c].short) => call[c].crossed # {}
    <3>1. \A d \in call[c].from \union from : Hears(c, d)
      BY <2>1 DEF Answering, SharesAreKnown
    <3> QED BY <1>1, <2>1, <3>1 DEF Hears
  <2>2. ASSUME NEW e \in pending', e.caller = c
        PROVE  e.gen < generation'
    <3>1. e \in pending /\ e \notin Mine(c)
      BY <1>1, <2>2
    <3>2. call[c].kind \notin Streamed /\ e.id = call[c].id /\ e.gen = call[c].gen /\ e.gen <= generation
      BY <1>1, <2>2, <3>1 DEF PendingIsAsked, Waits
    <3>3. e.gen # GenOf(c)
      BY <3>1, <3>2 DEF Mine, At
    <3> QED BY <1>3, <3>1, <3>2, <3>3 DEF GenOf
  <2>3. ASSUME NEW e \in streams', e.caller = c
        PROVE  FALSE
    <3>1. e \in streams /\ e \notin Theirs(c)
      BY <1>1, <2>3
    <3>2. call[c].kind \in Streamed /\ call[c].id = e.id
      BY <2>3, <3>1 DEF StreamIsAsked
    <3> QED BY <3>1, <3>2 DEF Theirs, Stream
  <2> QED BY <1>1, <1>3, <2>1, <2>2, <2>3 DEF Returned
<1>6. Due' = Due /\ Quieter /\ (~Replaced' => IdsAreFresh')
  <2>1. Due' = Due
    BY <1>1, <1>3 DEF Due
  <2>2. Quieter
    BY <1>3 DEF Quieter
  <2>3. ~Replaced' => IdsAreFresh'
    <3>1. \A d \in Callers : call'[d].early = call[d].early
      BY <1>1, <1>2
    <3>2. \A r \in Due : r.to \in Callers
      BY DEF Due, RequestTypes, Debt
    <3> QED BY <1>1, <1>3, <2>1, <3>1, <3>2 DEF IdsAreFresh, Answering
  <2> QED BY <2>1, <2>2, <2>3
<1> QED BY <1>1, <1>3, <1>4, <1>5, <1>6, Elsewhere

\* The message a caller takes.
LEMMA HeadFacts ==
  ASSUME RequestTypes, NEW c \in Callers, chan[c].buf # <<>>
  PROVE  /\ Head(chan[c].buf) \in Message /\ Head(chan[c].buf) = chan[c].buf[1] /\ 1 \in 1..Len(chan[c].buf)
         /\ Tail(chan[c].buf) \in Seq(Message) /\ Len(chan[c].buf) = Len(Tail(chan[c].buf)) + 1
         /\ Len(Tail(chan[c].buf)) \in Nat
         /\ \A i \in 1..Len(Tail(chan[c].buf)) :
              i + 1 \in 1..Len(chan[c].buf) /\ Tail(chan[c].buf)[i] = chan[c].buf[i + 1]
<1> DEFINE b == chan[c].buf
<1>1. b \in Seq(Message) /\ b # <<>>
  BY CallerFacts
<1> HIDE DEF b
<1>2. /\ Head(b) \in Message /\ Head(b) = b[1] /\ 1 \in 1..Len(b)
      /\ Tail(b) \in Seq(Message) /\ Len(b) = Len(Tail(b)) + 1
      /\ Len(Tail(b)) \in Nat
      /\ \A i \in 1..Len(Tail(b)) : i + 1 \in 1..Len(b) /\ Tail(b)[i] = b[i + 1]
  BY <1>1
<1> QED BY <1>2 DEF b

LEMMA HeadIsOwn ==
  ASSUME RequestInv, NEW c \in Callers, chan[c].buf # <<>>, ~Replaced, Waits(c)
  PROVE  Hears(c, Head(chan[c].buf).to)
<1>1. Head(chan[c].buf) = chan[c].buf[1] /\ 1 \in 1..Len(chan[c].buf)
  BY HeadFacts DEF RequestInv
<1> QED BY <1>1 DEF RequestInv, Answering, ChannelIsOwn

\* A request that returns: after its answer, with an error, because its channel
\* is closed and empty, or because its time is over.
LEMMA ReturnsKeep ==
  ASSUME RequestInv, RequestTypes', NEW c \in Callers, UNCHANGED sessionVars,
         ReturnAnswer(c) \/ ReturnError(c) \/ ReturnClosed(c) \/ GiveUp(c)
  PROVE  Asking' /\ Answering'
<1> DEFINE m == Head(chan[c].buf)
<1>1. Waits(c)
  BY DEF ReturnAnswer, ReturnError, ReturnClosed, GiveUp, Return, Waits
<1>2. ASSUME ~Replaced, chan[c].closedBy = "end"
      PROVE  call[c].kind \notin Streamed /\ (call[c].crossed = {} => Come(c) = call[c].size)
  BY <1>1, <1>2 DEF RequestInv, Answering, AnswerIsCounted
<1>3. CASE ReturnAnswer(c)
  <2>1. /\ chan[c].buf # <<>>
        /\ m.what = "bars" \/ (m.what = "item" /\ call[c].kind = "quote")
        /\ Return(c, "ok", m.n, {m.to})
    BY <1>3 DEF ReturnAnswer
  <2>2. m \in Message /\ m = chan[c].buf[1] /\ 1 \in 1..Len(chan[c].buf) /\ (~Replaced => Hears(c, m.to))
    BY <1>1, <2>1, HeadFacts, HeadIsOwn DEF RequestInv
  <2>3. m.n \in Nat /\ {m.to} \in SUBSET Callers
    BY <2>2 DEF Message
  <2>4. call[c].kind \in Streamed
    <3>1. m.what = "bars" => call[c].kind \in Streamed
      BY <1>1, <2>2 DEF RequestInv, Asking, StreamsHaveBars
    <3> QED BY <2>1, <3>1 DEF Streamed
  <2> HIDE DEF m
  <2> QED BY <1>2, <2>1, <2>2, <2>3, <2>4, ReturnKeeps
<1>4. CASE ReturnError(c)
  <2>1. chan[c].buf # <<>> /\ Return(c, "error", 0, {m.to})
    BY <1>4 DEF ReturnError
  <2>2. (~Replaced => Hears(c, m.to)) /\ {m.to} \in SUBSET Callers
    BY <1>1, <2>1, HeadFacts, HeadIsOwn DEF RequestInv, Message
  <2> HIDE DEF m
  <2> QED BY <2>1, <2>2, ReturnKeeps
<1>5. {} \in SUBSET Callers
  OBVIOUS
<1>6. CASE ReturnClosed(c)
  <2>1. chan[c].buf = <<>> /\ Return(c, "ok", 0, {})
    BY <1>6 DEF ReturnClosed
  <2>2. Come(c) = call[c].got + 0 + chan[c].dropped
    BY <2>1 DEF Come
  <2>3. Come(c) \in Nat
    BY ComeIsNat DEF RequestInv
  <2>4. ~Replaced /\ chan[c].closedBy = "end" /\ call[c].crossed = {}
          => ~(call[c].got + 0 + chan[c].dropped < call[c].size)
    BY <1>2, <2>2, <2>3
  <2> QED BY <1>5, <2>1, <2>4, ReturnKeeps
<1>7. CASE GiveUp(c)
  <2>1. CASE call[c].kind = "quote"
    <3>1. call[c].kind \in Streamed
      BY <2>1 DEF Streamed
    <3>2. Return(c, "ok", 0, {}) \/ Return(c, "error", 0, {})
      BY <1>7 DEF GiveUp
    <3> QED BY <1>2, <1>5, <3>1, <3>2, ReturnKeeps
  <2>2. CASE call[c].kind # "quote"
    <3>1. Return(c, "error", 0, {})
      BY <1>7, <2>2 DEF GiveUp
    <3> QED BY <1>5, <3>1, ReturnKeeps
  <2> QED BY <2>1, <2>2
<1> QED BY <1>3, <1>4, <1>6, <1>7

\* What a caller that takes an item changes.
LEMMA ReceiveFacts ==
  ASSUME RequestTypes, NEW c \in Callers, Receive(c)
  PROVE  /\ RequestTypes' /\ Waits(c) /\ chan[c].buf # <<>> /\ UNCHANGED <<nextId, pending, streams, owed>>
         /\ \A d \in Callers : d # c => call'[d] = call[d] /\ chan'[d] = chan[d]
         /\ call'[c].at = call[c].at /\ call'[c].kind = call[c].kind /\ call'[c].id = call[c].id
         /\ call'[c].gen = call[c].gen /\ call'[c].size = call[c].size /\ call'[c].result = call[c].result
         /\ call'[c].by = call[c].by /\ call'[c].short = call[c].short
         /\ call'[c].got = call[c].got + 1
         /\ call'[c].early = call[c].early /\ call'[c].crossed = call[c].crossed
         /\ call'[c].from = call[c].from \union {Head(chan[c].buf).to}
         /\ chan'[c].buf = Tail(chan[c].buf)
         /\ chan'[c].closedBy = chan[c].closedBy /\ chan'[c].dropped = chan[c].dropped
<1> DEFINE b == chan[c].buf
           from == call[c].from \union {Head(b).to}
<1>1. /\ Waits(c) /\ b # <<>> /\ UNCHANGED <<nextId, pending, streams, owed>>
      /\ call' = [call EXCEPT ![c].got = call[c].got + 1, ![c].from = from]
      /\ chan' = [chan EXCEPT ![c].buf = Tail(b)]
  BY DEF Receive, Waits
<1>2. /\ call[c] \in Call /\ chan[c] \in Channel /\ call \in [Callers -> Call] /\ chan \in [Callers -> Channel]
      /\ call[c].got \in Nat /\ Tail(b) \in Seq(Message) /\ from \in SUBSET Callers
  BY <1>1, CallerFacts, HeadFacts DEF RequestTypes, Message, Call
<1> DEFINE tail == Tail(b)
<1> HIDE DEF from, tail
<1>3. /\ call' \in [Callers -> Call]
      /\ \A d \in Callers : d # c => call'[d] = call[d]
      /\ call'[c] = [call[c] EXCEPT !.got = call[c].got + 1, !.from = from]
  <2>1. call' = [call EXCEPT ![c] = [call[c] EXCEPT !.got = call[c].got + 1, !.from = from]]
    <3> DEFINE one == [call EXCEPT ![c].got = call[c].got + 1]
    <3>1. one = [call EXCEPT ![c] = [call[c] EXCEPT !.got = call[c].got + 1]]
      OBVIOUS
    <3>2. one[c] = [call[c] EXCEPT !.got = call[c].got + 1]
      BY <1>2, <3>1
    <3>3. call' = [one EXCEPT ![c] = [one[c] EXCEPT !.from = from]]
      BY <1>1
    <3> HIDE DEF one
    <3> QED BY <1>2, <3>1, <3>2, <3>3
  <2>2. [call[c] EXCEPT !.got = call[c].got + 1, !.from = from] \in Call
    <3> DEFINE n == call[c].got + 1
    <3>1. n \in Nat
      BY <1>2
    <3> HIDE DEF n
    <3>2. [call[c] EXCEPT !.got = n, !.from = from] \in Call
      BY <1>2, <3>1 DEF Call
    <3> QED BY <3>2 DEF n
  <2> QED BY <1>2, <2>1, <2>2
<1>4. /\ call'[c].at = call[c].at /\ call'[c].kind = call[c].kind /\ call'[c].id = call[c].id
      /\ call'[c].gen = call[c].gen /\ call'[c].size = call[c].size /\ call'[c].result = call[c].result
      /\ call'[c].by = call[c].by /\ call'[c].short = call[c].short
      /\ call'[c].early = call[c].early /\ call'[c].crossed = call[c].crossed
      /\ call'[c].got = call[c].got + 1 /\ call'[c].from = from
  BY <1>2, <1>3 DEF Call
<1>5. chan'[c] = [chan[c] EXCEPT !.buf = tail] /\ \A d \in Callers : d # c => chan'[d] = chan[d]
  BY <1>1, <1>2 DEF tail
<1>6. /\ chan'[c] \in Channel /\ chan'[c].buf = tail
      /\ chan'[c].closedBy = chan[c].closedBy /\ chan'[c].dropped = chan[c].dropped
  BY <1>2, <1>5 DEF Channel, tail
<1>7. chan' \in [Callers -> Channel]
  <2>1. chan' = [chan EXCEPT ![c] = [chan[c] EXCEPT !.buf = tail]]
    BY <1>1 DEF tail
  <2> QED BY <1>2, <1>5, <1>6, <2>1
<1>8. RequestTypes'
  BY <1>1, <1>3, <1>7 DEF RequestTypes
<1> QED BY <1>1, <1>3, <1>4, <1>5, <1>6, <1>8 DEF from, tail

\* An item is taken out of the channel and counted.
LEMMA ReceiveKeeps ==
  ASSUME RequestInv, RequestTypes', NEW c \in Callers, UNCHANGED sessionVars, Receive(c)
  PROVE  Asking' /\ Answering'
<1> USE DEF RequestInv, Asking
<1> DEFINE b == chan[c].buf
           from == call[c].from \union {Head(b).to}
           tail == Tail(b)
<1>1. /\ Waits(c) /\ b # <<>> /\ UNCHANGED <<nextId, pending, streams, owed>>
  BY ReceiveFacts
<1>2. /\ call[c] \in Call /\ chan[c] \in Channel
  BY DEF RequestTypes
<1>3. /\ Len(b) = Len(Tail(b)) + 1 /\ Len(Tail(b)) \in Nat
      /\ \A i \in 1..Len(Tail(b)) : i + 1 \in 1..Len(b) /\ Tail(b)[i] = b[i + 1]
      /\ ~Replaced => Hears(c, Head(b).to)
  BY <1>1, HeadFacts, HeadIsOwn
<1>4. \A d \in Callers : d # c => call'[d] = call[d] /\ chan'[d] = chan[d]
  BY ReceiveFacts
<1>5. /\ call'[c].at = call[c].at /\ call'[c].kind = call[c].kind /\ call'[c].id = call[c].id
      /\ call'[c].gen = call[c].gen /\ call'[c].size = call[c].size /\ call'[c].result = call[c].result
      /\ call'[c].by = call[c].by /\ call'[c].short = call[c].short
      /\ call'[c].early = call[c].early /\ call'[c].crossed = call[c].crossed
      /\ call'[c].got = call[c].got + 1 /\ call'[c].from = from
  BY ReceiveFacts
<1>6. /\ chan'[c].buf = tail
      /\ chan'[c].closedBy = chan[c].closedBy /\ chan'[c].dropped = chan[c].dropped
  BY ReceiveFacts
<1>7. \A d \in Callers : d # c => chan'[d] = chan[d]
  BY <1>4
<1> HIDE DEF from, tail
<1>8. \A d \in Callers : Come(d)' = Come(d)
  <2>1. Come(c)' = Come(c)
    <3> DEFINE got == call[c].got  held == Len(tail)  lost == chan[c].dropped
    <3>1. got \in Nat /\ held \in Nat /\ lost \in Nat
      BY <1>3, CallerFacts DEF tail
    <3>2. Come(c) = got + (held + 1) + lost
      BY <1>3 DEF Come, tail
    <3>3. Come(c)' = (got + 1) + held + lost
      BY <1>5, <1>6 DEF Come
    <3> HIDE DEF got, held, lost
    <3> QED BY <3>1, <3>2, <3>3
  <2>2. ASSUME NEW d \in Callers, d # c
        PROVE  Come(d)' = Come(d)
    BY <1>4, <1>7, <2>2 DEF Come
  <2> QED BY <2>1, <2>2
<1>9. \A d \in Callers :
         /\ Waits(d)' = Waits(d) /\ call'[d].at = call[d].at /\ call'[d].kind = call[d].kind
         /\ call'[d].id = call[d].id /\ call'[d].gen = call[d].gen
         /\ call'[d].size = call[d].size /\ call'[d].result = call[d].result
         /\ call'[d].by = call[d].by /\ call'[d].short = call[d].short
         /\ chan'[d].closedBy = chan[d].closedBy
         /\ call[d].at = "idle" => d # c
         /\ call'[d].early = call[d].early /\ call'[d].crossed = call[d].crossed
         /\ ~Replaced => \A x \in call'[d].from : x \in call[d].from \/ Hears(d, x)
  <2>1. ~Replaced => \A x \in from : x \in call[c].from \/ Hears(c, x)
    BY <1>3 DEF from
  <2>2. call[c].at # "idle"
    BY <1>1 DEF Waits
  <2> QED BY <1>4, <1>5, <1>7, <1>6, <2>1, <2>2 DEF Waits
<1>10. /\ \A d \in Callers : Waits(d)' = Waits(d)
       /\ \A d \in Callers : call'[d].at = call[d].at
       /\ \A d \in Callers : call'[d].kind = call[d].kind
       /\ \A d \in Callers : call'[d].id = call[d].id
       /\ \A d \in Callers : call'[d].gen = call[d].gen
  BY <1>9
<1>11. /\ generation' = generation /\ conn' = conn /\ alive' = alive /\ Replaced' = Replaced
       /\ flow' = flow /\ Sockets' = Sockets /\ Due' = Due
       /\ \A e \in pending : e.caller \in Callers
       /\ \A e \in streams : e.caller \in Callers
       /\ \A r \in owed : r.to \in Callers
  BY <1>1 DEF Replaced, sessionVars, Sockets, Due, RequestTypes, Registration, OneStream, Debt
<1>12. IdleIsFresh'
  BY <1>4, <1>7, <1>9 DEF IdleIsFresh
<1>13. PendingIsAsked' /\ StreamIsAsked' /\ OwedIsAsked' /\ ClosedIsGone'
  <2>1. PendingIsAsked'
    BY <1>1, <1>11, <1>10 DEF PendingIsAsked
  <2>2. StreamIsAsked'
    BY <1>1, <1>11, <1>10 DEF StreamIsAsked
  <2>3. OwedIsAsked'
    BY <1>1, <1>11, <1>10 DEF OwedIsAsked
  <2>4. ClosedIsGone'
    BY <1>1, <1>9, <1>11 DEF ClosedIsGone, At
  <2> QED BY <2>1, <2>2, <2>3, <2>4
<1>14. \A d \in Callers : \A i \in 1..Len(chan'[d].buf) :
         \E j \in 1..Len(chan[d].buf) : chan'[d].buf[i] = chan[d].buf[j]
  <2>1. \A i \in 1..Len(tail) : i + 1 \in 1..Len(b) /\ tail[i] = b[i + 1]
    BY <1>3 DEF tail
  <2>2. \A i \in 1..Len(chan'[c].buf) : \E j \in 1..Len(chan[c].buf) : chan'[c].buf[i] = chan[c].buf[j]
    BY <1>6, <2>1
  <2> QED BY <1>7, <2>2
<1>15. StreamsHaveBars'
  <2> SUFFICES ASSUME NEW d \in Callers, Waits(d), call[d].kind \notin Streamed,
                      NEW i \in 1..Len(chan'[d].buf)
               PROVE  chan'[d].buf[i].what # "bars"
    BY <1>10 DEF StreamsHaveBars
  <2>1. PICK j \in 1..Len(chan[d].buf) : chan'[d].buf[i] = chan[d].buf[j]
    BY <1>14
  <2> QED BY <2>1 DEF StreamsHaveBars
<1>16. Answering'
  <2> SUFFICES ASSUME ~Replaced
               PROVE  IdsAreFresh' /\ OneAddressee' /\ ChannelIsOwn' /\ AnswerIsCounted' /\ SharesAreKnown'
    BY <1>11 DEF Answering
  <2>1. IdsAreFresh' /\ OneAddressee'
    <3>1. IdsAreFresh'
      BY <1>1, <1>9, <1>11 DEF Answering, IdsAreFresh, Due
    <3>2. OneAddressee'
      BY <1>1, <1>9, <1>11 DEF Answering, OneAddressee, Hears, At, Stream
    <3> QED BY <3>1, <3>2
  <2>2. ChannelIsOwn'
    <3> SUFFICES ASSUME NEW d \in Callers, Waits(d), NEW i \in 1..Len(chan'[d].buf)
                 PROVE  Hears(d, chan'[d].buf[i].to)
      BY <1>9, <1>10 DEF ChannelIsOwn, Hears
    <3>1. \A j \in 1..Len(chan[d].buf) : Hears(d, chan[d].buf[j].to)
      BY DEF Answering, ChannelIsOwn
    <3> QED BY <1>14, <3>1
  <2>3. AnswerIsCounted'
    <3>1. \A q \in Due : q.to \in Callers
      BY <1>11 DEF Due
    <3>2. ASSUME NEW q \in Due', NEW e \in At(generation, q.id)', q.kind \notin Streamed,
                 call'[e.caller].crossed = {}
          PROVE  Come(q.to)' + q.left = call'[q.to].size
      <4>1. q \in Due /\ e \in At(generation, q.id)
        BY <1>1, <1>11, <3>2 DEF At
      <4>2. call[e.caller].crossed = {}
        BY <1>9, <1>11, <3>2, <4>1 DEF At
      <4>3. Come(q.to) + q.left = call[q.to].size
        BY <3>2, <4>1, <4>2 DEF Answering, AnswerIsCounted
      <4> QED BY <1>8, <1>9, <3>1, <4>1, <4>3
    <3>3. ASSUME NEW d \in Callers, Waits(d)', chan'[d].closedBy = "end"
          PROVE  /\ call'[d].kind \notin Streamed
                 /\ call'[d].crossed = {} => Come(d)' = call'[d].size
      BY <1>8, <1>9, <3>3 DEF Answering, AnswerIsCounted
    <3> QED BY <3>2, <3>3 DEF AnswerIsCounted
  <2>4. SharesAreKnown'
    <3>1. ASSUME NEW d \in Callers, NEW x \in call'[d].crossed
          PROVE  call'[x].at # "idle" /\ MayShareId(d, x)'
      <4>1. x \in call[d].crossed /\ x \in Callers
        BY <1>9, <3>1 DEF RequestTypes, Call
      <4>2. call[x].at # "idle" /\ MayShareId(d, x)
        BY <4>1 DEF Answering, SharesAreKnown
      <4> QED BY <1>9, <4>1, <4>2 DEF MayShareId
    <3>2. ASSUME NEW d \in Callers
          PROVE  /\ \A x \in call'[d].from : Hears(d, x)'
                 /\ (call'[d].result = "ok" /\ call'[d].by = "end" /\ call'[d].short) => call'[d].crossed # {}
      BY <1>9 DEF Answering, SharesAreKnown, Hears
    <3> QED BY <3>1, <3>2 DEF SharesAreKnown
  <2> QED BY <2>1, <2>2, <2>3, <2>4
<1> QED BY <1>12, <1>13, <1>15, <1>16

\* What a request changes of its caller.
LEMMA AskFacts ==
  ASSUME RequestInv, NEW c \in Callers, call[c].at = "idle", NEW new \in Call,
         call' = [call EXCEPT ![c] = new]
  PROVE  /\ call' \in [Callers -> Call] /\ call'[c] = new
         /\ \A d \in Callers : d # c => call'[d] = call[d]
         /\ chan[c] = NoChannel
         /\ call[c].kind = "none" /\ call[c].got = 0 /\ call[c].result = "none"
         /\ call[c].from = {} /\ call[c].crossed = {}
         /\ \A e \in pending : e \in Registration /\ e.caller \in Callers /\ e.caller # c
         /\ \A e \in streams : e \in OneStream /\ e.caller \in Callers /\ e.caller # c
         /\ \A r \in owed : r \in Debt /\ r.to \in Callers /\ r.to # c
<1>1. call \in [Callers -> Call]
  BY DEF RequestInv, RequestTypes
<1>2. /\ chan[c] = NoChannel /\ call[c].kind = "none" /\ call[c].got = 0 /\ call[c].result = "none"
      /\ call[c].from = {} /\ call[c].crossed = {}
  BY DEF RequestInv, Asking, IdleIsFresh
<1>3. \A e \in pending : e \in Registration /\ e.caller \in Callers /\ e.caller # c
  BY DEF RequestInv, RequestTypes, Asking, PendingIsAsked, Waits, Registration
<1>4. \A e \in streams : e \in OneStream /\ e.caller \in Callers /\ e.caller # c
  BY DEF RequestInv, RequestTypes, Asking, StreamIsAsked, Waits, OneStream
<1>5. \A r \in owed : r \in Debt /\ r.to \in Callers /\ r.to # c
  BY DEF RequestInv, RequestTypes, Asking, OwedIsAsked, Debt
<1> QED BY <1>1, <1>2, <1>3, <1>4, <1>5

\* A request that is not written has its error or its panic at once.
LEMMA AskFails ==
  ASSUME RequestInv, RequestTypes', NEW c \in Callers, call[c].at = "idle",
         NEW k \in Kinds, NEW result \in {"error", "panic"},
         nextId' = IdAfter(k), UNCHANGED <<pending, streams, chan, owed>>, UNCHANGED sessionVars,
         call' = [call EXCEPT ![c] = [call[c] EXCEPT !.at = "done", !.kind = k, !.result = result]]
  PROVE  Asking' /\ Answering'
<1> DEFINE new == [call[c] EXCEPT !.at = "done", !.kind = k, !.result = result]
<1>1. call[c] \in Call /\ nextId \in Nat
  BY DEF RequestInv, RequestTypes
<1>2. /\ new \in Call /\ new.at = "done" /\ new.result = result
      /\ new.from = call[c].from /\ new.crossed = call[c].crossed
  BY <1>1 DEF Call
<1>3. call' = [call EXCEPT ![c] = new]
  OBVIOUS
<1> HIDE DEF new
<1>4. /\ call' \in [Callers -> Call] /\ call'[c] = new
      /\ \A d \in Callers : d # c => call'[d] = call[d]
      /\ call[c].from = {} /\ call[c].crossed = {}
      /\ \A e \in pending : e \in Registration /\ e.caller \in Callers /\ e.caller # c
      /\ \A e \in streams : e \in OneStream /\ e.caller \in Callers /\ e.caller # c
      /\ \A r \in owed : r \in Debt /\ r.to \in Callers /\ r.to # c
  BY <1>2, <1>3, AskFacts
<1>5. nextId' \in Nat /\ nextId' >= nextId
  BY <1>1 DEF IdAfter
<1>6. Returned(c)
  BY <1>2, <1>4 DEF Returned
<1>7. \A d \in Callers : d # c => Same(d)
  BY <1>4 DEF Same
<1>8. /\ generation' = generation /\ conn' = conn /\ alive' = alive /\ Replaced' = Replaced
      /\ flow' = flow /\ Sockets' = Sockets /\ Due' = Due /\ generation \in Nat
  BY ClientAssumption DEF Replaced, sessionVars, Sockets, Due, RequestInv, SessionInv, SessionTypeOK
<1>9. ~Replaced' => IdsAreFresh'
  <2>1. \A r \in Due : r.id \in Nat /\ call'[r.to].early = call[r.to].early
    BY <1>4 DEF Due, RequestInv, RequestTypes, Debt
  <2>2. FirstId \in Nat
    BY RequestAssumption
  <2> QED BY <1>1, <1>5, <1>8, <2>1, <2>2 DEF IdsAreFresh, RequestInv, Answering
<1>10. Quieter
  BY <1>8 DEF Quieter
<1> QED BY <1>6, <1>7, <1>8, <1>9, <1>10, Elsewhere

\* A request that is on its way, or lost in a connection that is not there.
LEMMA AskGoes ==
  ASSUME RequestInv, RequestTypes', NEW c \in Callers, call[c].at = "idle",
         NEW k \in Kinds, NEW id, id = IF k = "orders" THEN 0 ELSE nextId,
         NEW n \in 0..MaxAnswers,
         k \in Streamed \/ At(generation, id) = {},
         nextId' = IdAfter(k), chan' = chan, UNCHANGED sessionVars,
         call' = [call EXCEPT ![c] = [call[c] EXCEPT !.at = "waiting", !.kind = k, !.id = id,
                                                    !.gen = generation, !.size = n,
                                                    !.crossed = Crossing(k, id), !.early = Early(k)]],
         \/ owed' = owed
         \/ /\ conn \in alive
            /\ owed' = owed \union {[sock |-> conn, id |-> id, kind |-> k, to |-> c, left |-> n]},
         IF k \in Streamed THEN Subscribe(id, c) /\ pending' = pending
         ELSE pending' = pending \union {[gen |-> generation, id |-> id, caller |-> c]} /\ streams' = streams
  PROVE  Asking' /\ Answering'
<1> DEFINE new == [call[c] EXCEPT !.at = "waiting", !.kind = k, !.id = id, !.gen = generation, !.size = n,
                             !.crossed = Crossing(k, id), !.early = Early(k)]
           debt == [sock |-> conn, id |-> id, kind |-> k, to |-> c, left |-> n]
           reg == [gen |-> generation, id |-> id, caller |-> c]
           stream == [id |-> id, caller |-> c, bars |-> 0]
<1>1. /\ call[c] \in Call /\ nextId \in Nat /\ FirstId \in Nat \ {0}
      /\ generation \in 0..MaxGeneration /\ generation \in Nat /\ conn \in Nat
  BY RequestAssumption, ClientAssumption, LoopFacts DEF RequestInv, RequestTypes
<1>2. /\ id \in Nat /\ nextId' \in Nat /\ nextId' >= nextId
      /\ IF k = "orders" THEN id = 0 ELSE id = nextId /\ nextId' = nextId + 1
  BY <1>1 DEF IdAfter
<1>3. /\ new \in Call /\ new.at = "waiting" /\ new.kind = k /\ new.id = id /\ new.gen = generation /\ new.size = n
      /\ new.got = call[c].got /\ new.from = call[c].from /\ new.result = call[c].result
      /\ new.crossed = Crossing(k, id) /\ new.early = Early(k)
  <2>1. Crossing(k, id) \in SUBSET Callers /\ Early(k) \in BOOLEAN
    BY DEF Crossing, Early, RequestInv, RequestTypes, Debt
  <2> QED BY <1>1, <1>2, <2>1 DEF Call
<1>4. call' = [call EXCEPT ![c] = new]
  OBVIOUS
<1>5. /\ debt \in Debt /\ debt.sock = conn /\ debt.id = id /\ debt.kind = k /\ debt.to = c /\ debt.left = n
      /\ reg \in Registration /\ reg.gen = generation /\ reg.id = id /\ reg.caller = c
      /\ stream \in OneStream /\ stream.id = id /\ stream.caller = c
  BY <1>1, <1>2 DEF Debt, Registration, OneStream
<1>6. /\ \A e \in pending' : e \in pending \/ (e = reg /\ k \notin Streamed)
      /\ \A e \in streams' : (e \in streams /\ (k \in Streamed => e.id # id)) \/ (e = stream /\ k \in Streamed)
      /\ \A r \in owed' : r \in owed \/ (r = debt /\ conn \in alive)
  BY DEF Subscribe, Stream
<1>7. k \notin Streamed => At(generation, id) = {}
  OBVIOUS
<1> HIDE DEF new, debt, reg, stream
<1>8. /\ call' \in [Callers -> Call] /\ call'[c] = new
      /\ \A d \in Callers : d # c => call'[d] = call[d]
      /\ chan[c] = NoChannel
      /\ call[c].kind = "none" /\ call[c].got = 0 /\ call[c].result = "none"
      /\ call[c].from = {} /\ call[c].crossed = {}
      /\ \A e \in pending : e \in Registration /\ e.caller \in Callers /\ e.caller # c
      /\ \A e \in streams : e \in OneStream /\ e.caller \in Callers /\ e.caller # c
      /\ \A r \in owed : r \in Debt /\ r.to \in Callers /\ r.to # c
  BY <1>3, <1>4, AskFacts
<1>9. /\ generation' = generation /\ conn' = conn /\ alive' = alive /\ Replaced' = Replaced
      /\ flow' = flow /\ Sockets' = Sockets
  BY DEF Replaced, sessionVars, Sockets
<1>10. /\ NoChannel.buf = <<>> /\ Len(NoChannel.buf) = 0 /\ NoChannel.closedBy = "nobody" /\ NoChannel.dropped = 0
  BY DEF NoChannel
<1> USE DEF RequestInv, Asking
<1>11. IdleIsFresh'
  BY <1>3, <1>8 DEF IdleIsFresh
<1>12. PendingIsAsked'
  <2> SUFFICES ASSUME NEW e \in pending'
               PROVE  \/ /\ call'[e.caller].at = "waiting" /\ call'[e.caller].kind \notin Streamed
                         /\ call'[e.caller].id = e.id /\ call'[e.caller].gen = e.gen /\ e.gen <= generation
                      \/ call'[e.caller].at = "done" /\ e.gen < generation
    BY <1>9 DEF PendingIsAsked, Waits
  <2>1. CASE e = reg /\ k \notin Streamed
    BY <1>1, <1>3, <1>5, <1>8, <2>1
  <2>2. CASE e \in pending
    BY <1>8, <2>2 DEF PendingIsAsked, Waits
  <2> QED BY <1>6, <2>1, <2>2
<1>13. StreamIsAsked'
  <2>1. ASSUME NEW e \in streams'
        PROVE  call'[e.caller].at = "waiting" /\ call'[e.caller].kind \in Streamed /\ call'[e.caller].id = e.id
    <3>1. CASE e = stream /\ k \in Streamed
      BY <1>3, <1>5, <1>8, <3>1
    <3>2. CASE e \in streams
      BY <1>8, <3>2 DEF StreamIsAsked, Waits
    <3> QED BY <1>6, <3>1, <3>2
  <2> QED BY <2>1 DEF StreamIsAsked, Waits
<1>14. OwedIsAsked'
  <2>1. ASSUME NEW r \in owed'
        PROVE  /\ r.sock \in Sockets /\ call'[r.to].at # "idle"
               /\ call'[r.to].kind = r.kind
               /\ call'[r.to].at = "waiting" => call'[r.to].id = r.id
    <3>1. CASE r = debt /\ conn \in alive
      BY <1>3, <1>5, <1>8, <3>1 DEF SessionInv, SessionTypeOK
    <3>2. CASE r \in owed
      BY <1>8, <3>2 DEF OwedIsAsked, Waits
    <3> QED BY <1>6, <3>1, <3>2
  <2>2. ASSUME NEW r \in owed', NEW q \in owed', q.to = r.to
        PROVE  q = r
    BY <1>5, <1>6, <1>8, <2>2 DEF OwedIsAsked
  <2> QED BY <1>9, <2>1, <2>2 DEF OwedIsAsked, Waits
<1>15. ClosedIsGone'
  <2> SUFFICES ASSUME NEW d \in Callers, call'[d].at = "waiting", chan[d].closedBy # "nobody",
                      call'[d].kind \notin Streamed,
                      NEW e \in pending', e.gen = generation, e.id = call'[d].id, e.caller = d
               PROVE  FALSE
    BY <1>9 DEF ClosedIsGone, At, Waits
  <2>1. d # c
    BY <1>8, <1>10
  <2>2. e \in pending
    BY <1>5, <1>6, <2>1
  <2> QED BY <1>8, <2>1, <2>2 DEF ClosedIsGone, At, Waits
<1>16. StreamsHaveBars'
  <2> SUFFICES ASSUME NEW d \in Callers, call'[d].at = "waiting", call'[d].kind \notin Streamed,
                      NEW i \in 1..Len(chan[d].buf)
               PROVE  chan[d].buf[i].what # "bars"
    BY DEF StreamsHaveBars, Waits
  <2>1. d # c
    BY <1>8, <1>10
  <2> QED BY <1>8, <2>1 DEF StreamsHaveBars, Waits
<1>17. Answering'
  <2> SUFFICES ASSUME ~Replaced
               PROVE  IdsAreFresh' /\ OneAddressee' /\ ChannelIsOwn' /\ AnswerIsCounted' /\ SharesAreKnown'
    BY <1>9 DEF Answering
  <2>1. IdsAreFresh /\ OneAddressee /\ ChannelIsOwn /\ AnswerIsCounted /\ SharesAreKnown
    BY DEF Answering
  <2>2. \A r \in Due' : (r \in Due /\ r \in owed) \/ r = debt
    BY <1>6, <1>9 DEF Due
  <2>3. IdsAreFresh'
    <3>1. (conn \in alive /\ flow["auto"].at # "opened") => nextId' >= FirstId
      BY <1>1, <1>2, <2>1 DEF IdsAreFresh
    <3>2. ASSUME NEW r \in Due', r.kind = "orders"
          PROVE  r.id = 0
      BY <1>2, <1>5, <2>1, <2>2, <3>2 DEF IdsAreFresh
    <3>3. ASSUME NEW r \in Due', r.kind # "orders", ~call'[r.to].early
          PROVE  FirstId <= r.id /\ r.id < nextId' /\ flow["auto"].at # "opened"
      <4>1. CASE r \in Due /\ r \in owed
        <5>1. ~call[r.to].early /\ r.id \in Nat
          BY <1>8, <3>3, <4>1 DEF Debt
        <5>2. FirstId <= r.id /\ r.id < nextId /\ flow["auto"].at # "opened"
          BY <2>1, <3>3, <4>1, <5>1 DEF IdsAreFresh
        <5> QED BY <1>1, <1>2, <5>1, <5>2
      <4>2. CASE r = debt
        <5>1. ~Early(k) /\ k # "orders" /\ conn \in alive
          BY <1>3, <1>5, <1>8, <1>9, <3>3, <4>2 DEF Due
        <5>2. flow["auto"].at # "opened"
          BY <5>1 DEF Early, Flows
        <5>3. id = nextId /\ nextId' = nextId + 1 /\ nextId >= FirstId
          BY <1>2, <2>1, <5>1, <5>2 DEF IdsAreFresh
        <5> QED BY <1>1, <1>5, <4>2, <5>2, <5>3
      <4> QED BY <2>2, <4>1, <4>2
    <3> QED BY <1>9, <3>1, <3>2, <3>3 DEF IdsAreFresh
  \* An older answer with the id of the request, of the same service, crosses it.
  <2>4. \A r \in Due : (r.id = id /\ (r.kind \in Streamed <=> k \in Streamed)) => Hears(c, r.to)'
    <3> SUFFICES ASSUME NEW r \in Due, r.id = id, r.kind \in Streamed <=> k \in Streamed
                 PROVE  r.to \in Crossing(k, id)
      BY <1>3, <1>8 DEF Hears
    <3>1. r \in owed /\ conn \in alive /\ r.sock = conn
      BY DEF Due
    <3>2. (r.kind \in Streamed) = (k \in Streamed)
      OBVIOUS
    <3> QED BY <3>1, <3>2 DEF Crossing
  <2>5. OneAddressee'
    <3>1. ASSUME NEW r \in Due', r.kind \in Streamed, NEW e \in streams', e.id = r.id
          PROVE  Hears(e.caller, r.to)'
      <4>1. CASE r \in Due /\ r \in owed /\ e = stream /\ k \in Streamed
        BY <1>5, <2>4, <3>1, <4>1
      <4>2. CASE r \in Due /\ r \in owed /\ e \in streams
        <5>1. Hears(e.caller, r.to)
          BY <2>1, <3>1, <4>2 DEF OneAddressee, Stream
        <5> QED BY <1>8, <4>2, <5>1 DEF Hears
      <4>3. CASE r = debt
        <5>1. e.caller = c /\ r.to = c
          BY <1>5, <1>6, <3>1, <4>3
        <5> QED BY <5>1 DEF Hears
      <4> QED BY <1>6, <2>2, <4>1, <4>2, <4>3
    <3>2. ASSUME NEW r \in Due', r.kind \notin Streamed,
                 NEW e \in pending', e.gen = generation, e.id = r.id
          PROVE  Hears(e.caller, r.to)'
      <4>1. CASE r \in Due /\ r \in owed /\ e = reg /\ k \notin Streamed
        BY <1>5, <2>4, <3>2, <4>1
      <4>2. CASE r \in Due /\ r \in owed /\ e \in pending
        <5>1. Hears(e.caller, r.to)
          BY <2>1, <3>2, <4>2 DEF OneAddressee, At
        <5> QED BY <1>8, <4>2, <5>1 DEF Hears
      <4>3. CASE r = debt
        <5>1. At(generation, id) = {} /\ r.id = id
          BY <1>5, <1>7, <3>2, <4>3
        <5>2. e \notin pending
          BY <3>2, <5>1 DEF At
        <5>3. e.caller = c /\ r.to = c
          BY <1>5, <1>6, <4>3, <5>2
        <5> QED BY <5>3 DEF Hears
      <4> QED BY <1>6, <2>2, <4>1, <4>2, <4>3
    <3> QED BY <1>9, <3>1, <3>2 DEF OneAddressee, Stream, At
  <2>6. ChannelIsOwn'
    <3> SUFFICES ASSUME NEW d \in Callers, call'[d].at = "waiting", NEW i \in 1..Len(chan[d].buf)
                 PROVE  Hears(d, chan[d].buf[i].to)'
      BY DEF ChannelIsOwn, Waits, Hears
    <3>1. d # c
      BY <1>8, <1>10
    <3> QED BY <1>8, <2>1, <3>1 DEF ChannelIsOwn, Hears, Waits
  <2>7. ASSUME NEW r \in Due', NEW e \in At(generation, r.id)', r.kind \notin Streamed,
               call'[e.caller].crossed = {}
        PROVE  Come(r.to)' + r.left = call'[r.to].size
    <3>1. CASE r \in Due /\ r \in owed
      <4>1. e \in pending' /\ e.gen = generation /\ e.id = r.id /\ r.to # c
        BY <1>8, <1>9, <2>7, <3>1 DEF At
      <4>2. e # reg
        <5>1. SUFFICES ASSUME e = reg
                       PROVE  FALSE
          OBVIOUS
        <5>2. e.caller = c /\ r.id = id /\ e \notin pending
          BY <1>5, <1>8, <4>1, <5>1
        <5>3. k \notin Streamed
          BY <1>6, <4>1, <5>2
        <5>4. Hears(c, r.to)'
          BY <2>4, <2>7, <3>1, <5>2, <5>3
        <5> QED BY <2>7, <4>1, <5>2, <5>4 DEF Hears
      <4>3. e \in pending /\ call[e.caller].crossed = {}
        BY <1>6, <1>8, <2>7, <4>1, <4>2
      <4>4. Come(r.to) + r.left = call[r.to].size
        BY <2>1, <2>7, <3>1, <4>1, <4>3 DEF AnswerIsCounted, At
      <4> QED BY <1>8, <3>1, <4>4 DEF Come
    <3>2. CASE r = debt
      <4>1. Come(c)' = 0 + 0 + 0
        BY <1>3, <1>8, <1>10 DEF Come
      <4> QED BY <1>3, <1>5, <1>8, <3>2, <4>1
    <3> QED BY <2>2, <3>1, <3>2
  <2>8. ASSUME NEW d \in Callers, Waits(d)', chan'[d].closedBy = "end"
        PROVE  /\ call'[d].kind \notin Streamed
               /\ call'[d].crossed = {} => Come(d)' = call'[d].size
    <3>1. d # c
      BY <1>8, <1>10, <2>8
    <3> QED BY <1>8, <2>1, <2>8, <3>1 DEF AnswerIsCounted, Come, Waits
  <2>9. ASSUME NEW d \in Crossing(k, id)
        PROVE  d \in Callers /\ d # c /\ call[d].at # "idle" /\ MayShareId(c, d)'
    <3>1. PICK r \in owed : /\ conn \in alive /\ r.sock = conn /\ r.id = id /\ r.to = d
                            /\ (r.kind \in Streamed) = (k \in Streamed)
      BY DEF Crossing
    <3>2. r \in Due /\ d \in Callers /\ d # c /\ call[d].at # "idle" /\ call'[d] = call[d]
      BY <1>8, <3>1 DEF Due, OwedIsAsked
    <3>3. r.kind = "orders" => call[d].kind = "orders"
      BY <3>1, <3>2 DEF OwedIsAsked
    <3>4. CASE k = "orders"
      <4>1. r.kind = "orders" \/ call[d].early
        BY <1>1, <1>2, <2>1, <3>1, <3>2, <3>4 DEF IdsAreFresh
      <4> QED BY <1>3, <1>8, <3>2, <3>3, <3>4, <4>1 DEF MayShareId
    <3>5. CASE k # "orders" /\ ~Early(k)
      <4>1. flow["auto"].at # "opened" /\ nextId >= FirstId /\ id = nextId
        BY <1>2, <2>1, <3>1, <3>5 DEF Early, Flows, IdsAreFresh
      <4>2. call[d].early
        BY <1>1, <2>1, <3>1, <3>2, <4>1 DEF IdsAreFresh
      <4> QED BY <3>2, <4>2 DEF MayShareId
    <3>6. CASE Early(k)
      BY <1>3, <1>8, <3>2, <3>6 DEF MayShareId
    <3> QED BY <3>2, <3>4, <3>5, <3>6
  <2>10. SharesAreKnown'
    <3>1. ASSUME NEW x \in Callers, NEW d \in call'[x].crossed
          PROVE  call'[d].at # "idle" /\ MayShareId(x, d)'
      <4>1. CASE x = c
        BY <1>3, <1>8, <2>9, <3>1, <4>1
      <4>2. CASE x # c
        <5>1. d \in call[x].crossed /\ d \in Callers /\ call'[x] = call[x]
          BY <1>8, <3>1, <4>2 DEF RequestTypes, Call
        <5>2. call[d].at # "idle" /\ MayShareId(x, d) /\ d # c
          BY <2>1, <5>1 DEF SharesAreKnown
        <5> QED BY <1>8, <5>1, <5>2 DEF MayShareId
      <4> QED BY <4>1, <4>2
    <3>2. ASSUME NEW x \in Callers
          PROVE  /\ \A d \in call'[x].from : Hears(x, d)'
                 /\ (call'[x].result = "ok" /\ call'[x].by = "end" /\ call'[x].short) => call'[x].crossed # {}
      BY <1>3, <1>8, <2>1 DEF SharesAreKnown, Hears
    <3> QED BY <3>1, <3>2 DEF SharesAreKnown
  <2> QED BY <2>3, <2>5, <2>6, <2>7, <2>8, <2>10 DEF AnswerIsCounted
<1> QED BY <1>11, <1>12, <1>13, <1>14, <1>15, <1>16, <1>17

LEMMA AsksKeep ==
  ASSUME RequestInv, RequestTypes', NEW c \in Callers, NEW k \in KindsOf[c], UNCHANGED sessionVars,
         Ask(c, k) \/ AskTwice(c, k)
  PROVE  Asking' /\ Answering'
<1>1. k \in Kinds
  BY RequestAssumption
<1> DEFINE id == IF k = "orders" THEN 0 ELSE nextId
           Goes(n) == [call[c] EXCEPT !.at = "waiting", !.kind = k, !.id = id,
                                      !.gen = generation, !.size = n,
                                      !.crossed = Crossing(k, id), !.early = Early(k)]
           Fails(r) == [call[c] EXCEPT !.at = "done", !.kind = k, !.result = r]
<1>2. call \in [Callers -> Call] /\ call[c] \in Call
  BY DEF RequestInv, RequestTypes
<1>3. CASE AskTwice(c, k)
  <2>1. /\ call[c].at = "idle" /\ nextId' = IdAfter(k) /\ UNCHANGED <<pending, streams, chan, owed>>
        /\ call' = [call EXCEPT ![c].at = "done", ![c].kind = k, ![c].result = "panic"]
    BY <1>3 DEF AskTwice
  <2>2. call' = [call EXCEPT ![c] = Fails("panic")]
    BY <1>2, <2>1
  <2> QED BY <1>1, <2>1, <2>2, AskFails
<1>4. CASE Ask(c, k)
  <2>1. /\ call[c].at = "idle" /\ nextId' = IdAfter(k) /\ chan' = chan
        /\ k \in Streamed \/ At(generation, id) = {}
        /\ Written(c, k, id)
        /\ IF call'[c].at = "done" THEN UNCHANGED <<pending, streams>>
           ELSE IF k \in Streamed THEN Subscribe(id, c) /\ UNCHANGED pending
           ELSE /\ pending' = pending \union {[gen |-> generation, id |-> id, caller |-> c]}
                /\ UNCHANGED streams
    BY <1>4 DEF Ask
  <2>2. \/ \E r \in {"error", "panic"} : call' = [call EXCEPT ![c] = Fails(r)] /\ owed' = owed
        \/ \E n \in 0..MaxAnswers :
             /\ call' = [call EXCEPT ![c] = Goes(n)]
             /\ \/ owed' = owed
                \/ /\ conn \in alive
                   /\ owed' = owed \union {[sock |-> conn, id |-> id, kind |-> k, to |-> c, left |-> n]}
    <3>1. 0 \in 0..MaxAnswers
      BY RequestAssumption
    <3> QED BY <2>1, <3>1 DEF Written
  <2> HIDE DEF id
  <2>3. CASE \E r \in {"error", "panic"} : call' = [call EXCEPT ![c] = Fails(r)] /\ owed' = owed
    <3>1. PICK r \in {"error", "panic"} : call' = [call EXCEPT ![c] = Fails(r)] /\ owed' = owed
      BY <2>3
    <3>2. Fails(r).at = "done"
      BY <1>2 DEF Call
    <3>3. call'[c].at = "done"
      BY <1>2, <3>1, <3>2
    <3> QED BY <1>1, <2>1, <3>1, <3>3, AskFails
  <2>4. ASSUME NEW n \in 0..MaxAnswers, call' = [call EXCEPT ![c] = Goes(n)],
               \/ owed' = owed
               \/ /\ conn \in alive
                  /\ owed' = owed \union {[sock |-> conn, id |-> id, kind |-> k, to |-> c, left |-> n]}
        PROVE  Asking' /\ Answering'
    <3>1. Goes(n).at = "waiting"
      BY <1>2 DEF Call
    <3>2. call'[c].at = "waiting"
      BY <1>2, <2>4, <3>1
    <3>3. id = IF k = "orders" THEN 0 ELSE nextId
      BY DEF id
    <3>4. IF k \in Streamed THEN Subscribe(id, c) /\ pending' = pending
          ELSE pending' = pending \union {[gen |-> generation, id |-> id, caller |-> c]} /\ streams' = streams
      BY <2>1, <3>2
    <3> QED BY <1>1, <2>1, <2>4, <3>3, <3>4, AskGoes
  <2> QED BY <2>2, <2>3, <2>4
<1> QED BY <1>3, <1>4

-----------------------------------------------------------------------------
(* The sessions under the requests *)

\* A step of a request is a step of the session, or leaves it alone.
LEMMA RequestStepsSession ==
  ASSUME RequestNext
  PROVE  [SessionNext]_sessionVars
<1>1. CASE UNCHANGED sessionVars
  BY <1>1
<1>2. ASSUME NEW s \in Sockets, FrameArrives(s) \/ Lose(s)
      PROVE  [SessionNext]_sessionVars
  BY <1>2 DEF FrameArrives, Lose, SessionNext, LoopNext
<1>3. ASSUME NEW f \in Flows, OnDisconnect(f) \/ DrainAll(f) \/ ResetIds(f) \/ SeedIds(f)
      PROVE  [SessionNext]_sessionVars
  BY <1>3 DEF OnDisconnect, DrainAll, ResetIds, SeedIds, SessionNext, FlowNext
<1>4. CASE Silent
  BY <1>4 DEF Silent, SessionNext, LoopNext, FlowNext
<1> QED BY <1>1, <1>2, <1>3, <1>4 DEF RequestNext

\* Past its drain the endpoint replaces a session.
LEMMA LateMove ==
  ASSUME SessionInv, NEW f \in Flows, flow[f].at # "watching", manualCalls' = manualCalls,
         \A g \in Flows : g # f => flow'[g] = flow[g],
         f # "auto" => flow'[f].at \notin {"halted", "clean", "drained"}
  PROVE  ~Replaced' => f = "auto" /\ ~Replaced
<1>1. CASE f = "auto"
  BY <1>1, SameReplaced DEF Flows
<1>2. CASE f = "manual"
  <2>1. manualCalls \in Nat /\ manualCalls # 0
    BY <1>2, ClientAssumption DEF SessionInv, SessionTypeOK, ManualIdle
  <2> QED BY <1>2, <2>1 DEF Replaced
<1> QED BY <1>1, <1>2 DEF Flows

\* How far a flow is after each of its steps, and what that does to the client.
LEMMA FlowFacts ==
  ASSUME SessionInv, NEW f \in Flows, FlowNext(f)
  PROVE  /\ ~Replaced' => ~Replaced
         /\ ~Replaced' /\ f # "auto" => Halt(f) \/ CleanUp(f) \/ Drain(f)
         /\ flow'[f].at = "opened" => Open(f)
         /\ flow'[f].at = "reset" => Reset(f)
         /\ \A g \in Flows : g # f => flow'[g] = flow[g]
<1>1. /\ flow \in [Flows -> [at : Stages, on : 0..MaxGeneration]]
      /\ manualCalls \in Nat
  BY LoopFacts, ClientAssumption DEF SessionInv, SessionTypeOK
<1>2. CASE Halt(f) \/ CleanUp(f) \/ Drain(f)
  <2>1. /\ flow'[f].at \in {"halted", "clean", "drained"}
        /\ \A g \in Flows : g # f => flow'[g] = flow[g]
    BY <1>1, <1>2 DEF Halt, CleanUp, Drain, Moves, Stages
  <2>2. ASSUME Replaced PROVE Replaced'
    <3>1. CASE f = "auto"
      BY <1>1, <1>2, <2>1, <2>2, <3>1, SameReplaced DEF Halt, CleanUp, Drain, Flows
    <3>2. CASE f = "manual" /\ Halt(f)
      BY <1>1, <2>2, <3>2 DEF Halt, Replaced
    <3>3. CASE f = "manual" /\ (CleanUp(f) \/ Drain(f))
      BY <1>1, <2>2, <3>3 DEF CleanUp, Drain, Replaced
    <3> QED BY <1>2, <3>1, <3>2, <3>3 DEF Flows
  <2> QED BY <1>2, <2>1, <2>2
<1>3. CASE Reset(f) \/ Initialise(f) \/ Connect(f) \/ ConnectFails(f)
  <2>1. /\ flow[f].at # "watching" /\ manualCalls' = manualCalls
        /\ \E stage \in Stages :
             /\ Moves(f, stage) /\ stage # "opened"
             /\ stage = "reset" => Reset(f)
             /\ f # "auto" => stage \notin {"halted", "clean", "drained"}
    BY <1>3 DEF Reset, Initialise, Connect, ConnectFails, Stages
  <2>2. /\ flow'[f].at # "opened"
        /\ flow'[f].at = "reset" => Reset(f)
        /\ \A g \in Flows : g # f => flow'[g] = flow[g]
        /\ f # "auto" => flow'[f].at \notin {"halted", "clean", "drained"}
    BY <1>1, <2>1 DEF Moves
  <2> QED BY <2>1, <2>2, LateMove
<1>4. CASE Open(f) \/ Resume(f)
  <2>1. flow[f].at # "watching" /\ manualCalls' = manualCalls
    BY <1>4 DEF Open, Resume
  <2>2. \A g \in Flows : g # f => flow'[g] = flow[g]
    BY <1>1, <1>4 DEF Open, Resume, Moves
  <2>3. /\ flow'[f].at \notin {"reset", "halted", "clean", "drained"}
        /\ flow'[f].at = "opened" => Open(f)
    BY <1>1, <1>4 DEF Open, Resume, Moves
  <2> QED BY <2>1, <2>2, <2>3, LateMove
<1> QED BY <1>2, <1>3, <1>4 DEF FlowNext

\* Connections and generations only grow in number.
LEMMA SessionGrows ==
  ASSUME SessionInv, [SessionNext]_sessionVars
  PROVE  generation \in Nat /\ generation' \in Nat /\ generation <= generation' /\ Sockets \subseteq Sockets'
<1>1. /\ generation \in Nat /\ loop \in Seq(LoopType) /\ Len(loop) \in Nat /\ Sockets = 1..Len(loop)
      /\ conn \in Nat
  BY LoopFacts, ClientAssumption
<1>2. CASE UNCHANGED sessionVars
  BY <1>1, <1>2 DEF sessionVars, Sockets
<1>3. ASSUME NEW s \in Sockets, LoopNext(s)
      PROVE  generation' = generation /\ Len(loop') = Len(loop)
  BY <1>1, <1>3 DEF LoopNext, Drop, ReadFrame, FrameDone, RecoverNilReader, LoopExits
<1>4. ASSUME NEW f \in Flows, FlowNext(f)
      PROVE  generation' \in {generation, generation + 1} /\ Len(loop') \in {Len(loop), Len(loop) + 1}
  <2>1. CASE Open(f)
    BY <1>1, <2>1 DEF Open
  <2>2. CASE Reset(f)
    BY <1>1, <2>2 DEF Reset
  <2>3. CASE ~Open(f) /\ ~Reset(f)
    BY <1>4, <2>3 DEF FlowNext, Halt, CleanUp, Drain, Initialise, Connect, ConnectFails, Close, Resume
  <2> QED BY <2>1, <2>2, <2>3
<1> QED BY <1>1, <1>2, <1>3, <1>4 DEF SessionNext, Sockets

\* A connection that is opened or given up answers nothing yet, or nothing more.
LEMMA NothingDue ==
  ASSUME RequestInv, owed' \subseteq owed, conn' = conn => alive' \subseteq alive,
         conn' # conn => conn' \notin Sockets
  PROVE  Due' \subseteq Due
BY DEF Due, RequestInv, Asking, OwedIsAsked

\* The ids stay fresh while the counter does what it did, and the goroutine of
\* main is no further than before, on a connection that is used.
LEMMA StillFresh ==
  ASSUME IdsAreFresh, UNCHANGED <<call, conn, nextId>>, alive' \subseteq alive, Due' \subseteq Due,
         conn \in alive' => (flow'["auto"].at = "opened" <=> flow["auto"].at = "opened")
  PROVE  IdsAreFresh'
<1>1. ASSUME NEW r \in Due'
      PROVE  r \in Due /\ conn \in alive'
  BY <1>1 DEF Due
<1> QED BY <1>1 DEF IdsAreFresh

\* OnDisconnect closes the channels of all streams.
LEMMA DisconnectKeeps ==
  ASSUME RequestInv, RequestTypes', NEW f \in Flows, OnDisconnect(f)
  PROVE  Asking' /\ Answering'
<1>1. /\ streams' = {} /\ UNCHANGED <<nextId, pending, call, owed>>
      /\ CleanUp(f)
      /\ chan' = [c \in Callers |->
                    IF \E e \in streams : e.caller = c THEN [chan[c] EXCEPT !.closedBy = "drain"] ELSE chan[c]]
  BY DEF OnDisconnect, CloseStreams
<1>2. /\ \A c \in Callers :
           /\ chan'[c].buf = chan[c].buf /\ chan'[c].dropped = chan[c].dropped
           /\ (\E e \in streams : e.caller = c) => chan'[c].closedBy = "drain"
           /\ ~(\E e \in streams : e.caller = c) => chan'[c] = chan[c]
  BY <1>1, CloseFacts DEF RequestInv
<1>3. ASSUME NEW c \in Callers
      PROVE  Same(c)
  <2>1. CASE \E e \in streams : e.caller = c
    <3>1. Waits(c) /\ call[c].kind \in Streamed
      BY <2>1 DEF RequestInv, Asking, StreamIsAsked
    <3>2. \A e \in pending : e.caller # c
      BY <3>1 DEF RequestInv, Asking, PendingIsAsked, Waits
    <3> QED BY <1>1, <1>2, <2>1, <3>1, <3>2 DEF Same, Waits
  <2>2. CASE ~\E e \in streams : e.caller = c
    BY <1>1, <1>2, <2>2 DEF Same
  <2> QED BY <2>1, <2>2
<1>4. /\ generation' = generation /\ conn' = conn /\ alive' = alive
      /\ flow'[f].at = "clean" /\ Sockets' = Sockets /\ generation \in Nat /\ Due' = Due
  BY <1>1, LoopFacts, ClientAssumption DEF CleanUp, Moves, Sockets, Due, RequestInv
<1>6. Quieter
  BY <1>1, FlowFacts DEF Quieter, FlowNext, RequestInv
<1>5. ~Replaced' => IdsAreFresh'
  <2>1. flow'["auto"].at = flow["auto"].at \/ (flow'["auto"].at = "clean" /\ flow["auto"].at = "halted")
    BY <1>1, <1>4, FlowFacts DEF FlowNext, RequestInv, Flows, CleanUp
  <2> QED BY <1>1, <1>4, <1>6, <2>1, StillFresh DEF Quieter, RequestInv, Answering
<1> QED BY <1>1, <1>3, <1>4, <1>5, <1>6, Elsewhere

\* DrainAll closes what is registered in the current dispatcher.
LEMMA DrainKeeps ==
  ASSUME RequestInv, RequestTypes', NEW f \in Flows, DrainAll(f)
  PROVE  Asking' /\ Answering'
<1> DEFINE G == {e \in pending : e.gen = generation}
<1>1. /\ pending' = pending \ G /\ UNCHANGED <<nextId, streams, call, owed>>
      /\ Drain(f)
      /\ chan' = [c \in Callers |->
                    IF \E e \in G : e.caller = c THEN [chan[c] EXCEPT !.closedBy = "drain"] ELSE chan[c]]
  BY DEF DrainAll, CloseAll
<1>2. /\ \A c \in Callers :
           /\ chan'[c].buf = chan[c].buf /\ chan'[c].dropped = chan[c].dropped
           /\ (\E e \in G : e.caller = c) => chan'[c].closedBy = "drain"
           /\ ~(\E e \in G : e.caller = c) => chan'[c] = chan[c]
  BY <1>1, CloseFacts DEF RequestInv
<1>3. /\ generation' = generation /\ conn' = conn
      /\ alive' = alive \ {conn} /\ Sockets' = Sockets /\ generation \in Nat /\ Due' = {}
  BY <1>1, LoopFacts, ClientAssumption DEF Drain, Sockets, Due, RequestInv
<1>4. ASSUME NEW c \in Callers
      PROVE  Same(c)
  <2>1. CASE \E e \in G : e.caller = c
    <3>1. Waits(c) /\ call[c].gen = generation
      BY <1>3, <2>1 DEF RequestInv, Asking, PendingIsAsked, Waits
    <3>2. \A e \in pending' : e.caller # c
      BY <1>1, <3>1 DEF RequestInv, Asking, PendingIsAsked, Waits
    <3> QED BY <1>1, <1>2, <2>1, <3>1, <3>2 DEF Same, Waits
  <2>2. CASE ~\E e \in G : e.caller = c
    BY <1>1, <1>2, <2>2 DEF Same
  <2> QED BY <2>1, <2>2
<1>5. ~Replaced' => IdsAreFresh'
  BY <1>3 DEF IdsAreFresh
<1>6. Quieter
  BY <1>1, FlowFacts DEF Quieter, FlowNext, RequestInv
<1> QED BY <1>1, <1>3, <1>4, <1>5, <1>6, Elsewhere

\* What happens to a connection, and to the counter, under the callers.
LEMMA ConnectionKeeps ==
  ASSUME RequestInv, RequestTypes',
         \/ \E s \in Sockets : Lose(s)
         \/ \E f \in Flows : ResetIds(f) \/ SeedIds(f)
         \/ Silent
  PROVE  Asking' /\ Answering'
<1>1. UNCHANGED <<pending, streams, chan, call>> /\ owed' \subseteq owed
  BY DEF Lose, ResetIds, SeedIds, Silent, requestVars
<1>2. \A c \in Callers : Same(c)
  BY <1>1 DEF Same
<1>3. [SessionNext]_sessionVars /\ SessionInv
  BY RequestStepsSession DEF RequestNext, RequestInv
<1>4. generation \in Nat /\ generation' \in Nat /\ generation <= generation' /\ Sockets \subseteq Sockets'
  BY <1>3, SessionGrows
<1>5. Nil \notin Sockets /\ FirstId \in Nat /\ conn \in Nat /\ flow \in [Flows -> [at : Stages, on : 0..MaxGeneration]]
  BY <1>3, LoopFacts, RequestAssumption
<1>6. \A r \in Due : r \in owed /\ r.sock \in Sockets /\ r.sock = conn
  BY DEF Due, RequestInv, Asking, OwedIsAsked
<1>7. ASSUME Due' \subseteq Due, Due' # {} => generation' = generation,
             ~Replaced' => ~Replaced /\ IdsAreFresh'
      PROVE  Asking' /\ Answering'
  BY <1>1, <1>2, <1>4, <1>7, Elsewhere DEF Quieter
<1>8. CASE \E s \in Sockets : Lose(s) \/ (LoopExits(s) /\ UNCHANGED requestVars)
  <2>1. /\ generation' = generation /\ conn' = conn /\ alive' \subseteq alive /\ Replaced' = Replaced
        /\ flow' = flow /\ nextId' = nextId
    BY <1>8 DEF Replaced, LoopExits, Lose, Drop, requestVars
  <2>2. Due' \subseteq Due
    BY <1>1, <2>1, NothingDue
  <2>3. ~Replaced' => IdsAreFresh'
    BY <1>1, <2>1, <2>2, StillFresh DEF RequestInv, Answering
  <2> QED BY <1>7, <2>1, <2>2, <2>3
<1>9. ASSUME NEW f \in Flows, ResetIds(f) \/ (Open(f) /\ UNCHANGED requestVars)
      PROVE  Asking' /\ Answering'
  <2>1. conn' \notin Sockets
    BY <1>5, <1>9 DEF ResetIds, Reset, Open, Sockets
  <2>2. Due' = {}
    BY <1>1, <1>6, <2>1 DEF Due, RequestInv, Asking, OwedIsAsked
  <2>3. FlowNext(f)
    BY <1>9 DEF ResetIds, FlowNext
  <2>4. ~Replaced' => ~Replaced
    BY <1>3, <2>3, FlowFacts
  <2>5. ASSUME ~Replaced', conn' \in alive'
        PROVE  flow'["auto"].at = "opened"
    <3>1. CASE ResetIds(f)
      <4>1. conn' = Nil /\ alive' = alive
        BY <3>1 DEF ResetIds, Reset
      <4> QED BY <1>3, <1>5, <2>5, <4>1 DEF SessionInv, SessionTypeOK
    <3>2. CASE Open(f)
      <4>1. f = "auto"
        BY <1>3, <2>3, <2>5, <3>2, FlowFacts DEF Open, Halt, CleanUp, Drain
      <4> QED BY <1>5, <3>2, <4>1 DEF Open, Flows
    <3> QED BY <1>9, <3>1, <3>2
  <2> QED BY <1>7, <2>2, <2>4, <2>5 DEF IdsAreFresh
<1>10. ASSUME NEW f \in Flows,
              SeedIds(f) \/ ((Halt(f) \/ Connect(f) \/ ConnectFails(f) \/ Resume(f)) /\ UNCHANGED requestVars)
       PROVE  Asking' /\ Answering'
  <2>1. /\ generation' = generation /\ conn' = conn /\ alive' \subseteq alive
        /\ FlowNext(f) /\ ~Open(f)
        /\ \/ nextId' = nextId /\ (flow[f].at = "opened" => conn \notin alive')
           \/ nextId' = FirstId /\ flow[f].at = "opened"
    BY <1>10 DEF SeedIds, FlowNext, Halt, Initialise, Connect, ConnectFails, Close, Resume, Open, requestVars
  <2>2. Due' \subseteq Due
    BY <1>1, <2>1, NothingDue
  <2>3. /\ ~Replaced' => ~Replaced
        /\ ~Replaced' /\ f # "auto" => Halt(f) \/ CleanUp(f) \/ Drain(f)
        /\ flow'[f].at # "opened" /\ \A g \in Flows : g # f => flow'[g] = flow[g]
    BY <1>3, <2>1, FlowFacts
  <2>4. ASSUME ~Replaced'
        PROVE  IdsAreFresh'
    <3>1. /\ IdsAreFresh /\ \A r \in Due' : r \in Due
          /\ flow["auto"].at # "opened" => flow'["auto"].at # "opened"
      BY <2>2, <2>3, <2>4 DEF RequestInv, Answering, Flows
    <3>2. CASE nextId' = nextId /\ (flow[f].at = "opened" => conn \notin alive')
      <4>1. conn \in alive' => (flow'["auto"].at = "opened" <=> flow["auto"].at = "opened")
        BY <2>3, <3>1, <3>2 DEF Flows
      <4> QED BY <1>1, <2>1, <2>2, <3>1, <3>2, <4>1, StillFresh
    <3>3. CASE nextId' = FirstId /\ flow[f].at = "opened"
      <4>1. f = "auto"
        BY <2>3, <2>4, <3>3 DEF Halt, CleanUp, Drain
      <4> QED BY <1>1, <1>5, <3>1, <3>3, <4>1 DEF IdsAreFresh
    <3> QED BY <2>1, <3>2, <3>3
  <2> QED BY <1>7, <2>1, <2>2, <2>3, <2>4
<1> QED BY <1>8, <1>9, <1>10 DEF Silent

-----------------------------------------------------------------------------
(* The invariant *)

\* Only the caller that asks changes, and it is idle no more.
LEMMA AskCall ==
  ASSUME SessionInv, RequestTypes, NEW c \in Callers, NEW k \in KindsOf[c], Ask(c, k) \/ AskTwice(c, k)
  PROVE  \E x \in Call : x.at # "idle" /\ call' = [call EXCEPT ![c] = x]
<1> DEFINE id == IF k = "orders" THEN 0 ELSE nextId
           Goes(n) == [call[c] EXCEPT !.at = "waiting", !.kind = k, !.id = id, !.gen = generation, !.size = n,
                                      !.crossed = Crossing(k, id), !.early = Early(k)]
           Fails(r) == [call[c] EXCEPT !.at = "done", !.kind = k, !.result = r]
<1>1. /\ call \in [Callers -> Call] /\ call[c] \in Call /\ generation \in 0..MaxGeneration
      /\ k \in Kinds /\ id \in Nat /\ 0 \in 0..MaxAnswers
  BY LoopFacts, RequestAssumption DEF RequestTypes
<1>2. \A n \in 0..MaxAnswers : Goes(n) \in Call /\ Goes(n).at = "waiting"
  <2>1. Crossing(k, id) \in SUBSET Callers /\ Early(k) \in BOOLEAN
    BY DEF Crossing, Early, RequestTypes, Debt
  <2> HIDE DEF id
  <2> QED BY <1>1, <2>1 DEF Call
<1>3. \A r \in {"error", "panic"} : Fails(r) \in Call /\ Fails(r).at = "done"
  BY <1>1 DEF Call
<1>4. CASE AskTwice(c, k)
  <2>1. call' = [call EXCEPT ![c].at = "done", ![c].kind = k, ![c].result = "panic"]
    BY <1>4 DEF AskTwice
  <2>2. call' = [call EXCEPT ![c] = Fails("panic")]
    BY <1>1, <2>1
  <2> QED BY <1>3, <2>2
<1>5. CASE Ask(c, k)
  <2>1. \/ \E n \in 0..MaxAnswers : call' = [call EXCEPT ![c] = Goes(n)]
        \/ \E r \in {"error", "panic"} : call' = [call EXCEPT ![c] = Fails(r)]
    BY <1>1, <1>5 DEF Ask, Written
  <2> HIDE DEF Goes, Fails
  <2> QED BY <1>2, <1>3, <2>1
<1> QED BY <1>4, <1>5

LEMMA ReturnCall ==
  ASSUME RequestTypes, NEW c \in Callers, ReturnAnswer(c) \/ ReturnError(c) \/ ReturnClosed(c) \/ GiveUp(c)
  PROVE  \E result \in {"ok", "error"}, from \in SUBSET Callers : \E more : Return(c, result, more, from)
<1>1. CASE ReturnAnswer(c) \/ ReturnError(c)
  <2>1. chan[c].buf # <<>>
    BY <1>1 DEF ReturnAnswer, ReturnError
  <2>2. {Head(chan[c].buf).to} \in SUBSET Callers
    BY <2>1, HeadFacts DEF Message
  <2>3. \E result \in {"ok", "error"} : \E more : Return(c, result, more, {Head(chan[c].buf).to})
    BY <1>1 DEF ReturnAnswer, ReturnError
  <2> QED BY <2>2, <2>3
<1>3. CASE ReturnClosed(c)
  BY <1>3 DEF ReturnClosed
<1>4. CASE GiveUp(c)
  BY <1>4 DEF GiveUp
<1> QED BY <1>1, <1>3, <1>4

\* A caller's step keeps the types.
LEMMA CallerTypes ==
  ASSUME SessionInv, RequestTypes, NEW c \in Callers, CallerNext(c)
  PROVE  RequestTypes'
<1>1. /\ call \in [Callers -> Call] /\ call[c] \in Call /\ nextId \in Nat
      /\ generation \in 0..MaxGeneration /\ conn \in Nat
  BY LoopFacts DEF RequestTypes
<1>2. ASSUME NEW k \in KindsOf[c], Ask(c, k) \/ AskTwice(c, k)
      PROVE  RequestTypes'
  <2> DEFINE id == IF k = "orders" THEN 0 ELSE nextId
  <2>1. k \in Kinds /\ id \in Nat /\ IdAfter(k) \in Nat /\ 0 \in 0..MaxAnswers
    BY <1>1, RequestAssumption DEF IdAfter
  <2>2. /\ \A n \in 0..MaxAnswers : [sock |-> conn, id |-> id, kind |-> k, to |-> c, left |-> n] \in Debt
        /\ [gen |-> generation, id |-> id, caller |-> c] \in Registration
        /\ [id |-> id, caller |-> c, bars |-> 0] \in OneStream
    BY <1>1, <2>1 DEF Debt, Registration, OneStream
  <2> HIDE DEF id
  <2>3. nextId' \in Nat /\ chan' = chan
    BY <1>2, <2>1 DEF Ask, AskTwice
  <2>4. pending' \subseteq Registration /\ streams' \subseteq OneStream
    BY <1>2, <2>2 DEF Ask, AskTwice, Subscribe, RequestTypes, id
  <2>5. owed' \subseteq Debt
    <3>1. \/ owed' = owed
          \/ \E n \in 0..MaxAnswers :
               owed' = owed \union {[sock |-> conn, id |-> id, kind |-> k, to |-> c, left |-> n]}
      <4>1. CASE AskTwice(c, k)
        BY <4>1 DEF AskTwice
      <4>2. CASE Ask(c, k)
        BY <4>2 DEF Ask, Written, id
      <4> QED BY <1>2, <4>1, <4>2
    <3> QED BY <2>2, <3>1 DEF RequestTypes
  <2>6. call' \in [Callers -> Call]
    BY <1>1, <1>2, AskCall
  <2> QED BY <2>3, <2>4, <2>5, <2>6 DEF RequestTypes
<1>3. CASE Receive(c)
  BY <1>3, ReceiveFacts
<1>4. CASE ReturnAnswer(c) \/ ReturnError(c) \/ ReturnClosed(c) \/ GiveUp(c)
  BY <1>4, ReturnCall, ReturnFacts
<1> QED BY <1>2, <1>3, <1>4 DEF CallerNext

\* Every step keeps the types.
LEMMA StepTypes ==
  ASSUME SessionInv, RequestTypes, [RequestNext]_<<sessionVars, requestVars>>
  PROVE  RequestTypes'
<1>1. CASE UNCHANGED requestVars
  BY <1>1 DEF requestVars, RequestTypes
<1>2. ASSUME NEW c \in Callers, CallerNext(c)
      PROVE  RequestTypes'
  BY <1>2, CallerTypes
<1>3. ASSUME NEW s \in Sockets, FrameArrives(s)
      PROVE  RequestTypes'
  BY <1>3, FrameTypes DEF FrameArrives
<1>4. ASSUME NEW s \in Sockets, Lose(s)
      PROVE  RequestTypes'
  BY <1>4 DEF Lose, RequestTypes
<1>5. ASSUME NEW f \in Flows, OnDisconnect(f) \/ DrainAll(f)
      PROVE  RequestTypes'
  <2>1. /\ UNCHANGED <<nextId, call, owed>> /\ pending' \subseteq pending /\ streams' \subseteq streams
        /\ CloseStreams(streams, "drain") \/ CloseAll({e \in pending : e.gen = generation}, "drain")
    BY <1>5 DEF OnDisconnect, DrainAll, CloseStreams, CloseAll
  <2>2. chan' \in [Callers -> Channel]
    BY <2>1, CloseFacts DEF CloseStreams, CloseAll
  <2> QED BY <2>1, <2>2 DEF RequestTypes
<1>6. ASSUME NEW f \in Flows, ResetIds(f) \/ SeedIds(f)
      PROVE  RequestTypes'
  BY <1>6, RequestAssumption DEF ResetIds, SeedIds, RequestTypes
<1> QED BY <1>1, <1>2, <1>3, <1>4, <1>5, <1>6 DEF RequestNext, Silent

\* Nobody has asked.
LEMMA InitIsFresh ==
  ASSUME SessionInit, RequestInit
  PROVE  RequestInv
<1>1. SessionInv
  BY InitIsOne
<1>2. /\ nextId \in Nat /\ pending = {} /\ streams = {} /\ owed = {} /\ Due = {}
      /\ At(generation, 0) = {} /\ NoChannel \in Channel
  BY RequestAssumption DEF RequestInit, Due, At, NoChannel, Channel
<1>3. NoCall \in Call
  BY RequestAssumption, ClientAssumption DEF NoCall, Call
<1>4. RequestTypes
  BY <1>2, <1>3 DEF RequestInit, RequestTypes
<1>5. \A c \in Callers : call[c].at = "idle" /\ call[c].kind = "none" /\ call[c].got = 0 /\ call[c].result = "none"
                         /\ call[c].from = {} /\ call[c].crossed = {} /\ chan[c] = NoChannel
  BY DEF RequestInit, NoCall
<1>6. Asking
  BY <1>2, <1>5 DEF Asking, IdleIsFresh, PendingIsAsked, StreamIsAsked, OwedIsAsked, ClosedIsGone,
                    StreamsHaveBars, Waits
<1>7. Answering
  BY <1>2, <1>5, RequestAssumption
     DEF Answering, IdsAreFresh, OneAddressee, ChannelIsOwn, AnswerIsCounted, SharesAreKnown, Waits, RequestInit
<1> QED BY <1>1, <1>4, <1>6, <1>7 DEF RequestInv

\* Every step keeps the invariant.
LEMMA StepKeepsRequests ==
  ASSUME RequestInv, [RequestNext]_<<sessionVars, requestVars>>
  PROVE  RequestInv'
<1>1. SessionInv'
  BY RequestStepsSession, StepKeepsSession DEF RequestInv
<1>2. RequestTypes'
  BY StepTypes DEF RequestInv
<1>3. CASE UNCHANGED <<sessionVars, requestVars>>
  <2>1. \A c \in Callers : Same(c)
    BY <1>3 DEF requestVars, Same
  <2>2. /\ pending' = pending /\ streams' = streams /\ owed' = owed /\ nextId' = nextId
        /\ generation' = generation /\ Sockets' = Sockets /\ flow' = flow /\ Replaced' = Replaced
        /\ Due' = Due /\ call' = call /\ conn' = conn /\ alive' = alive
    BY <1>3 DEF Replaced, requestVars, sessionVars, Sockets, Due
  <2>3. generation \in Nat
    BY LoopFacts, ClientAssumption DEF RequestInv
  <2>4. Quieter /\ (~Replaced' => IdsAreFresh')
    BY <2>2 DEF Quieter, IdsAreFresh, RequestInv, Answering
  <2> QED BY <1>1, <1>2, <2>1, <2>2, <2>3, <2>4, Elsewhere DEF RequestInv
<1>4. ASSUME NEW c \in Callers, CallerNext(c), UNCHANGED sessionVars
      PROVE  RequestInv'
  <2>1. Asking' /\ Answering'
    BY <1>2, <1>4, AsksKeep, ReceiveKeeps, ReturnsKeep DEF CallerNext
  <2> QED BY <1>1, <1>2, <2>1 DEF RequestInv
<1>5. ASSUME NEW s \in Sockets, FrameArrives(s)
      PROVE  RequestInv'
  BY <1>1, <1>5, FrameKeeps DEF RequestInv
<1>6. ASSUME NEW f \in Flows, OnDisconnect(f) \/ DrainAll(f)
      PROVE  RequestInv'
  BY <1>1, <1>2, <1>6, DisconnectKeeps, DrainKeeps DEF RequestInv
<1>7. CASE (\E s \in Sockets : Lose(s)) \/ (\E f \in Flows : ResetIds(f) \/ SeedIds(f)) \/ Silent
  BY <1>1, <1>2, <1>7, ConnectionKeeps DEF RequestInv
<1> QED BY <1>3, <1>4, <1>5, <1>6, <1>7 DEF RequestNext

-----------------------------------------------------------------------------
(* The theorems *)

\* The types and the sessions do not depend on the ids.
LEMMA TypesInvariant == RequestSpec => [](SessionInv /\ RequestTypes)
<1>1. SessionInit /\ RequestInit => SessionInv /\ RequestTypes
  BY InitIsFresh DEF RequestInv
<1>2. SessionInv /\ RequestTypes /\ [RequestNext]_<<sessionVars, requestVars>> => (SessionInv /\ RequestTypes)'
  <2>1. ASSUME [RequestNext]_<<sessionVars, requestVars>> PROVE [SessionNext]_sessionVars
    BY <2>1, RequestStepsSession
  <2> QED BY <2>1, StepKeepsSession, StepTypes
<1> QED BY <1>1, <1>2, PTL DEF RequestSpec

\* With the requests on top, that dispatch answers from the read loops and reset
\* and seed the ids between the steps of the flows, the sessions still do
\* nothing to the gate that TradingGate does not.
THEOREM RequestsRefineGate == RequestSpec => GateRefined
<1>1. SessionInit => Gate!GateInit
  BY InitIsGate
<1>2. SessionInv /\ [RequestNext]_<<sessionVars, requestVars>> => [Gate!GateNext]_(Gate!gateVars)
  <2>1. ASSUME [RequestNext]_<<sessionVars, requestVars>> PROVE [SessionNext]_sessionVars
    BY <2>1, RequestStepsSession
  <2> QED BY <2>1, StepIsGate
<1> QED BY <1>1, <1>2, TypesInvariant, PTL DEF RequestSpec, GateRefined, Gate!GateSpec

\* Requests, registrations, streams, channels and debts keep their types.
THEOREM RequestTypeCorrect == RequestSpec => []RequestTypeOK
<1>1. SessionInv /\ RequestTypes => RequestTypeOK
  <2> SUFFICES ASSUME RequestTypes PROVE RequestTypeOK
    OBVIOUS
  <2>1. ASSUME NEW c \in Callers
        PROVE  /\ \A i \in DOMAIN chan[c].buf :
                    chan[c].buf[i] \in [what : {"item", "error", "bars"}, to : Callers, n : Nat]
               /\ chan[c].closedBy \in {"nobody", "end", "drain", "other"} /\ chan[c].dropped \in Nat
               /\ call[c].at \in {"idle", "waiting", "done"}
               /\ call[c].result \in {"none", "ok", "error", "panic"}
               /\ call[c].from \subseteq Callers
    <3>1. call[c] \in Call /\ chan[c] \in Channel /\ chan[c].buf \in Seq(Message)
      BY CallerFacts
    <3>2. \A i \in DOMAIN chan[c].buf : chan[c].buf[i] \in Message
      BY <3>1
    <3> QED BY <3>1, <3>2 DEF Message, Call, Channel
  <2> QED BY <2>1 DEF RequestTypes, RequestTypeOK, Registration, OneStream, Debt
<1> QED BY <1>1, TypesInvariant, PTL

LEMMA RequestInvariant == RequestSpec => []RequestInv
<1>1. SessionInit /\ RequestInit => RequestInv
  BY InitIsFresh
<1>2. RequestInv /\ [RequestNext]_<<sessionVars, requestVars>> => RequestInv'
  BY StepKeepsRequests
<1> QED BY <1>1, <1>2, PTL DEF RequestSpec

\* Until the endpoint replaces a session no caller receives the answer to
\* another's request, unless both list the open orders under the id 0 or one of
\* them took its id before the counter was seeded: not after a lost session, not
\* after a timeout, and not when a later session hands out the same id again.
THEOREM AnswersAreOwn == RequestSpec => []OwnAnswers
<1>1. RequestInv => OwnAnswers
  <2> SUFFICES ASSUME RequestInv, ~Replaced, NEW c \in Callers, NEW d \in call[c].from \ {c}
               PROVE  MayShareId(c, d)
    BY DEF OwnAnswers
  <2>1. SharesAreKnown
    BY DEF RequestInv, Answering
  <2> QED BY <2>1 DEF SharesAreKnown, Hears
<1> QED BY <1>1, RequestInvariant, PTL

\* A request that its end marker ended, ListOrders too, has every item of its
\* answer which the channel did not drop; unless the gateway still owed an answer
\* to a request with which it may share an id when it was made.
THEOREM EndedAnswerIsWhole == RequestSpec => []EndMeansWhole
<1>1. RequestInv => EndMeansWhole
  <2> SUFFICES ASSUME RequestInv, ~Replaced, NEW c \in Callers,
                      call[c].result = "ok", call[c].by = "end", call[c].short
               PROVE  \E d \in call[c].crossed : MayShareId(c, d)
    BY DEF EndMeansWhole
  <2>1. SharesAreKnown
    BY DEF RequestInv, Answering
  <2> QED BY <2>1 DEF SharesAreKnown
<1> QED BY <1>1, RequestInvariant, PTL

=============================================================================
