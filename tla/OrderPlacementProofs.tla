------------------------ MODULE OrderPlacementProofs ------------------------
(***************************************************************************)
(* Proofs about OrderPlacement: its types, that the gateway never works an *)
(* entry before it has all its exits, and that a refused order does not    *)
(* stay there, wherever the connection breaks and in whatever order the    *)
(* messages of the legs arrive.                                            *)
(***************************************************************************)
EXTENDS OrderPlacement, TLAPS

NothingLive == \A l \in Legs : atGateway[l] \notin Live
HasLeg(q, leg) == \E i \in DOMAIN q : q[i].leg = leg

\* Nothing was sent before the contract is known.
Fresh ==
  placing.at \in {"none", "gate", "resolving"} =>
    /\ placing.sent = 0 /\ placing.answer = "none"
    /\ toGateway = <<>>
    /\ \A l \in Legs : atGateway[l] = "none"

\* How many legs there are and how many of them were sent.
Counted ==
  /\ Len(placing.legs) <= 3
  /\ placing.sent <= Len(placing.legs)
  /\ placing.at \in {"gate", "resolving", "sending"} => placing.sent < Len(placing.legs)

\* An answer is given at the end.
Answered ==
  /\ placing.answer \in {"error", "forbidden"} => placing.at = "answered"
  /\ placing.at = "saving" => placing.answer \in {"submitted", "unconfirmed"}
  /\ placing.answer # "none" => placing.at \in {"saving", "answered"}

\* A lost connection carries nothing.
Unlinked == ~linked => toGateway = <<>>

\* While the connection holds, what was sent has arrived or is carried.
SentArrives ==
  linked => \A j \in 1..placing.sent :
    atGateway[placing.legs[j]] # "none" \/ HasLeg(toGateway, placing.legs[j])

\* Before a leg that transmits the group, every other leg has arrived or is
\* carried in front of it.
GroupFirst ==
  \A i \in DOMAIN toGateway :
    (toGateway[i].leg # "cancel" /\ toGateway[i].transmit) =>
      \A j \in DOMAIN placing.legs :
        \/ atGateway[placing.legs[j]] # "none"
        \/ \E k \in 1..i : toGateway[k].leg = placing.legs[j]

\* An exit does not live without its entry.
Orphans == atGateway["entry"] \notin Live \union {"filled"} => NothingLive

\* A cancel is the last word on the wire.
CancelIsLast ==
  \A i \in DOMAIN toGateway : toGateway[i].leg = "cancel" =>
    /\ placing.at = "answered"
    /\ \A j \in DOMAIN toGateway : j > i => toGateway[j].leg = "cancel"

\* What was refused is being cancelled, or there is nothing left to cancel.
Withdrawn ==
  (placing.answer \in {"error", "forbidden"} /\ linked) =>
    \/ HasLeg(toGateway, "cancel")
    \/ toGateway = <<>> /\ (atGateway["entry"] = "filled" \/ NothingLive)

\* The inductive invariant.
PlacementInv ==
  /\ PlacementTypeOK
  /\ Fresh /\ Counted /\ Answered /\ Unlinked
  /\ SentArrives /\ GroupFirst /\ NoNakedEntry
  /\ Orphans /\ CancelIsLast /\ Withdrawn

-----------------------------------------------------------------------------
(* The steps *)

\* The first state satisfies the invariant.
LEMMA InitIsPlaced ==
  ASSUME PlacementInit
  PROVE  PlacementInv
BY DeskAssumption DEF PlacementInit, PlacementInv, PlacementTypeOK, Requests, Fresh, Counted, Answered, Unlinked,
   SentArrives, GroupFirst, NoNakedEntry, Orphans, CancelIsLast, Withdrawn, Legs, Live, NothingLive

\* A step that touches neither the legs nor what is sent and kept of them.
LEMMA StillStep ==
  ASSUME PlacementInv, PlacementTypeOK', Fresh', Counted', Answered',
         linked' = linked, toGateway' = toGateway, atGateway' = atGateway,
         placing'.legs = placing.legs, placing'.sent = placing.sent,
         placing.at = "answered" => placing'.at = "answered",
         placing'.answer \in {"error", "forbidden"} =>
           placing.answer \in {"error", "forbidden"} \/ placing.at \in {"none", "gate", "resolving"}
  PROVE  PlacementInv'
<1>1. SentArrives' /\ GroupFirst' /\ NoNakedEntry' /\ Orphans' /\ Unlinked'
  BY DEF PlacementInv, SentArrives, GroupFirst, NoNakedEntry, Orphans, Unlinked, HasLeg, NothingLive
<1>2. CancelIsLast'
  BY DEF PlacementInv, CancelIsLast
<1>3. Withdrawn'
  BY DEF PlacementInv, Withdrawn, Fresh, HasLeg, NothingLive, Live
<1> QED BY <1>1, <1>2, <1>3 DEF PlacementInv

\* The completed channels are typed.
LEMMA ReturnsIsTyped ==
  ASSUME Returns
  PROVE  /\ legChan' \in [Legs -> Seq({"status", "error"})]
         /\ aggCh' \in Seq(Legs \X {"status", "error"})
<1>1. <<>> \in Seq({"status", "error"}) /\ <<>> \in Seq(Legs \X {"status", "error"})
  OBVIOUS
<1> QED BY <1>1 DEF Returns

\* A request that was placed is typed.
LEMMA PlacedIsTyped ==
  ASSUME placing \in Requests, NEW a \in {"submitted", "unconfirmed"}, Placed(a)
  PROVE  placing' \in Requests
BY DEF Placed, Requests

\* The operator, the request and the goroutines of the legs.
LEMMA QuietSteps ==
  ASSUME PlacementInv,
         \/ SwitchDeskMode \/ PassGate \/ ResolveContract \/ Unconfirmed \/ SaveOrder
         \/ CloseGate \/ \E l \in Legs : Aggregate(l)
  PROVE  PlacementInv'
<1>1. CASE SwitchDeskMode
  BY <1>1, StillStep DEF SwitchDeskMode, PlacementInv, PlacementTypeOK, Requests, Fresh, Counted, Answered
<1>2. CASE PassGate
  BY <1>2, StillStep DEF PassGate, Answers, PlacementInv, PlacementTypeOK, Requests, Fresh, Counted, Answered
<1>3. CASE ResolveContract
  BY <1>3, StillStep DEF ResolveContract, Answers, PlacementInv, PlacementTypeOK, Requests, Fresh, Counted, Answered
<1>4. CASE Unconfirmed
  <2>1. PlacementTypeOK'
    BY <1>4, ReturnsIsTyped, PlacedIsTyped DEF Unconfirmed, PlacementInv, PlacementTypeOK
  <2>2. Fresh' /\ Counted' /\ Answered'
    BY <1>4 DEF Unconfirmed, Placed, PlacementInv, PlacementTypeOK, Requests, Fresh, Counted, Answered
  <2>3. /\ placing'.legs = placing.legs /\ placing'.sent = placing.sent
        /\ placing'.answer = "unconfirmed" /\ placing.at = "waiting"
    BY <1>4 DEF Unconfirmed, Placed, PlacementInv, PlacementTypeOK, Requests
  <2> QED BY <1>4, <2>1, <2>2, <2>3, StillStep DEF Unconfirmed
<1>5. CASE SaveOrder
  BY <1>5, StillStep DEF SaveOrder, PlacementInv, PlacementTypeOK, Requests, Fresh, Counted, Answered
<1>6. CASE CloseGate
  BY <1>6, StillStep DEF CloseGate, PlacementInv, PlacementTypeOK, Requests, Fresh, Counted, Answered
<1>7. ASSUME NEW l \in Legs, Aggregate(l)
      PROVE  PlacementInv'
  <2>1. PlacementTypeOK'
    BY <1>7 DEF Aggregate, PlacementInv, PlacementTypeOK
  <2> QED BY <1>7, <2>1, StillStep DEF Aggregate, PlacementInv, Fresh, Counted, Answered
<1> QED BY <1>1, <1>2, <1>3, <1>4, <1>5, <1>6, <1>7

\* An order is asked for.
LEMMA OrderSteps ==
  ASSUME PlacementInv, HandleOrder \/ ManagedOrder
  PROVE  PlacementInv'
<1>1. placing.at = "none" /\ placing.sent = 0 /\ toGateway = <<>> /\ placing.answer = "none"
      /\ \A l \in Legs : atGateway[l] = "none"
  BY DEF HandleOrder, ManagedOrder, PlacementInv, Fresh
<1>2. \A take, stop, eurexOption \in BOOLEAN :
        /\ LegsOf(take, stop, eurexOption) \in Seq(Legs)
        /\ Len(LegsOf(take, stop, eurexOption)) \in 1..3
  <2> SUFFICES ASSUME NEW take \in BOOLEAN, NEW stop \in BOOLEAN, NEW eurexOption \in BOOLEAN
               PROVE  /\ LegsOf(take, stop, eurexOption) \in Seq(Legs)
                      /\ Len(LegsOf(take, stop, eurexOption)) \in 1..3
    OBVIOUS
  <2>1. /\ <<"entry">> \in Seq(Legs) /\ Len(<<"entry">>) = 1
        /\ <<"take">> \in Seq(Legs) /\ Len(<<"take">>) = 1
        /\ <<"stop">> \in Seq(Legs) /\ Len(<<"stop">>) = 1
        /\ <<>> \in Seq(Legs) /\ Len(<<>>) = 0
    BY DEF Legs
  <2> DEFINE t == IF take THEN <<"take">> ELSE <<>>
             s == IF stop /\ ~eurexOption THEN <<"stop">> ELSE <<>>
  <2>2. t \in Seq(Legs) /\ Len(t) \in 0..1 /\ s \in Seq(Legs) /\ Len(s) \in 0..1
    BY <2>1
  <2> HIDE DEF t, s
  <2>3. \A p, q \in Seq(Legs) : p \o q \in Seq(Legs) /\ Len(p \o q) = Len(p) + Len(q)
    OBVIOUS
  <2>4. LegsOf(take, stop, eurexOption) = (<<"entry">> \o t) \o s
    BY DEF LegsOf, t, s
  <2> QED BY <2>1, <2>2, <2>3, <2>4
<1>3. /\ toGateway' = toGateway /\ atGateway' = atGateway /\ linked' = linked
      /\ PlacementTypeOK' /\ placing'.sent = 0
      /\ \/ placing'.at = "gate" /\ placing'.answer = "none" /\ Len(placing'.legs) \in 1..3
         \/ placing'.at = "answered" /\ placing'.answer = "forbidden" /\ placing'.legs = placing.legs
  <2>1. CASE HandleOrder
    <3>0. <<"entry">> \in Seq(Legs) /\ Len(<<"entry">>) = 1
      BY DEF Legs
    <3> DEFINE ls == <<"entry">>
    <3>1. \/ placing' = [placing EXCEPT !.at = "answered", !.caller = "manual", !.answer = "forbidden"]
          \/ placing' = [placing EXCEPT !.at = "gate", !.caller = "manual", !.legs = ls]
      BY <2>1 DEF HandleOrder
    <3> HIDE DEF ls
    <3>2. /\ placing' \in Requests
          /\ placing'.sent = 0
          /\ \/ placing'.at = "gate" /\ placing'.answer = "none" /\ placing'.legs = ls
             \/ placing'.at = "answered" /\ placing'.answer = "forbidden" /\ placing'.legs = placing.legs
      BY <1>1, <3>0, <3>1 DEF PlacementInv, PlacementTypeOK, Requests, ls
    <3>3. Len(ls) = 1
      BY <3>0 DEF ls
    <3>4. \/ placing'.at = "gate" /\ placing'.answer = "none" /\ Len(placing'.legs) \in 1..3
          \/ placing'.at = "answered" /\ placing'.answer = "forbidden" /\ placing'.legs = placing.legs
      BY <3>2, <3>3
    <3> QED BY <2>1, <3>2, <3>4 DEF HandleOrder, PlacementInv, PlacementTypeOK
  <2>2. CASE ManagedOrder
    <3>1. PICK take, stop, eurexOption \in BOOLEAN :
            placing' = [placing EXCEPT !.at = "gate", !.caller = "managed",
                                       !.legs = LegsOf(take, stop, eurexOption)]
      BY <2>2 DEF ManagedOrder
    <3> DEFINE ls == LegsOf(take, stop, eurexOption)
    <3>2. ls \in Seq(Legs) /\ Len(ls) \in 1..3
      BY <1>2
    <3> HIDE DEF ls
    <3>3. placing' = [placing EXCEPT !.at = "gate", !.caller = "managed", !.legs = ls]
      BY <3>1 DEF ls
    <3>4. placing' \in Requests /\ placing'.legs = ls /\ placing'.sent = placing.sent
          /\ placing'.at = "gate" /\ placing'.answer = placing.answer
      BY <3>2, <3>3 DEF PlacementInv, PlacementTypeOK, Requests
    <3> QED BY <1>1, <2>2, <3>2, <3>4 DEF ManagedOrder, PlacementInv, PlacementTypeOK
  <2> QED BY <2>1, <2>2
<1>4. Fresh' /\ Answered' /\ Unlinked'
  BY <1>1, <1>3 DEF Fresh, Answered, Unlinked
<1>5. Counted'
  <2>1. Len(placing.legs) \in Nat
    BY DEF PlacementInv, PlacementTypeOK, Requests
  <2>2. Len(placing.legs) <= 3
    BY DEF PlacementInv, Counted
  <2>3. CASE placing'.at = "gate" /\ Len(placing'.legs) \in 1..3
    <3>1. placing'.sent = 0
      BY <1>3
    <3>2. PICK n \in 1..3 : Len(placing'.legs) = n
      BY <2>3
    <3>3. n <= 3 /\ 0 <= n /\ 0 < n
      BY <3>2
    <3> QED BY <3>1, <3>2, <3>3 DEF Counted
  <2>4. CASE placing'.at = "answered" /\ placing'.legs = placing.legs
    BY <1>3, <2>1, <2>2, <2>4 DEF Counted
  <2> QED BY <1>3, <2>3, <2>4
<1>6. SentArrives' /\ GroupFirst' /\ CancelIsLast'
  BY <1>1, <1>3 DEF SentArrives, GroupFirst, CancelIsLast
<1>7. NothingLive' /\ NoNakedEntry'
  BY <1>1, <1>3 DEF NothingLive, Live, NoNakedEntry, Legs
<1>8. Orphans' /\ Withdrawn'
  BY <1>1, <1>3, <1>7 DEF Orphans, Withdrawn
<1> QED BY <1>3, <1>4, <1>5, <1>6, <1>7, <1>8 DEF PlacementInv

\* What an appended message does to what is carried.
LEMMA AppendCarries ==
  ASSUME NEW q \in Seq(WireMessages), NEW m \in WireMessages, NEW r, r = Append(q, m)
  PROVE  /\ r \in Seq(WireMessages) /\ Len(q) \in Nat
         /\ DOMAIN r = 1..(Len(q) + 1) /\ DOMAIN q = 1..Len(q)
         /\ r[Len(q) + 1] = m /\ \A i \in DOMAIN q : r[i] = q[i]
         /\ \A l : HasLeg(q, l) => HasLeg(r, l)
         /\ HasLeg(r, m.leg)
<1>1. Len(q) \in Nat /\ DOMAIN q = 1..Len(q)
  OBVIOUS
<1>2. r \in Seq(WireMessages) /\ Len(r) = Len(q) + 1
  BY <1>1
<1>3. r[Len(q) + 1] = m /\ \A i \in 1..Len(q) : r[i] = q[i]
  BY <1>1
<1>4. DOMAIN r = 1..(Len(q) + 1)
  BY <1>2
<1> QED BY <1>1, <1>2, <1>3, <1>4 DEF HasLeg

\* A leg is written.
LEMMA SendKeeps ==
  ASSUME PlacementInv, SendLeg
  PROVE  PlacementInv'
<1> DEFINE i == placing.sent + 1
           m == [leg |-> placing.legs[i], transmit |-> Transmits(i)]
<1>1. /\ placing.at = "sending" /\ placing'.at \in {"sending", "waiting"}
      /\ placing.sent \in Nat /\ i \in 1..Len(placing.legs) /\ Len(placing.legs) \in Nat
      /\ placing'.sent = i /\ placing'.legs = placing.legs /\ placing'.answer = placing.answer
      /\ placing'.at = "sending" => i < Len(placing.legs)
      /\ linked' = linked /\ atGateway' = atGateway
  BY DEF SendLeg, PlacementInv, PlacementTypeOK, Requests, Counted
<1>2. m \in WireMessages /\ m.leg = placing.legs[i] /\ m.leg \in Legs /\ m.leg # "cancel"
      /\ (m.transmit => i = Len(placing.legs))
  <2>1. placing.legs[i] \in Legs
    BY <1>1 DEF PlacementInv, PlacementTypeOK, Requests
  <2>2. Transmits(i) \in BOOLEAN /\ (Transmits(i) => i = Len(placing.legs))
    BY DEF Transmits
  <2>3. \A l \in Legs, x \in BOOLEAN : [leg |-> l, transmit |-> x] \in WireMessages
    BY DEF WireMessages
  <2> QED BY <2>1, <2>2, <2>3 DEF Legs
<1>3. placing.answer = "none"
  BY <1>1 DEF PlacementInv, PlacementTypeOK, Answered
<1>4. \A k \in DOMAIN toGateway : toGateway[k].leg # "cancel"
  BY <1>1 DEF PlacementInv, CancelIsLast
<1>5. Fresh' /\ Answered' /\ Withdrawn' /\ Counted'
  BY <1>1, <1>3 DEF PlacementInv, Fresh, Answered, Withdrawn, Counted
<1>6. NoNakedEntry' /\ Orphans'
  BY <1>1 DEF PlacementInv, NoNakedEntry, Orphans, NothingLive
<1>9. placing' \in Requests
  <2> DEFINE stage == IF i = Len(placing.legs) THEN "waiting" ELSE "sending"
  <2>1. placing' = [placing EXCEPT !.sent = i, !.at = stage]
    BY DEF SendLeg
  <2>2. stage \in {"waiting", "sending"} /\ i \in 0..3
    BY <1>1 DEF PlacementInv, Counted
  <2> HIDE DEF stage, i
  <2> QED BY <2>1, <2>2 DEF PlacementInv, PlacementTypeOK, Requests
<1>7. CASE linked
  <2>1. toGateway' = Append(toGateway, m) /\ linked'
    BY <1>7 DEF SendLeg
  <2> HIDE DEF m
  <2>2. toGateway \in Seq(WireMessages) /\ m \in WireMessages
    BY <1>2 DEF PlacementInv, PlacementTypeOK
  <2>3. PICK n : /\ n = Len(toGateway) + 1
                 /\ toGateway' \in Seq(WireMessages)
                 /\ DOMAIN toGateway' = 1..n /\ DOMAIN toGateway = 1..Len(toGateway) /\ Len(toGateway) \in Nat
                 /\ toGateway'[n] = m
                 /\ (\A k \in DOMAIN toGateway : toGateway'[k] = toGateway[k])
                 /\ (\A l : HasLeg(toGateway, l) => HasLeg(toGateway', l))
                 /\ HasLeg(toGateway', m.leg)
    <3> DEFINE q == toGateway
               r == toGateway'
    <3>1. q \in Seq(WireMessages) /\ m \in WireMessages /\ r = Append(q, m)
      BY <2>1, <2>2
    <3> HIDE DEF q, r
    <3>2. /\ r \in Seq(WireMessages) /\ Len(q) \in Nat
          /\ DOMAIN r = 1..(Len(q) + 1) /\ DOMAIN q = 1..Len(q)
      BY <3>1, AppendCarries
    <3>3. r[Len(q) + 1] = m /\ (\A k \in DOMAIN q : r[k] = q[k])
      BY <3>1, AppendCarries
    <3>4. (\A l : HasLeg(q, l) => HasLeg(r, l)) /\ HasLeg(r, m.leg)
      BY <3>1, AppendCarries
    <3> QED BY <3>2, <3>3, <3>4 DEF q, r
  <2>4. PlacementTypeOK'
    BY <1>9, <2>3 DEF SendLeg, PlacementInv, PlacementTypeOK
  <2>5. SentArrives'
    <3> SUFFICES ASSUME NEW j \in 1..i
                 PROVE  atGateway[placing.legs[j]] # "none" \/ HasLeg(toGateway', placing.legs[j])
      BY <1>1 DEF SentArrives
    <3>1. CASE j = i
      BY <1>1, <1>2, <2>3, <3>1 DEF HasLeg
    <3>2. CASE j # i
      <4>1. j \in 1..placing.sent
        BY <1>1, <3>2
      <4> QED BY <1>1, <1>7, <2>3, <4>1 DEF PlacementInv, SentArrives
    <3> QED BY <3>1, <3>2
  <2>6. GroupFirst'
    <3> SUFFICES ASSUME NEW k \in 1..n, toGateway'[k].leg # "cancel", toGateway'[k].transmit,
                        NEW j \in DOMAIN placing.legs
                 PROVE  \/ atGateway[placing.legs[j]] # "none"
                        \/ \E g \in 1..k : toGateway'[g].leg = placing.legs[j]
      BY <1>1, <2>3 DEF GroupFirst
    <3>1. CASE k # n
      <4>1. k \in DOMAIN toGateway /\ 1..k \subseteq DOMAIN toGateway
        BY <2>3, <3>1
      <4>2. toGateway[k].leg # "cancel" /\ toGateway[k].transmit
        BY <2>3, <4>1
      <4>3. \/ atGateway[placing.legs[j]] # "none"
            \/ \E g \in 1..k : toGateway[g].leg = placing.legs[j]
        BY <4>1, <4>2 DEF PlacementInv, GroupFirst
      <4> QED BY <2>3, <4>1, <4>3
    <3>2. CASE k = n
      <4>1. i = Len(placing.legs)
        BY <1>2, <2>3, <3>2
      <4>2. j \in 1..i
        BY <1>1, <4>1 DEF PlacementInv, PlacementTypeOK, Requests
      <4>3. atGateway[placing.legs[j]] # "none" \/ HasLeg(toGateway', placing.legs[j])
        BY <1>1, <2>1, <2>5, <4>2 DEF SentArrives
      <4> QED BY <2>3, <3>2, <4>3 DEF HasLeg
    <3> QED BY <3>1, <3>2
  <2>7. CancelIsLast'
    BY <1>2, <1>4, <2>3 DEF CancelIsLast
  <2>8. Unlinked'
    BY <2>1 DEF Unlinked
  <2> QED BY <1>5, <1>6, <2>4, <2>5, <2>6, <2>7, <2>8 DEF PlacementInv
<1>8. CASE ~linked
  <2>1. toGateway' = <<>> /\ linked' = FALSE
    BY <1>8 DEF SendLeg, PlacementInv, PlacementTypeOK, Unlinked
  <2>2. PlacementTypeOK'
    <3>1. toGateway' \in Seq(WireMessages)
      BY <2>1
    <3> QED BY <1>9, <3>1 DEF SendLeg, PlacementInv, PlacementTypeOK
  <2> QED BY <1>5, <1>6, <2>1, <2>2 DEF PlacementInv, SentArrives, GroupFirst, CancelIsLast, Unlinked
<1> QED BY <1>7, <1>8

\* The cancel of the entry is written at the end of the request or after it.
LEMMA CancelKeeps ==
  ASSUME PlacementInv, placing' \in Requests, UNCHANGED <<deskMode, confirmFirst, linked, gateOn, atGateway>>,
         legChan' \in [Legs -> Seq({"status", "error"})], aggCh' \in Seq(Legs \X {"status", "error"}),
         row' = row,
         placing'.legs = placing.legs, placing'.sent = placing.sent, placing'.at = "answered",
         CancelForCleanup \/ (~linked /\ UNCHANGED toGateway)
  PROVE  PlacementInv'
<1> DEFINE m == [leg |-> "cancel", transmit |-> TRUE]
<1>1. m \in WireMessages /\ m.leg = "cancel"
  BY DEF WireMessages
<1>2. Fresh' /\ Answered' /\ Counted' /\ NoNakedEntry' /\ Orphans'
  BY DEF PlacementInv, Fresh, Answered, Counted, NoNakedEntry, Orphans, NothingLive
<1>3. CASE linked
  <2>1. toGateway' = Append(toGateway, m)
    BY <1>3 DEF CancelForCleanup
  <2> HIDE DEF m
  <2>2. toGateway \in Seq(WireMessages)
    BY DEF PlacementInv, PlacementTypeOK
  <2>3. /\ toGateway' \in Seq(WireMessages) /\ Len(toGateway) \in Nat
        /\ DOMAIN toGateway' = 1..(Len(toGateway) + 1) /\ DOMAIN toGateway = 1..Len(toGateway)
    BY <1>1, <2>1, <2>2, AppendCarries
  <2>4. toGateway'[Len(toGateway) + 1] = m /\ (\A k \in DOMAIN toGateway : toGateway'[k] = toGateway[k])
    BY <1>1, <2>1, <2>2, AppendCarries
  <2>5. \A l : HasLeg(toGateway, l) => HasLeg(toGateway', l)
    BY <1>1, <2>1, <2>2, AppendCarries
  <2>10. HasLeg(toGateway', "cancel")
    BY <1>1, <2>3, <2>4 DEF HasLeg
  <2>6. PlacementTypeOK'
    BY <2>3 DEF PlacementInv, PlacementTypeOK
  <2>7. SentArrives'
    BY <2>5 DEF PlacementInv, SentArrives
  <2>8. GroupFirst'
    <3> SUFFICES ASSUME NEW k \in DOMAIN toGateway', toGateway'[k].leg # "cancel",
                        toGateway'[k].transmit, NEW j \in DOMAIN placing.legs
                 PROVE  \/ atGateway[placing.legs[j]] # "none"
                        \/ \E g \in 1..k : toGateway'[g].leg = placing.legs[j]
      BY DEF GroupFirst
    <3>1. k \in DOMAIN toGateway /\ 1..k \subseteq DOMAIN toGateway
      BY <1>1, <2>3, <2>4
    <3>2. \/ atGateway[placing.legs[j]] # "none"
          \/ \E g \in 1..k : toGateway[g].leg = placing.legs[j]
      BY <2>4, <3>1 DEF PlacementInv, GroupFirst
    <3> QED BY <2>4, <3>1, <3>2
  <2>9. CancelIsLast'
    BY <1>1, <2>3, <2>4 DEF PlacementInv, CancelIsLast
  <2> QED BY <1>2, <1>3, <2>6, <2>7, <2>8, <2>9, <2>10 DEF PlacementInv, Unlinked, Withdrawn
<1>4. CASE ~linked
  <2>1. toGateway' = <<>> /\ toGateway = <<>>
    BY <1>4 DEF CancelForCleanup, PlacementInv, Unlinked
  <2>2. PlacementTypeOK'
    BY <2>1 DEF PlacementInv, PlacementTypeOK
  <2> QED BY <1>2, <1>4, <2>1, <2>2
          DEF PlacementInv, SentArrives, GroupFirst, CancelIsLast, Unlinked, Withdrawn
<1> QED BY <1>3, <1>4

\* The steps that may cancel.
LEMMA CancelSteps ==
  ASSUME PlacementInv, SendFails \/ TakeMessage \/ HandleCancelOrder
  PROVE  PlacementInv'
<1>1. placing \in Requests /\ legChan \in [Legs -> Seq({"status", "error"})]
      /\ aggCh \in Seq(Legs \X {"status", "error"})
  BY DEF PlacementInv, PlacementTypeOK
<1>2. Answers("error") => /\ placing' \in Requests /\ placing'.at = "answered"
                          /\ placing'.legs = placing.legs /\ placing'.sent = placing.sent
  BY <1>1 DEF Answers, Requests
<1>3. CASE SendFails
  <2>1. CancelForCleanup \/ (~linked /\ UNCHANGED toGateway)
    BY <1>3 DEF SendFails
  <2> QED BY <1>2, <1>3, <2>1, ReturnsIsTyped, CancelKeeps DEF SendFails
<1>4. CASE TakeMessage
  <2>1. CASE Placed("submitted") /\ Returns /\ UNCHANGED toGateway
    <3>1. placing' \in Requests
      BY <1>1, <2>1, PlacedIsTyped
    <3>2. PlacementTypeOK'
      BY <1>4, <2>1, <3>1, ReturnsIsTyped DEF TakeMessage, PlacementInv, PlacementTypeOK
    <3>3. /\ placing'.legs = placing.legs /\ placing'.sent = placing.sent
          /\ placing'.answer = "submitted" /\ placing.at = "waiting"
          /\ placing'.at \in {"saving", "answered"}
      BY <1>1, <1>4, <2>1 DEF TakeMessage, Placed, Requests
    <3>4. Fresh' /\ Counted' /\ Answered'
      BY <3>3 DEF PlacementInv, Fresh, Counted, Answered
    <3> QED BY <1>4, <2>1, <3>2, <3>3, <3>4, StillStep DEF TakeMessage
  <2>2. CASE CancelForCleanup /\ Answers("error") /\ Returns
    BY <1>2, <1>4, <2>2, ReturnsIsTyped, CancelKeeps DEF TakeMessage
  <2>3. CASE aggCh' = Tail(aggCh) /\ UNCHANGED <<placing, toGateway, legChan>>
    <3>1. aggCh' \in Seq(Legs \X {"status", "error"})
      BY <1>1, <1>4, <2>3 DEF TakeMessage
    <3>2. PlacementTypeOK'
      BY <1>4, <2>3, <3>1 DEF TakeMessage, PlacementInv, PlacementTypeOK
    <3> QED BY <1>4, <2>3, <3>2, StillStep DEF TakeMessage, PlacementInv, Fresh, Counted, Answered
  <2> QED BY <1>4, <2>1, <2>2, <2>3 DEF TakeMessage
<1>5. CASE HandleCancelOrder
  BY <1>1, <1>5, CancelKeeps DEF HandleCancelOrder, SaveCanceled
<1> QED BY <1>3, <1>4, <1>5

\* The connection is lost.
LEMMA LoseKeeps ==
  ASSUME PlacementInv, LoseLink
  PROVE  PlacementInv'
<1>1. PlacementTypeOK'
  <2>1. toGateway' \in Seq(WireMessages)
    BY DEF LoseLink
  <2> QED BY <2>1 DEF LoseLink, PlacementInv, PlacementTypeOK
<1>2. Fresh' /\ Counted' /\ Answered' /\ Unlinked' /\ NoNakedEntry' /\ Orphans'
  BY DEF LoseLink, PlacementInv, Fresh, Counted, Answered, Unlinked, NoNakedEntry, Orphans, NothingLive
<1>3. SentArrives' /\ GroupFirst' /\ CancelIsLast' /\ Withdrawn'
  BY DEF LoseLink, SentArrives, GroupFirst, CancelIsLast, Withdrawn
<1> QED BY <1>1, <1>2, <1>3 DEF PlacementInv

-----------------------------------------------------------------------------
(* The gateway *)

\* What reading the first message does to what is carried.
LEMMA TailCarries ==
  ASSUME NEW q \in Seq(WireMessages), q # <<>>, NEW r, r = Tail(q)
  PROVE  /\ r \in Seq(WireMessages) /\ Len(q) \in Nat /\ Len(q) > 0
         /\ DOMAIN q = 1..Len(q) /\ DOMAIN r = 1..(Len(q) - 1)
         /\ Head(q) = q[1] /\ q[1] \in WireMessages
         /\ \A i \in 1..(Len(q) - 1) : r[i] = q[i + 1]
<1>1. Len(q) \in Nat /\ Len(q) > 0 /\ DOMAIN q = 1..Len(q) /\ Head(q) = q[1]
  OBVIOUS
<1>2. r \in Seq(WireMessages) /\ Len(r) = Len(q) - 1
  BY <1>1
<1>3. \A i \in 1..(Len(q) - 1) : r[i] = q[i + 1]
  BY <1>1
<1> QED BY <1>1, <1>2, <1>3

\* A message was read: what it carries has arrived.
LEMMA ReadKeeps ==
  ASSUME PlacementInv, toGateway # <<>>, toGateway' = Tail(toGateway),
         UNCHANGED <<linked, placing>>,
         \A l \in Legs : atGateway[l] # "none" => atGateway'[l] # "none",
         Head(toGateway).leg # "cancel" => atGateway'[Head(toGateway).leg] # "none"
  PROVE  /\ SentArrives' /\ GroupFirst' /\ CancelIsLast'
         /\ Unlinked' /\ Fresh' /\ Counted' /\ Answered'
<1> DEFINE q == toGateway
           r == toGateway'
<1>1. q \in Seq(WireMessages) /\ q # <<>> /\ r = Tail(q)
  BY DEF PlacementInv, PlacementTypeOK
<1> HIDE DEF q, r
<1>2. /\ r \in Seq(WireMessages) /\ Len(q) \in Nat /\ Len(q) > 0
      /\ DOMAIN q = 1..Len(q) /\ DOMAIN r = 1..(Len(q) - 1)
  BY <1>1, TailCarries
<1>3. Head(q) = q[1] /\ \A i \in 1..(Len(q) - 1) : r[i] = q[i + 1]
  BY <1>1, TailCarries
<1>4. \A j \in DOMAIN placing.legs : placing.legs[j] \in Legs /\ placing.legs[j] # "cancel"
  BY DEF PlacementInv, PlacementTypeOK, Requests, Legs
<1>5. \A j \in DOMAIN placing.legs :
        q[1].leg = placing.legs[j] => atGateway'[placing.legs[j]] # "none"
  BY <1>3, <1>4 DEF q
<1>6. placing.legs \in Seq(Legs) /\ placing.sent \in Nat
      /\ DOMAIN placing.legs = 1..Len(placing.legs) /\ placing.sent <= Len(placing.legs)
      /\ Len(placing.legs) \in Nat
  BY DEF PlacementInv, PlacementTypeOK, Requests, Counted
<1>7. SentArrives'
  <2> SUFFICES ASSUME linked, NEW j \in 1..placing.sent
               PROVE  atGateway'[placing.legs[j]] # "none" \/ HasLeg(r, placing.legs[j])
    BY DEF SentArrives, r
  <2>1. j \in DOMAIN placing.legs
    BY <1>6
  <2>2. atGateway[placing.legs[j]] # "none" \/ HasLeg(q, placing.legs[j])
    BY DEF PlacementInv, SentArrives, q
  <2>3. CASE HasLeg(q, placing.legs[j])
    <3>1. PICK i \in 1..Len(q) : q[i].leg = placing.legs[j]
      BY <1>2, <2>3 DEF HasLeg
    <3>2. CASE i = 1
      BY <1>5, <2>1, <3>1, <3>2
    <3>3. CASE i # 1
      <4>1. i - 1 \in 1..(Len(q) - 1) /\ r[i - 1] = q[i]
        BY <1>2, <1>3, <3>3
      <4> QED BY <1>2, <3>1, <4>1 DEF HasLeg
    <3> QED BY <3>2, <3>3
  <2> QED BY <1>4, <2>1, <2>2, <2>3
<1>8. GroupFirst'
  <2> SUFFICES ASSUME NEW i \in 1..(Len(q) - 1), r[i].leg # "cancel", r[i].transmit,
                      NEW j \in DOMAIN placing.legs
               PROVE  \/ atGateway'[placing.legs[j]] # "none"
                      \/ \E k \in 1..i : r[k].leg = placing.legs[j]
    BY <1>2 DEF GroupFirst, r
  <2>1. i + 1 \in DOMAIN q /\ q[i + 1] = r[i]
    BY <1>2, <1>3
  <2>2. \/ atGateway[placing.legs[j]] # "none"
        \/ \E k \in 1..(i + 1) : q[k].leg = placing.legs[j]
    BY <2>1 DEF PlacementInv, GroupFirst, q
  <2>3. ASSUME NEW k \in 1..(i + 1), q[k].leg = placing.legs[j]
        PROVE  \/ atGateway'[placing.legs[j]] # "none"
               \/ \E g \in 1..i : r[g].leg = placing.legs[j]
    <3>1. CASE k = 1
      BY <1>5, <2>3, <3>1
    <3>2. CASE k # 1
      <4>1. k - 1 \in 1..i /\ r[k - 1] = q[k]
        BY <1>2, <1>3, <3>2
      <4> QED BY <2>3, <4>1
    <3> QED BY <3>1, <3>2
  <2> QED BY <1>4, <2>2, <2>3
<1>9. CancelIsLast'
  <2> SUFFICES ASSUME NEW i \in 1..(Len(q) - 1), r[i].leg = "cancel"
               PROVE  /\ placing.at = "answered"
                      /\ \A j \in 1..(Len(q) - 1) : j > i => r[j].leg = "cancel"
    BY <1>2 DEF CancelIsLast, r
  <2>1. i + 1 \in DOMAIN q /\ q[i + 1].leg = "cancel"
    BY <1>2, <1>3
  <2>2. placing.at = "answered" /\ \A j \in DOMAIN q : j > i + 1 => q[j].leg = "cancel"
    BY <2>1 DEF PlacementInv, CancelIsLast, q
  <2> QED BY <1>2, <1>3, <2>2
<1>10. Unlinked' /\ Fresh' /\ Counted' /\ Answered'
  BY DEF PlacementInv, Unlinked, Fresh, Counted, Answered
<1> QED BY <1>7, <1>8, <1>9, <1>10

\* A message that was heard leaves the channels typed.
LEMMA HearsIsTyped ==
  ASSUME PlacementInv, NEW ls, NEW m \in {"status", "error"}, Hears(ls, m)
  PROVE  legChan' \in [Legs -> Seq({"status", "error"})]
<1>1. legChan \in [Legs -> Seq({"status", "error"})]
  BY DEF PlacementInv, PlacementTypeOK
<1>2. \A l \in Legs : Append(legChan[l], m) \in Seq({"status", "error"})
  BY <1>1
<1> QED BY <1>1, <1>2 DEF Hears

\* A leg arrives.
LEMMA TakesKeeps ==
  ASSUME PlacementInv, GatewayTakes
  PROVE  PlacementInv'
<1> DEFINE m == Head(toGateway)
           now == {l \in Legs : atGateway[l] = "held"} \union {m.leg}
<1>0. /\ toGateway \in Seq(WireMessages) /\ toGateway # <<>> /\ linked
      /\ atGateway \in [Legs -> Live \union {"none", "filled", "cancelled", "rejected"}]
      /\ m \in WireMessages /\ m = toGateway[1] /\ 1 \in DOMAIN toGateway /\ m.leg # "cancel"
      /\ toGateway' = Tail(toGateway)
  BY TailCarries DEF GatewayTakes, PlacementInv, PlacementTypeOK, Unlinked
<1>1. m.leg \in Legs /\ "entry" \in Legs
  BY <1>0 DEF WireMessages, Legs
<1>2. \/ /\ m.leg # "entry" /\ atGateway["entry"] \notin Live
         /\ atGateway' = [atGateway EXCEPT ![m.leg] = "rejected"]
      \/ /\ m.leg = "entry" \/ atGateway["entry"] \in Live
         /\ m.transmit
         /\ atGateway' = [l \in Legs |-> IF l \in now THEN "working" ELSE atGateway[l]]
      \/ /\ m.leg = "entry" \/ atGateway["entry"] \in Live
         /\ atGateway' = [atGateway EXCEPT ![m.leg] = "held"]
  BY DEF GatewayTakes
<1>3. /\ legChan' \in [Legs -> Seq({"status", "error"})]
      /\ UNCHANGED <<deskMode, confirmFirst, linked, gateOn, placing, aggCh, row>>
  BY HearsIsTyped DEF GatewayTakes, PlacementInv, PlacementTypeOK
<1> HIDE DEF m
<1>4. /\ \A l \in Legs : atGateway[l] # "none" => atGateway'[l] # "none"
      /\ atGateway'[m.leg] # "none"
      /\ atGateway' \in [Legs -> Live \union {"none", "filled", "cancelled", "rejected"}]
  BY <1>0, <1>1, <1>2 DEF Live
<1>5. SentArrives' /\ GroupFirst' /\ CancelIsLast' /\ Unlinked' /\ Fresh' /\ Counted' /\ Answered'
  BY <1>0, <1>3, <1>4, ReadKeeps DEF m
<1>6. NoNakedEntry'
  <2> SUFFICES ASSUME atGateway'["entry"] \in {"working", "filled"}, NEW j \in DOMAIN placing.legs
               PROVE  atGateway'[placing.legs[j]] # "none"
    BY <1>3 DEF NoNakedEntry
  <2>1. placing.legs[j] \in Legs
    BY DEF PlacementInv, PlacementTypeOK, Requests
  <2>2. CASE atGateway["entry"] \in {"working", "filled"}
    BY <1>4, <2>1, <2>2 DEF PlacementInv, NoNakedEntry
  <2>3. CASE atGateway["entry"] \notin {"working", "filled"}
    <3>1. m.transmit
      BY <1>0, <1>1, <1>2, <2>3
    <3>2. \/ atGateway[placing.legs[j]] # "none"
          \/ \E k \in 1..1 : toGateway[k].leg = placing.legs[j]
      BY <1>0, <3>1 DEF PlacementInv, GroupFirst
    <3> QED BY <1>0, <1>4, <2>1, <3>2
  <2> QED BY <2>2, <2>3
<1>7. Orphans'
  BY <1>0, <1>1, <1>2 DEF PlacementInv, Orphans, NothingLive, Live
<1>8. Withdrawn'
  <2> SUFFICES ASSUME placing.answer \in {"error", "forbidden"}
               PROVE  HasLeg(toGateway', "cancel")
    BY <1>3 DEF Withdrawn
  <2>1. PICK i \in DOMAIN toGateway : toGateway[i].leg = "cancel"
    BY <1>0 DEF PlacementInv, Withdrawn, HasLeg
  <2> DEFINE q == toGateway
             r == toGateway'
  <2>2. q \in Seq(WireMessages) /\ q # <<>> /\ r = Tail(q) /\ i \in DOMAIN q /\ q[i].leg = "cancel"
        /\ q[1].leg # "cancel"
    BY <1>0, <2>1
  <2> HIDE DEF q, r
  <2>3. i \in 1..Len(q) /\ Len(q) \in Nat /\ i # 1 /\ DOMAIN r = 1..(Len(q) - 1)
        /\ \A k \in 1..(Len(q) - 1) : r[k] = q[k + 1]
    BY <2>2, TailCarries
  <2>4. i - 1 \in DOMAIN r /\ r[i - 1].leg = "cancel"
    BY <2>2, <2>3
  <2> QED BY <2>4 DEF HasLeg, r
<1>9. PlacementTypeOK'
  <2>1. toGateway' \in Seq(WireMessages)
    BY <1>0
  <2> QED BY <1>3, <1>4, <2>1 DEF PlacementInv, PlacementTypeOK
<1> QED BY <1>5, <1>6, <1>7, <1>8, <1>9 DEF PlacementInv

\* The cancel of the entry arrives.
LEMMA CancelArrives ==
  ASSUME PlacementInv, GatewayCancels
  PROVE  PlacementInv'
<1> DEFINE q == toGateway
           r == toGateway'
<1>0. /\ q \in Seq(WireMessages) /\ q # <<>> /\ r = Tail(q)
      /\ atGateway \in [Legs -> Live \union {"none", "filled", "cancelled", "rejected"}]
      /\ UNCHANGED <<deskMode, confirmFirst, linked, gateOn, placing, legChan, aggCh, row>>
      /\ Head(q).leg = "cancel" /\ "entry" \in Legs
  BY DEF GatewayCancels, PlacementInv, PlacementTypeOK, Legs
<1>1. \/ /\ atGateway["entry"] \in Live
         /\ atGateway' = [k \in Legs |-> IF k = "entry" THEN "cancelled"
                            ELSE IF atGateway[k] \in Live THEN "cancelled" ELSE atGateway[k]]
      \/ atGateway["entry"] \notin Live /\ atGateway' = atGateway
  BY DEF GatewayCancels, Ended
<1> HIDE DEF q, r
<1>2. /\ \A l \in Legs : atGateway[l] # "none" => atGateway'[l] # "none"
      /\ atGateway' \in [Legs -> Live \union {"none", "filled", "cancelled", "rejected"}]
  BY <1>0, <1>1 DEF Live
<1>3. SentArrives' /\ GroupFirst' /\ CancelIsLast' /\ Unlinked' /\ Fresh' /\ Counted' /\ Answered'
  BY <1>0, <1>2, ReadKeeps DEF q, r
<1>4. NoNakedEntry'
  <2>1. \A j \in DOMAIN placing.legs : placing.legs[j] \in Legs
    BY DEF PlacementInv, PlacementTypeOK, Requests
  <2> QED BY <1>0, <1>1, <1>2, <2>1 DEF PlacementInv, NoNakedEntry
<1>5. Orphans'
  BY <1>0, <1>1 DEF PlacementInv, Orphans, NothingLive, Live
<1>6. atGateway'["entry"] = "filled" \/ NothingLive'
  BY <1>0, <1>1 DEF PlacementInv, Orphans, NothingLive, Live
<1>7. HasLeg(r, "cancel") \/ r = <<>>
  <2>1. /\ r \in Seq(WireMessages) /\ Len(q) \in Nat /\ DOMAIN q = 1..Len(q)
        /\ DOMAIN r = 1..(Len(q) - 1) /\ q[1].leg = "cancel"
    BY <1>0, TailCarries
  <2>2. \A i \in 1..(Len(q) - 1) : r[i] = q[i + 1]
    BY <1>0, TailCarries
  <2>3. CASE Len(q) > 1
    <3>1. 1 \in DOMAIN q /\ 2 \in DOMAIN q /\ 1 \in DOMAIN r /\ r[1] = q[2]
      BY <2>1, <2>2, <2>3
    <3>2. q[2].leg = "cancel"
      BY <2>1, <3>1 DEF PlacementInv, CancelIsLast, q
    <3> QED BY <3>1, <3>2 DEF HasLeg
  <2>4. CASE ~(Len(q) > 1)
    <3>1. Len(r) = 0
      BY <1>0, <2>1, <2>4
    <3> QED BY <2>1, <3>1
  <2> QED BY <2>3, <2>4
<1>8. Withdrawn'
  BY <1>6, <1>7 DEF Withdrawn, r
<1>9. PlacementTypeOK'
  <2>1. r \in Seq(WireMessages)
    BY <1>0
  <2> QED BY <1>0, <1>2, <2>1 DEF PlacementInv, PlacementTypeOK, r
<1> QED BY <1>3, <1>4, <1>5, <1>8, <1>9 DEF PlacementInv

\* A leg is rejected, or the entry fills.
LEMMA EndsKeep ==
  ASSUME PlacementInv, EntryFills \/ \E l \in Legs : GatewayRejects(l)
  PROVE  PlacementInv'
<1>0. /\ atGateway \in [Legs -> Live \union {"none", "filled", "cancelled", "rejected"}]
      /\ "entry" \in Legs
      /\ UNCHANGED <<deskMode, confirmFirst, linked, gateOn, placing, toGateway, aggCh, row>>
  BY DEF PlacementInv, PlacementTypeOK, Legs, EntryFills, GatewayRejects
<1>1. \/ /\ atGateway["entry"] = "working"
         /\ atGateway' = [atGateway EXCEPT !["entry"] = "filled"]
      \/ \E l \in Legs :
           /\ atGateway[l] \in Live
           /\ atGateway' = [k \in Legs |-> IF k = l THEN "rejected"
                ELSE IF l = "entry" /\ atGateway[k] \in Live THEN "cancelled" ELSE atGateway[k]]
  BY DEF EntryFills, GatewayRejects, Ended
<1>2. /\ \A l \in Legs : atGateway[l] # "none" => atGateway'[l] # "none"
      /\ atGateway' \in [Legs -> Live \union {"none", "filled", "cancelled", "rejected"}]
      /\ \E l \in Legs : atGateway[l] \in Live
  BY <1>0, <1>1 DEF Live
<1>3. legChan' \in [Legs -> Seq({"status", "error"})]
  BY HearsIsTyped DEF EntryFills, GatewayRejects, PlacementInv, PlacementTypeOK
<1>4. PlacementTypeOK'
  BY <1>0, <1>2, <1>3 DEF PlacementInv, PlacementTypeOK
<1>5. \A j \in DOMAIN placing.legs : placing.legs[j] \in Legs
  BY DEF PlacementInv, PlacementTypeOK, Requests
<1>6. Fresh' /\ Counted' /\ Answered' /\ Unlinked' /\ CancelIsLast'
  BY <1>0, <1>2 DEF PlacementInv, Fresh, Counted, Answered, Unlinked, CancelIsLast, Live
<1>7. GroupFirst'
  BY <1>0, <1>2, <1>5 DEF PlacementInv, GroupFirst
<1>8. SentArrives'
  <2>1. \A j \in 1..placing.sent : placing.legs[j] \in Legs
    BY <1>5 DEF PlacementInv, PlacementTypeOK, Requests, Counted
  <2> QED BY <1>0, <1>2, <2>1 DEF PlacementInv, SentArrives
<1>9. NoNakedEntry'
  <2>1. atGateway'["entry"] \in {"working", "filled"} => atGateway["entry"] \in {"working", "filled"}
    BY <1>0, <1>1
  <2> QED BY <1>0, <1>2, <1>5, <2>1 DEF PlacementInv, NoNakedEntry
<1>10. Orphans'
  BY <1>0, <1>1 DEF PlacementInv, Orphans, NothingLive, Live
<1>11. Withdrawn'
  <2>1. atGateway["entry"] = "filled" => atGateway'["entry"] = "filled"
    BY <1>0, <1>1 DEF Live
  <2> QED BY <1>0, <1>2, <2>1 DEF PlacementInv, Withdrawn, NothingLive, HasLeg
<1> QED BY <1>4, <1>6, <1>7, <1>8, <1>9, <1>10, <1>11 DEF PlacementInv

-----------------------------------------------------------------------------
(* The theorems *)

\* Every step keeps the invariant.
LEMMA StepKeepsPlacement ==
  ASSUME PlacementInv, [PlacementNext]_placementVars
  PROVE  PlacementInv'
<1>1. CASE UNCHANGED placementVars
  <2>1. PlacementTypeOK' /\ Fresh' /\ Counted' /\ Answered'
    BY <1>1 DEF placementVars, PlacementInv, PlacementTypeOK, Fresh, Counted, Answered
  <2> QED BY <1>1, <2>1, StillStep DEF placementVars
<1> QED
  BY <1>1, QuietSteps, OrderSteps, SendKeeps, CancelSteps, LoseKeeps, TakesKeeps,
     CancelArrives, EndsKeep DEF PlacementNext

\* The invariant holds in every reachable state.
LEMMA PlacementInvariant == PlacementSpec => []PlacementInv
BY InitIsPlaced, StepKeepsPlacement, PTL DEF PlacementSpec

\* The request, the wire, the gateway, the channels and the row keep their
\* types.
THEOREM PlacementTypeCorrect == PlacementSpec => []PlacementTypeOK
<1>1. PlacementInv => PlacementTypeOK
  BY DEF PlacementInv
<1> QED BY <1>1, PlacementInvariant, PTL

\* The gateway works an entry only when it has all the exits of the order:
\* the transmit flags and the order of the writes are enough, wherever the
\* connection breaks.
THEOREM EntryHasItsExits == PlacementSpec => []NoNakedEntry
<1>1. PlacementInv => NoNakedEntry
  BY DEF PlacementInv
<1> QED BY <1>1, PlacementInvariant, PTL

\* An order that was answered with an error is withdrawn: while the connection
\* holds nothing of it is live without its cancel on the way.
THEOREM RefusedOrderIsWithdrawn == PlacementSpec => []RefusedIsWithdrawn
<1>1. PlacementInv => RefusedIsWithdrawn
  BY DEF PlacementInv, Withdrawn, RefusedIsWithdrawn, NothingLive, HasLeg
<1> QED BY <1>1, PlacementInvariant, PTL

=============================================================================
