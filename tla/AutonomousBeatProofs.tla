------------------------ MODULE AutonomousBeatProofs ------------------------
(***************************************************************************)
(* Proofs about AutonomousBeat: its types, that a stopped loop sends at    *)
(* most one more order, and that a message is never said twice, for any    *)
(* number of loops, turns and messages.                                    *)
(***************************************************************************)
EXTENDS AutonomousBeat, TLAPS

\* What is true of one loop: its turns are counted within a beat, and an order
\* after the cancellation is the last one it sends.
LoopOK(x) ==
  /\ x \in LoopRecords
  /\ x.at \in {"starting", "waiting", "preparing"} => x.turn = 0
  /\ x.at = "turn" => x.turn < MaxTurns
  /\ x.late > 0 => x.cancelled
  /\ x.at = "sending" => x.late = 0
  /\ x.late <= 1

\* The inductive invariant of the loops.
LoopInv == BeatTypeOK /\ \A l \in Loops : LoopOK(beat[l])

-----------------------------------------------------------------------------
\* A loop that changes is one of the loops.
LEMMA SetIsTyped ==
  ASSUME LoopInv, NEW l \in Loops, NEW x, LoopOK(x), Set(l, x)
  PROVE  /\ beat' \in Seq(LoopRecords) /\ Len(beat') = Len(beat) /\ Loops' = Loops
         /\ beat'[l] = x /\ \A k \in Loops : k # l => beat'[k] = beat[k]
         /\ \A k \in Loops' : LoopOK(beat'[k])
<1>1. beat \in Seq(LoopRecords) /\ x \in LoopRecords /\ l \in 1..Len(beat) /\ Loops = 1..Len(beat)
  BY DEF LoopInv, BeatTypeOK, LoopOK, Loops
<1>2. beat' = [beat EXCEPT ![l] = x]
  BY DEF Set
<1>3. beat' \in Seq(LoopRecords) /\ Len(beat') = Len(beat)
  BY <1>1, <1>2
<1>4. beat'[l] = x /\ \A k \in 1..Len(beat) : k # l => beat'[k] = beat[k]
  BY <1>1, <1>2
<1>5. Loops' = Loops
  BY <1>1, <1>3 DEF Loops
<1>6. \A k \in Loops' : LoopOK(beat'[k])
  BY <1>1, <1>4, <1>5 DEF LoopInv
<1> QED BY <1>1, <1>3, <1>4, <1>5, <1>6

\* The loop after a tool.
LEMMA DoneIsOK ==
  ASSUME LoopInv, NEW l \in Loops, beat[l].at \in {"acting", "sending"}
  PROVE  /\ LoopOK(Done(l)) /\ Done(l).at \in {"acting", "turn", "summing"}
         /\ Done(l).talk = beat[l].talk /\ Done(l).late = beat[l].late
         /\ Done(l).cancelled = beat[l].cancelled
<1> DEFINE b == beat[l]
<1>1. LoopOK(b)
  BY DEF LoopInv
<1>2. CASE Len(b.todo) > 1
  <2>1. Tail(b.todo) \in Seq(Tools)
    BY <1>1, <1>2 DEF LoopOK, LoopRecords
  <2>2. Done(l) = [b EXCEPT !.at = "acting", !.todo = Tail(b.todo)]
    BY <1>2 DEF Done
  <2> DEFINE t == Tail(b.todo)
  <2> HIDE DEF b, t
  <2> QED BY <1>1, <2>1, <2>2 DEF LoopOK, LoopRecords, t, b
<1>3. CASE ~(Len(b.todo) > 1)
  <2> DEFINE stage == IF b.turn < MaxTurns THEN "turn" ELSE "summing"
             t == <<>>
  <2>1. stage \in {"turn", "summing"} /\ (stage = "turn" => b.turn < MaxTurns)
    OBVIOUS
  <2>2. Done(l) = [b EXCEPT !.at = stage, !.todo = t]
    BY <1>3 DEF Done
  <2>3. t \in Seq(Tools)
    OBVIOUS
  <2> HIDE DEF b, stage, t
  <2> QED BY <1>1, <2>1, <2>2, <2>3 DEF LoopOK, LoopRecords, b
<1> QED BY <1>2, <1>3

\* The variables besides the loops keep their types.
OthersTyped ==
  /\ isRunning \in BOOLEAN /\ inTick \in BOOLEAN /\ trigger \in BOOLEAN
  /\ queue \in Seq(Messages)
  /\ steering = NilChannel \/ steering \in Seq(Messages)
  /\ liveMode \in BeatModes /\ told \subseteq Messages

\* A step that changes one loop.
LEMMA SetKeeps ==
  ASSUME LoopInv, NEW l \in Loops, NEW x, LoopOK(x), Set(l, x), OthersTyped'
  PROVE  LoopInv'
BY SetIsTyped DEF LoopInv, BeatTypeOK, OthersTyped

\* The handlers.
LEMMA HandlersKeepLoops ==
  ASSUME LoopInv, Start \/ Stop \/ HandleMessage \/ Feedback \/ SetMode
  PROVE  LoopInv'
<1>0. OthersTyped /\ beat \in Seq(LoopRecords) /\ Len(beat) <= MaxStarts /\ MaxStarts \in Nat
  BY BeatAssumption DEF LoopInv, BeatTypeOK, OthersTyped
<1>1. CASE Start
  <2> DEFINE x == [at |-> "starting", cancelled |-> FALSE, first |-> TRUE,
                   talk |-> <<>>, turn |-> 0, todo |-> <<>>, mode |-> NoMode, late |-> 0]
  <2>1. <<>> \in Seq(Messages) /\ <<>> \in Seq(Tools) /\ 0 \in 0..MaxTurns
    BY BeatAssumption
  <2>2. LoopOK(x)
    BY <2>1 DEF LoopOK, LoopRecords
  <2>3. beat' = Append(beat, x) /\ Len(beat) < MaxStarts
    BY <1>1 DEF Start
  <2> HIDE DEF x
  <2>4. /\ beat' \in Seq(LoopRecords) /\ Len(beat') = Len(beat) + 1
        /\ beat'[Len(beat) + 1] = x /\ \A k \in 1..Len(beat) : beat'[k] = beat[k]
    BY <1>0, <2>2, <2>3 DEF LoopOK
  <2>5. \A k \in Loops' : LoopOK(beat'[k])
    <3> SUFFICES ASSUME NEW k \in 1..(Len(beat) + 1) PROVE LoopOK(beat'[k])
      BY <2>4 DEF Loops
    <3>1. CASE k \in 1..Len(beat)
      BY <1>0, <2>4, <3>1 DEF LoopInv, Loops
    <3>2. CASE k = Len(beat) + 1
      BY <2>2, <2>4, <3>2
    <3> QED BY <1>0, <3>1, <3>2
  <2>6. Len(beat') <= MaxStarts
    BY <1>0, <2>3, <2>4
  <2>7. OthersTyped'
    BY <1>0, <1>1 DEF Start, OthersTyped
  <2> QED BY <2>4, <2>5, <2>6, <2>7 DEF LoopInv, BeatTypeOK, OthersTyped
<1>2. CASE Stop
  <2>1. CASE beat = <<>>
    <3>1. beat' = <<>>
      BY <1>2, <2>1 DEF Stop, Set
    <3> QED BY <1>0, <1>2, <2>1, <3>1 DEF Stop, LoopInv, BeatTypeOK, OthersTyped, Loops
  <2>2. CASE beat # <<>>
    <3> DEFINE n == Len(beat)
               x == [beat[n] EXCEPT !.cancelled = TRUE]
    <3>1. n \in Loops
      BY <1>0, <2>2 DEF Loops
    <3>2. LoopOK(beat[n])
      BY <3>1 DEF LoopInv
    <3>3. LoopOK(x)
      BY <3>2 DEF LoopOK, LoopRecords
    <3>4. Set(n, x) /\ OthersTyped'
      BY <1>0, <1>2 DEF Stop, OthersTyped
    <3> HIDE DEF n, x
    <3> QED BY <3>1, <3>3, <3>4, SetKeeps
  <2> QED BY <2>1, <2>2
<1>3. ASSUME NEW m \in Messages, Inject(m)
      PROVE  LoopInv'
  <2>1. queue' \in Seq(Messages) /\ (steering' = NilChannel \/ steering' \in Seq(Messages))
    <3>1. Append(queue, m) \in Seq(Messages)
      BY <1>0 DEF OthersTyped
    <3>2. steering \in Seq(Messages) => Append(steering, m) \in Seq(Messages)
      OBVIOUS
    <3> QED BY <1>0, <1>3, <3>1, <3>2 DEF Inject, OthersTyped
  <2>2. trigger' \in BOOLEAN
    BY <1>0, <1>3 DEF Inject, OthersTyped
  <2> QED BY <1>0, <1>3, <2>1, <2>2 DEF Inject, LoopInv, BeatTypeOK, OthersTyped, Loops
<1>4. CASE SetMode
  BY <1>0, <1>4 DEF SetMode, LoopInv, BeatTypeOK, OthersTyped, Loops
<1> QED BY <1>1, <1>2, <1>3, <1>4 DEF HandleMessage, Feedback

\* The loop.
LEMMA LoopStepsKeepLoops ==
  ASSUME LoopInv, NEW l \in Loops, BeatLoopNext(l)
  PROVE  LoopInv'
<1> DEFINE b == beat[l]
<1>0. OthersTyped /\ LoopOK(b) /\ MaxTurns \in Nat \ {0} /\ 0 \in 0..MaxTurns
  BY BeatAssumption DEF LoopInv, BeatTypeOK, OthersTyped
<1>1. CASE BeginTick(l)
  <2> DEFINE x == [b EXCEPT !.at = "preparing", !.talk = queue]
  <2>1. b.at \in {"starting", "waiting"}
    BY <1>1 DEF BeginTick
  <2> HIDE DEF b
  <2>2. LoopOK(x)
    BY <1>0, <2>1 DEF LoopOK, LoopRecords, OthersTyped
  <2>3. Set(l, x)
    BY <1>1 DEF BeginTick, b
  <2>4. OthersTyped'
    <3>1. <<>> \in Seq(Messages)
      OBVIOUS
    <3> QED BY <1>0, <1>1, <3>1 DEF BeginTick, OthersTyped
  <2> HIDE DEF x
  <2> QED BY <2>2, <2>3, <2>4, SetKeeps
<1>2. CASE Prepare(l)
  <2> DEFINE x == [b EXCEPT !.at = "turn", !.mode = liveMode]
  <2>1. b.at = "preparing" /\ Set(l, x) /\ OthersTyped'
    BY <1>0, <1>2 DEF Prepare, OthersTyped
  <2> HIDE DEF b
  <2>2. x \in LoopRecords /\ b.turn = 0 /\ 0 < MaxTurns
    <3> DEFINE m == liveMode
    <3>1. m \in BeatModes \union {NoMode}
      BY <1>0 DEF OthersTyped
    <3>2. x = [b EXCEPT !.at = "turn", !.mode = m]
      OBVIOUS
    <3> HIDE DEF m, x
    <3>3. x \in LoopRecords
      BY <1>0, <3>1, <3>2 DEF LoopOK, LoopRecords
    <3>4. b.turn = 0 /\ 0 < MaxTurns
      BY <1>0, <2>1 DEF LoopOK
    <3> QED BY <3>3, <3>4
  <2>3. x.at = "turn" /\ x.turn = b.turn /\ x.late = b.late /\ x.cancelled = b.cancelled
    BY <1>0 DEF LoopOK, LoopRecords
  <2>4. LoopOK(x)
    BY <1>0, <2>2, <2>3 DEF LoopOK
  <2> HIDE DEF x
  <2> QED BY <2>1, <2>4, SetKeeps
<1>3. CASE Turn(l)
  <2> DEFINE new == IF steering = NilChannel THEN <<>> ELSE steering
             t == b.talk \o new
             x == [b EXCEPT !.at = "asking", !.talk = t, !.turn = @ + 1]
  <2>1. new \in Seq(Messages)
    <3>1. <<>> \in Seq(Messages)
      OBVIOUS
    <3> QED BY <1>0, <3>1 DEF OthersTyped
  <2>2. b.at = "turn" /\ Set(l, x)
    BY <1>3 DEF Turn
  <2>3. OthersTyped'
    <3>1. <<>> \in Seq(Messages)
      OBVIOUS
    <3> QED BY <1>0, <1>3, <3>1 DEF Turn, OthersTyped
  <2>4. t \in Seq(Messages)
    BY <1>0, <2>1 DEF LoopOK, LoopRecords
  <2> HIDE DEF b, new, t
  <2>6. b.turn + 1 \in 0..MaxTurns
    BY <1>0, <2>2 DEF LoopOK, LoopRecords
  <2> DEFINE n == b.turn + 1
  <2>7. x = [b EXCEPT !.at = "asking", !.talk = t, !.turn = n]
    OBVIOUS
  <2> HIDE DEF n
  <2>8. /\ x \in LoopRecords /\ x.at = "asking" /\ x.late = b.late /\ x.cancelled = b.cancelled
    BY <1>0, <2>4, <2>6, <2>7 DEF LoopOK, LoopRecords, n
  <2>5. LoopOK(x)
    BY <1>0, <2>8 DEF LoopOK
  <2> HIDE DEF x
  <2> QED BY <2>2, <2>3, <2>5, SetKeeps
<1>4. CASE Respond(l)
  <2>1. PICK r \in Replies \ {<<>>} : Set(l, [b EXCEPT !.at = "acting", !.todo = r])
    BY <1>4 DEF Respond
  <2> DEFINE x == [b EXCEPT !.at = "acting", !.todo = r]
  <2>2. OthersTyped' /\ r \in Seq(Tools)
    BY <1>0, <1>4, BeatAssumption DEF Respond, OthersTyped
  <2> HIDE DEF b
  <2>3. LoopOK(x)
    BY <1>0, <2>2 DEF LoopOK, LoopRecords
  <2>4. Set(l, x)
    BY <2>1
  <2> HIDE DEF x
  <2> QED BY <2>2, <2>3, <2>4, SetKeeps
<1>5. CASE Set(l, Done(l)) /\ beat[l].at = "acting" /\ OthersTyped'
  BY <1>5, DoneIsOK, SetKeeps
<1>6. CASE ProposeOrder(l) \/ OtherTool(l)
  BY <1>0, <1>5, <1>6 DEF ProposeOrder, OtherTool, OthersTyped
<1>7. CASE CheckSpot(l)
  <2>1. CASE ~b.cancelled /\ Goes(l, "sending")
    <3> DEFINE x == [b EXCEPT !.at = "sending"]
    <3>1. Set(l, x) /\ OthersTyped' /\ ~b.cancelled
      BY <1>0, <1>7, <2>1 DEF Goes, CheckSpot, OthersTyped
    <3> HIDE DEF b
    <3>2. LoopOK(x)
      BY <1>0, <3>1 DEF LoopOK, LoopRecords
    <3> HIDE DEF x
    <3> QED BY <3>1, <3>2, SetKeeps
  <2>2. CASE Set(l, Done(l))
    BY <1>0, <1>5, <1>7, <2>2 DEF CheckSpot, OthersTyped
  <2> QED BY <1>7, <2>1, <2>2 DEF CheckSpot
<1>8. CASE SendOrder(l)
  <2>1. PICK brokerUp \in BOOLEAN :
          Set(l, [Done(l) EXCEPT !.late =
            IF brokerUp /\ Executes(liveMode) /\ b.cancelled THEN @ + 1 ELSE @])
    BY <1>8 DEF SendOrder
  <2> DEFINE d == Done(l)
             n == IF brokerUp /\ Executes(liveMode) /\ b.cancelled THEN d.late + 1 ELSE d.late
             x == [d EXCEPT !.late = n]
  <2>2. LoopOK(d) /\ d.at \in {"acting", "turn", "summing"} /\ d.late = 0 /\ d.cancelled = b.cancelled
    BY <1>0, <1>8, DoneIsOK DEF SendOrder, LoopOK
  <2>3. n \in {0, 1} /\ (n = 1 => d.cancelled)
    BY <2>2
  <2>4. Set(l, x) /\ OthersTyped'
    BY <1>0, <1>8, <2>1 DEF SendOrder, OthersTyped
  <2> HIDE DEF d, n
  <2>5. LoopOK(x)
    BY <2>2, <2>3 DEF LoopOK, LoopRecords
  <2> HIDE DEF x
  <2> QED BY <2>4, <2>5, SetKeeps
<1>9. CASE EndTick(l)
  <2> DEFINE x == [b EXCEPT !.at = "waiting", !.first = FALSE, !.talk = <<>>,
                            !.turn = 0, !.todo = <<>>, !.mode = NoMode]
  <2>1. <<>> \in Seq(Messages) /\ <<>> \in Seq(Tools)
    OBVIOUS
  <2>2. Set(l, x)
    BY <1>9 DEF EndTick
  <2>3. OthersTyped'
    BY <1>0, <1>9, <2>1 DEF EndTick, OthersTyped
  <2> DEFINE e == <<>>
  <2> HIDE DEF b
  <2>4. LoopOK(x)
    BY <1>0, <2>1 DEF LoopOK, LoopRecords
  <2> HIDE DEF x
  <2> QED BY <2>2, <2>3, <2>4, SetKeeps
<1>10. CASE EndLoop(l)
  <2> DEFINE x == [b EXCEPT !.at = "ended"]
  <2>1. Set(l, x) /\ OthersTyped'
    BY <1>0, <1>10 DEF EndLoop, Goes, OthersTyped
  <2> HIDE DEF b
  <2>2. LoopOK(x)
    BY <1>0 DEF LoopOK, LoopRecords
  <2> HIDE DEF x
  <2> QED BY <2>1, <2>2, SetKeeps
<1> QED BY <1>1, <1>2, <1>3, <1>4, <1>6, <1>7, <1>8, <1>9, <1>10 DEF BeatLoopNext, InBeat

\* There is no loop before the first Start.
LEMMA BeginsWithoutLoops == BeatInit => LoopInv
<1>1. <<>> \in Seq(Messages) /\ <<>> \in Seq(LoopRecords) /\ Len(<<>>) <= MaxStarts
  BY BeatAssumption
<1>2. BeatInit => BeatTypeOK
  BY <1>1 DEF BeatInit, BeatTypeOK
<1>3. BeatInit => Loops = {}
  BY DEF BeatInit, Loops
<1> QED BY <1>2, <1>3 DEF LoopInv

\* Every step keeps the invariant of the loops.
LEMMA StepKeepsLoops == LoopInv /\ [BeatNext]_beatVars => LoopInv'
<1>1. LoopInv /\ UNCHANGED beatVars => LoopInv'
  BY DEF beatVars, LoopInv, BeatTypeOK, Loops
<1> QED BY <1>1, HandlersKeepLoops, LoopStepsKeepLoops DEF BeatNext

\* The invariant of the loops holds in every reachable state.
LEMMA LoopInvariant == BeatSpec => []LoopInv
BY BeginsWithoutLoops, StepKeepsLoops, PTL DEF BeatSpec

\* The queue, the channels, the loops and the mode keep their types; a beat
\* never has more turns than its limit.
THEOREM BeatTypeCorrect == BeatSpec => []BeatTypeOK
<1>1. LoopInv => BeatTypeOK
  BY DEF LoopInv
<1> QED BY <1>1, LoopInvariant, PTL

\* After Stop a loop sends at most the one order that its cancelled context
\* no longer reaches, whatever the model asks for and the human switches.
THEOREM AtMostOneLateOrder == BeatSpec => []OneOrderAfterStop
<1>1. LoopInv => OneOrderAfterStop
  BY DEF LoopInv, LoopOK, OneOrderAfterStop
<1> QED BY <1>1, LoopInvariant, PTL

-----------------------------------------------------------------------------
(* What is said *)

\* What waits in the steering channel.
Said == IF steering = NilChannel THEN <<>> ELSE steering

Once(q) == \A i, j \in DOMAIN q : q[i] = q[j] => i = j
Apart(p, q) == \A i \in DOMAIN p, j \in DOMAIN q : p[i] # q[j]
Within(q, S) == \A i \in DOMAIN q : q[i] \in S

\* The inductive invariant of the messages: what was told is in one place.
TextInv ==
  /\ Once(queue) /\ Once(Said) /\ Apart(queue, Said)
  /\ Within(queue, told) /\ Within(Said, told)
  /\ \A l \in Loops :
       /\ Once(beat[l].talk) /\ Within(beat[l].talk, told)
       /\ Apart(queue, beat[l].talk) /\ Apart(Said, beat[l].talk)
       /\ \A k \in Loops : k # l => Apart(beat[l].talk, beat[k].talk)

\* An empty place repeats nothing.
LEMMA EmptyText ==
  ASSUME NEW q, NEW S
  PROVE  Once(<<>>) /\ Apart(<<>>, q) /\ Apart(q, <<>>) /\ Within(<<>>, S)
BY DEF Once, Apart, Within

\* A new message at the end of a place.
LEMMA AppendText ==
  ASSUME NEW q \in Seq(Messages), NEW S, NEW m \in Messages, m \notin S, Once(q), Within(q, S)
  PROVE  /\ Once(Append(q, m)) /\ Within(Append(q, m), S \union {m})
         /\ \A p : (Within(p, S) /\ Apart(q, p)) => Apart(Append(q, m), p) /\ Apart(p, Append(q, m))
<1> DEFINE r == Append(q, m)
<1>1. /\ DOMAIN q = 1..Len(q) /\ Len(q) \in Nat /\ DOMAIN r = 1..(Len(q) + 1)
      /\ r[Len(q) + 1] = m /\ \A i \in 1..Len(q) : r[i] = q[i]
  OBVIOUS
<1> HIDE DEF r
<1>2. Once(r)
  BY <1>1 DEF Once, Within
<1>3. Within(r, S \union {m})
  BY <1>1 DEF Within
<1>4. ASSUME NEW p, Within(p, S), Apart(q, p) PROVE Apart(r, p) /\ Apart(p, r)
  BY <1>1, <1>4 DEF Apart, Within
<1> QED BY <1>2, <1>3, <1>4 DEF r

\* One place joined to another.
LEMMA JoinText ==
  ASSUME NEW p \in Seq(Messages), NEW q \in Seq(Messages), NEW S,
         Once(p), Once(q), Apart(q, p), Within(p, S), Within(q, S)
  PROVE  /\ Once(p \o q) /\ Within(p \o q, S)
         /\ \A t : (Apart(t, p) /\ Apart(t, q)) => Apart(t, p \o q) /\ Apart(p \o q, t)
<1> DEFINE r == p \o q
<1>1. /\ Len(p) \in Nat /\ Len(q) \in Nat /\ DOMAIN p = 1..Len(p) /\ DOMAIN q = 1..Len(q)
      /\ DOMAIN r = 1..(Len(p) + Len(q))
  OBVIOUS
<1>2. \A i \in 1..(Len(p) + Len(q)) : r[i] = IF i <= Len(p) THEN p[i] ELSE q[i - Len(p)]
  OBVIOUS
<1> HIDE DEF r
<1>3. ASSUME NEW i \in 1..(Len(p) + Len(q))
      PROVE  \/ i \in DOMAIN p /\ r[i] = p[i]
             \/ i - Len(p) \in DOMAIN q /\ r[i] = q[i - Len(p)]
  BY <1>1, <1>2
<1>4. Within(r, S)
  BY <1>1, <1>3 DEF Within
<1>5. ASSUME NEW t, Apart(t, p), Apart(t, q) PROVE Apart(t, r) /\ Apart(r, t)
  BY <1>1, <1>3, <1>5 DEF Apart
<1>6. Once(r)
  <2> SUFFICES ASSUME NEW i \in 1..(Len(p) + Len(q)), NEW j \in 1..(Len(p) + Len(q)), r[i] = r[j]
               PROVE  i = j
    BY <1>1 DEF Once
  <2>1. \/ i \in DOMAIN p /\ r[i] = p[i]
        \/ i - Len(p) \in DOMAIN q /\ r[i] = q[i - Len(p)]
    BY <1>3
  <2>2. \/ j \in DOMAIN p /\ r[j] = p[j]
        \/ j - Len(p) \in DOMAIN q /\ r[j] = q[j - Len(p)]
    BY <1>3
  <2>3. CASE i \in DOMAIN p /\ r[i] = p[i] /\ j \in DOMAIN p /\ r[j] = p[j]
    BY <2>3 DEF Once
  <2>4. CASE i \in DOMAIN p /\ r[i] = p[i] /\ j - Len(p) \in DOMAIN q /\ r[j] = q[j - Len(p)]
    BY <2>4 DEF Apart
  <2>5. CASE i - Len(p) \in DOMAIN q /\ r[i] = q[i - Len(p)] /\ j \in DOMAIN p /\ r[j] = p[j]
    BY <2>5 DEF Apart
  <2>6. CASE i - Len(p) \in DOMAIN q /\ r[i] = q[i - Len(p)] /\ j - Len(p) \in DOMAIN q /\ r[j] = q[j - Len(p)]
    <3>1. i - Len(p) = j - Len(p)
      BY <2>6 DEF Once
    <3> QED BY <1>1, <3>1
  <2> QED BY <2>1, <2>2, <2>3, <2>4, <2>5, <2>6
<1> QED BY <1>4, <1>5, <1>6 DEF r

\* A step that only empties places.
LEMMA EmptyingKeeps ==
  ASSUME TextInv, queue' \in {queue, <<>>}, Said' \in {Said, <<>>}, told' = told,
         \A k \in Loops' : \/ beat'[k].talk = <<>>
                           \/ k \in Loops /\ beat'[k].talk = beat[k].talk
  PROVE  TextInv'
<1>1. Once(queue') /\ Once(Said') /\ Apart(queue', Said') /\ Within(queue', told) /\ Within(Said', told)
  BY EmptyText DEF TextInv
<1>2. ASSUME NEW l \in Loops'
      PROVE  /\ Once(beat'[l].talk) /\ Within(beat'[l].talk, told)
             /\ Apart(queue', beat'[l].talk) /\ Apart(Said', beat'[l].talk)
  BY <1>2, EmptyText DEF TextInv
<1>3. ASSUME NEW l \in Loops', NEW k \in Loops', k # l
      PROVE  Apart(beat'[l].talk, beat'[k].talk)
  BY <1>3, EmptyText DEF TextInv
<1> QED BY <1>1, <1>2, <1>3 DEF TextInv

\* A step of loop l that keeps or empties its conversation.
LEMMA StillTalk ==
  ASSUME LoopInv, TextInv, NEW l \in Loops, NEW x, Set(l, x), x.talk \in {beat[l].talk, <<>>},
         queue' = queue, Said' \in {Said, <<>>}, told' = told
  PROVE  TextInv'
<1>1. beat \in Seq(LoopRecords) /\ l \in 1..Len(beat) /\ Loops = DOMAIN beat
  BY DEF LoopInv, BeatTypeOK, Loops
<1>2. Loops' = Loops /\ beat'[l] = x /\ \A k \in Loops : k # l => beat'[k] = beat[k]
  BY <1>1 DEF Set, Loops
<1> QED BY <1>2, EmptyingKeeps

\* The queue becomes a conversation, or the steering channel joins one.
LEMMA TakingKeeps ==
  ASSUME LoopInv, TextInv, NEW l \in Loops, BeginTick(l) \/ Turn(l)
  PROVE  TextInv'
<1>0. /\ beat \in Seq(LoopRecords) /\ l \in 1..Len(beat) /\ Loops = DOMAIN beat
      /\ queue \in Seq(Messages) /\ beat[l].talk \in Seq(Messages)
      /\ beat[l] \in LoopRecords
  <2>1. beat \in Seq(LoopRecords) /\ l \in 1..Len(beat) /\ Loops = DOMAIN beat /\ queue \in Seq(Messages)
    BY DEF LoopInv, BeatTypeOK, Loops
  <2>2. beat[l] \in LoopRecords
    BY DEF LoopInv, LoopOK
  <2> QED BY <2>1, <2>2 DEF LoopRecords
<1>1. CASE BeginTick(l)
  <2> DEFINE x == [beat[l] EXCEPT !.at = "preparing", !.talk = queue]
  <2>1. x.talk = queue
    BY <1>0 DEF LoopRecords
  <2>2. Set(l, x)
    BY <1>1 DEF BeginTick
  <2> HIDE DEF x
  <2>3. Loops' = Loops /\ beat'[l] = x /\ \A k \in Loops : k # l => beat'[k] = beat[k]
    BY <1>0, <2>2 DEF Set, Loops
  <2>4. queue' = <<>> /\ Said' = Said /\ told' = told
    BY <1>1 DEF BeginTick, Said
  <2>5. \A p, q : Apart(p, q) => Apart(q, p)
    BY DEF Apart
  <2>6. ASSUME NEW k \in Loops
        PROVE  /\ Once(beat'[k].talk) /\ Within(beat'[k].talk, told)
               /\ Apart(queue', beat'[k].talk) /\ Apart(Said, beat'[k].talk)
    BY <2>1, <2>3, <2>4, <2>5, EmptyText DEF TextInv
  <2>7. ASSUME NEW j \in Loops, NEW k \in Loops, k # j
        PROVE  Apart(beat'[j].talk, beat'[k].talk)
    BY <2>1, <2>3, <2>5, <2>7 DEF TextInv
  <2> QED BY <2>3, <2>4, <2>6, <2>7, EmptyText DEF TextInv
<1>2. CASE Turn(l)
  <2> DEFINE t == beat[l].talk \o Said
             x == [beat[l] EXCEPT !.at = "asking", !.talk = t, !.turn = @ + 1]
  <2>1. x.talk = t
    BY <1>0 DEF LoopRecords
  <2>2. Set(l, x)
    BY <1>2 DEF Turn, Said
  <2>3. Said \in Seq(Messages)
    <3>1. <<>> \in Seq(Messages)
      OBVIOUS
    <3> QED BY <3>1 DEF LoopInv, BeatTypeOK, Said
  <2>4. /\ Once(beat[l].talk) /\ Once(Said) /\ Apart(Said, beat[l].talk)
        /\ Within(beat[l].talk, told) /\ Within(Said, told)
    BY DEF TextInv
  <2>5. Once(t) /\ Within(t, told)
    BY <1>0, <2>3, <2>4, JoinText
  <2>6. \A p : (Apart(p, beat[l].talk) /\ Apart(p, Said)) => Apart(p, t) /\ Apart(t, p)
    BY <1>0, <2>3, <2>4, JoinText
  <2> HIDE DEF t, x
  <2>7. Loops' = Loops /\ beat'[l] = x /\ \A k \in Loops : k # l => beat'[k] = beat[k]
    BY <1>0, <2>2 DEF Set, Loops
  <2>8. queue' = queue /\ Said' = <<>> /\ told' = told
    BY <1>2 DEF Turn, Said
  <2>9. \A p, q : Apart(p, q) => Apart(q, p)
    BY DEF Apart
  <2>10. ASSUME NEW k \in Loops
         PROVE  /\ Once(beat'[k].talk) /\ Within(beat'[k].talk, told)
                /\ Apart(queue, beat'[k].talk)
    BY <2>1, <2>5, <2>6, <2>7 DEF TextInv
  <2>11. ASSUME NEW j \in Loops, NEW k \in Loops, k # j
         PROVE  Apart(beat'[j].talk, beat'[k].talk)
    <3>1. ASSUME NEW i \in Loops, i # l PROVE Apart(beat[i].talk, t) /\ Apart(t, beat[i].talk)
      BY <2>6, <2>9, <3>1 DEF TextInv
    <3> QED BY <2>1, <2>7, <2>11, <3>1 DEF TextInv
  <2> QED BY <2>7, <2>8, <2>10, <2>11, EmptyText DEF TextInv
<1> QED BY <1>1, <1>2

\* A message is told for the first time.
LEMMA InjectKeeps ==
  ASSUME LoopInv, TextInv, NEW m \in Messages, m \notin told, Inject(m)
  PROVE  TextInv'
<1>0. queue \in Seq(Messages) /\ (steering = NilChannel \/ steering \in Seq(Messages))
  BY DEF LoopInv, BeatTypeOK
<1>1. beat' = beat /\ told' = told \union {m} /\ Loops' = Loops
  BY DEF Inject, Loops
<1>2. \A p : Within(p, told) => Within(p, told')
  BY <1>1 DEF Within
<1>3. \A p, q : Apart(p, q) => Apart(q, p)
  BY DEF Apart
<1>4. CASE queue' = Append(queue, m) /\ steering' = steering
  <2>1. Said' = Said
    BY <1>4 DEF Said
  <2>2. Once(queue) /\ Within(queue, told)
    BY DEF TextInv
  <2> DEFINE r == Append(queue, m)
  <2>3. Once(r) /\ Within(r, told \union {m})
    BY <1>0, <2>2, AppendText
  <2>4. \A p : (Within(p, told) /\ Apart(queue, p)) => Apart(r, p) /\ Apart(p, r)
    BY <1>0, <2>2, AppendText
  <2> HIDE DEF r
  <2>5. queue' = r
    BY <1>4 DEF r
  <2>6. Apart(r, Said) /\ \A l \in Loops : Apart(r, beat[l].talk)
    BY <2>4 DEF TextInv
  <2> QED BY <1>1, <1>2, <2>1, <2>3, <2>5, <2>6 DEF TextInv
<1>5. CASE queue' = queue /\ steering # NilChannel /\ steering' = Append(steering, m)
  <2>1. Said = steering /\ Said \in Seq(Messages) /\ Said' \in {<<>>, Append(Said, m)}
    BY <1>0, <1>5 DEF Said
  <2>2. Once(Said) /\ Within(Said, told)
    BY DEF TextInv
  <2> DEFINE r == Append(Said, m)
  <2>3. Once(r) /\ Within(r, told \union {m})
    BY <2>1, <2>2, AppendText
  <2>4. \A p : (Within(p, told) /\ Apart(Said, p)) => Apart(r, p) /\ Apart(p, r)
    BY <2>1, <2>2, AppendText
  <2> HIDE DEF r
  <2>5. Said' = r \/ Said' = <<>>
    BY <2>1 DEF r
  <2>6. Apart(queue, r) /\ \A l \in Loops : Apart(r, beat[l].talk)
    BY <1>3, <2>4 DEF TextInv
  <2>7. /\ Once(Said') /\ Within(Said', told') /\ Apart(queue, Said')
        /\ \A l \in Loops : Apart(Said', beat[l].talk)
    BY <1>1, <2>3, <2>5, <2>6, EmptyText
  <2> QED BY <1>1, <1>2, <1>5, <2>7 DEF TextInv
<1>6. CASE queue' = queue /\ steering' = steering
  <2>1. Said' = Said
    BY <1>6 DEF Said
  <2> QED BY <1>1, <1>2, <1>6, <2>1 DEF TextInv
<1> QED BY <1>4, <1>5, <1>6 DEF Inject

\* Every step keeps the invariant of the messages.
LEMMA StepKeepsText ==
  ASSUME LoopInv, TextInv, [BeatNext]_beatVars
  PROVE  TextInv'
<1>0. beat \in Seq(LoopRecords) /\ Loops = DOMAIN beat /\ DOMAIN beat = 1..Len(beat) /\ Len(beat) \in Nat
  BY DEF LoopInv, BeatTypeOK, Loops
<1>1. CASE Start
  <2> DEFINE x == [at |-> "starting", cancelled |-> FALSE, first |-> TRUE,
                   talk |-> <<>>, turn |-> 0, todo |-> <<>>, mode |-> NoMode, late |-> 0]
  <2>1. beat' = Append(beat, x) /\ x.talk = <<>>
    BY <1>1 DEF Start
  <2> HIDE DEF x
  <2>2. /\ DOMAIN beat' = 1..(Len(beat) + 1) /\ beat'[Len(beat) + 1] = x
        /\ \A k \in 1..Len(beat) : beat'[k] = beat[k]
    BY <1>0, <2>1
  <2>3. \A k \in Loops' : beat'[k].talk = <<>> \/ (k \in Loops /\ beat'[k].talk = beat[k].talk)
    BY <1>0, <2>1, <2>2 DEF Loops
  <2> QED BY <1>1, <2>3, EmptyingKeeps DEF Start, Said
<1>2. CASE Stop
  <2> DEFINE n == Len(beat)
  <2>1. beat' = [beat EXCEPT ![n] = [beat[n] EXCEPT !.cancelled = TRUE]]
    BY <1>2 DEF Stop, Set
  <2>2. Loops' = Loops /\ \A k \in Loops : k # n => beat'[k] = beat[k]
    BY <1>0, <2>1 DEF Loops
  <2>3. n \in Loops => beat'[n].talk = beat[n].talk
    <3>1. n \in Loops => beat[n] \in LoopRecords /\ beat'[n] = [beat[n] EXCEPT !.cancelled = TRUE]
      BY <1>0, <2>1
    <3> HIDE DEF n
    <3> QED BY <3>1 DEF LoopRecords
  <2> HIDE DEF n
  <2> QED BY <1>2, <2>2, <2>3, EmptyingKeeps DEF Stop, Said
<1>3. CASE HandleMessage \/ Feedback
  BY <1>3, InjectKeeps DEF HandleMessage, Feedback
<1>4. CASE SetMode
  BY <1>4, EmptyingKeeps DEF SetMode, Said, Loops
<1>5. ASSUME NEW l \in Loops, BeatLoopNext(l)
      PROVE  TextInv'
  <2> DEFINE b == beat[l]
  <2>0. b \in LoopRecords
    BY DEF LoopInv, LoopOK
  <2>1. CASE BeginTick(l) \/ Turn(l)
    BY <2>1, TakingKeeps
  <2>2. CASE \E x : Set(l, x) /\ x.talk \in {b.talk, <<>>}
                    /\ queue' = queue /\ Said' \in {Said, <<>>} /\ told' = told
    BY <2>2, StillTalk
  <2>3. CASE Prepare(l)
    <3> DEFINE x == [b EXCEPT !.at = "turn", !.mode = liveMode]
    <3>1. Set(l, x) /\ queue' = queue /\ Said' = Said /\ told' = told
      BY <2>3 DEF Prepare, Said
    <3>2. x.talk = b.talk
      BY <2>0 DEF LoopRecords
    <3> HIDE DEF x
    <3> QED BY <2>2, <3>1, <3>2
  <2>4. CASE Respond(l)
    <3>1. PICK r \in Replies : Set(l, [b EXCEPT !.at = "acting", !.todo = r])
      BY <2>4 DEF Respond
    <3> DEFINE x == [b EXCEPT !.at = "acting", !.todo = r]
    <3>2. Set(l, x) /\ queue' = queue /\ Said' = Said /\ told' = told
      BY <2>4, <3>1 DEF Respond, Said
    <3>3. x.talk = b.talk
      BY <2>0 DEF LoopRecords
    <3> HIDE DEF x
    <3> QED BY <2>2, <3>2, <3>3
  <2>5. CASE /\ Set(l, Done(l)) /\ b.at \in {"acting", "sending"}
             /\ queue' = queue /\ Said' = Said /\ told' = told
    BY <2>2, <2>5, DoneIsOK
  <2>6. CASE ProposeOrder(l) \/ OtherTool(l)
    BY <2>5, <2>6 DEF ProposeOrder, OtherTool, Said
  <2>7. CASE CheckSpot(l)
    <3>1. queue' = queue /\ Said' = Said /\ told' = told /\ b.at = "acting"
      BY <2>7 DEF CheckSpot, Said
    <3>2. CASE Goes(l, "sending")
      <4> DEFINE x == [b EXCEPT !.at = "sending"]
      <4>1. Set(l, x)
        BY <3>2 DEF Goes
      <4>2. x.talk = b.talk
        BY <2>0 DEF LoopRecords
      <4> HIDE DEF x
      <4> QED BY <2>2, <3>1, <4>1, <4>2
    <3> QED BY <2>5, <2>7, <3>1, <3>2 DEF CheckSpot
  <2>8. CASE SendOrder(l)
    <3>1. PICK brokerUp \in BOOLEAN :
            Set(l, [Done(l) EXCEPT !.late =
              IF brokerUp /\ Executes(liveMode) /\ b.cancelled THEN @ + 1 ELSE @])
      BY <2>8 DEF SendOrder
    <3> DEFINE n == IF brokerUp /\ Executes(liveMode) /\ b.cancelled THEN Done(l).late + 1 ELSE Done(l).late
               d == Done(l)
               x == [d EXCEPT !.late = n]
    <3>2. Set(l, x) /\ queue' = queue /\ Said' = Said /\ told' = told
      BY <2>8, <3>1 DEF SendOrder, Said
    <3>3. d \in LoopRecords /\ d.talk = b.talk
      BY <2>8, DoneIsOK DEF SendOrder, LoopOK
    <3> HIDE DEF n, d
    <3>4. x.talk = b.talk
      BY <3>3 DEF LoopRecords
    <3> HIDE DEF x
    <3> QED BY <2>2, <3>2, <3>4
  <2>9. CASE EndTick(l)
    <3> DEFINE x == [b EXCEPT !.at = "waiting", !.first = FALSE, !.talk = <<>>,
                              !.turn = 0, !.todo = <<>>, !.mode = NoMode]
    <3>1. Set(l, x) /\ queue' = queue /\ told' = told /\ steering' \in {<<>>, steering}
      BY <2>9 DEF EndTick
    <3>2. Said' \in {Said, <<>>}
      BY <3>1 DEF Said
    <3>3. x.talk = <<>>
      BY <2>0 DEF LoopRecords
    <3> HIDE DEF x
    <3> QED BY <2>2, <3>1, <3>2, <3>3
  <2>10. CASE EndLoop(l)
    <3> DEFINE x == [b EXCEPT !.at = "ended"]
    <3>1. Set(l, x) /\ queue' = queue /\ Said' = Said /\ told' = told
      BY <2>10 DEF EndLoop, Goes, Said
    <3>2. x.talk = b.talk
      BY <2>0 DEF LoopRecords
    <3> HIDE DEF x
    <3> QED BY <2>2, <3>1, <3>2
  <2> QED BY <1>5, <2>1, <2>3, <2>4, <2>6, <2>7, <2>8, <2>9, <2>10 DEF BeatLoopNext, InBeat
<1>6. CASE UNCHANGED beatVars
  BY <1>6, EmptyingKeeps DEF beatVars, Said, Loops
<1> QED BY <1>1, <1>2, <1>3, <1>4, <1>5, <1>6 DEF BeatNext

\* What the human says is in one place, once: in the queue, in the steering
\* channel or in the conversation of one beat, even when Stop and Start let
\* two loops work at a time.
THEOREM MessagesAreSaidOnce == BeatSpec => []SaidOnce
<1>1. BeatInit => TextInv
  <2>1. BeatInit => queue = <<>> /\ Said = <<>> /\ Loops = {}
    BY DEF BeatInit, Said, Loops
  <2> QED BY <2>1, EmptyText DEF TextInv
<1>2. LoopInv /\ TextInv => SaidOnce
  <2> SUFFICES ASSUME LoopInv, TextInv,
                      NEW p \in 0..(Len(beat) + 1), NEW q \in 0..(Len(beat) + 1),
                      NEW i \in DOMAIN Conversation(p), NEW j \in DOMAIN Conversation(q),
                      Conversation(p)[i] = Conversation(q)[j]
               PROVE  p = q /\ i = j
    BY DEF SaidOnce
  <2>1. Loops = 1..Len(beat) /\ Len(beat) \in Nat
    BY DEF LoopInv, BeatTypeOK, Loops
  <2>2. /\ Conversation(0) = queue
        /\ \A l \in Loops : Conversation(l) = beat[l].talk
        /\ Conversation(Len(beat) + 1) = Said
    BY <2>1 DEF Conversation, Said
  <2>3. \A k \in 0..(Len(beat) + 1) : k = 0 \/ k \in Loops \/ k = Len(beat) + 1
    BY <2>1
  <2>4. \A k \in 0..(Len(beat) + 1) : Once(Conversation(k))
    BY <2>2, <2>3 DEF TextInv
  <2>5. p # q => Apart(Conversation(p), Conversation(q)) \/ Apart(Conversation(q), Conversation(p))
    BY <2>2, <2>3 DEF TextInv
  <2>6. p = q
    BY <2>5 DEF Apart
  <2> QED BY <2>4, <2>6 DEF Once
<1> QED BY <1>1, <1>2, LoopInvariant, StepKeepsText, PTL DEF BeatSpec

=============================================================================
