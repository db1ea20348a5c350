-------------------------- MODULE TWSClientProofs --------------------------
(***************************************************************************)
(* Proofs about TWSClient: its types; that until the manual endpoint       *)
(* replaces a session the connection the client writes to is read by one   *)
(* loop, and watched while trading is allowed; and that the client, with   *)
(* both flows, does nothing to the gate that TradingGate does not.  All of *)
(* it for any number of reconnections and of calls of the endpoint.        *)
(***************************************************************************)
EXTENDS TWSClient, TLAPS

\* The loops, as type.
LoopType == [at : {"reading", "handling", "gone"}, src : Nat]

\* No generation is shut before it begins.
ShutBegan == shut \subseteq 0..generation

\* Stages in which the auto flow has no connection, and those in which its
\* client has one of the current generation.
Down == {"halted", "clean", "drained", "reset"}
Up == {"watching", "opened", "initialised", "connected"}

\* Nobody runs the endpoint that nobody has called.
ManualIdle == manualCalls = 0 => flow["manual"].at = "watching"

\* Until the endpoint replaces a session: the only read loop at work is that
\* of the client's connection; the auto flow has buried the old one before it
\* opens the next.
OneConnection ==
  LET a == flow["auto"].at IN
  ~Replaced =>
    /\ \A s \in Sockets : loop[s].at # "gone" => s = conn /\ loop[s].src = conn
    /\ alive \subseteq {conn} /\ Nil \notin alive
    /\ generation \in shut => conn \notin alive
    /\ a \in Down => conn \notin alive
    /\ a \in {"drained", "reset"} => \A s \in Sockets : loop[s].at = "gone"
    /\ a = "reset" => conn = Nil /\ generation \notin shut
    /\ a \in Up => /\ flow["auto"].on = generation /\ conn # Nil
                   /\ generation \notin shut => loop[conn].at # "gone"
    /\ trading => a = "watching"

\* The inductive invariant.
SessionInv == SessionTypeOK /\ ShutBegan /\ ManualIdle /\ OneConnection

-----------------------------------------------------------------------------
\* Connected, with one loop and one watcher.
LEMMA InitIsOne ==
  ASSUME SessionInit
  PROVE  SessionInv
<1>1. loop \in Seq(LoopType) /\ Len(loop) = 1 /\ loop[1] = [at |-> "reading", src |-> 1]
  BY DEF SessionInit, LoopType
<1>2. Sockets = {1}
  BY <1>1 DEF Sockets
<1>3. SessionTypeOK
  BY <1>1, <1>2, ClientAssumption DEF SessionInit, SessionTypeOK, LoopType, Flows, Stages, Nil
<1> QED BY <1>1, <1>2, <1>3 DEF SessionInit, SessionInv, ShutBegan, ManualIdle, OneConnection, Flows, Nil, Down, Up

\* What the type says of the loops.
LEMMA LoopFacts ==
  ASSUME SessionInv
  PROVE  /\ loop \in Seq(LoopType) /\ Len(loop) \in Nat /\ DOMAIN loop = 1..Len(loop)
         /\ Sockets = 1..Len(loop) /\ Nil \notin Sockets
         /\ \A s \in Sockets : loop[s] \in LoopType
         /\ conn \in Nat /\ generation \in 0..MaxGeneration /\ MaxGeneration \in Nat
         /\ "auto" \in Flows /\ "manual" \in Flows
         /\ flow \in [Flows -> [at : Stages, on : 0..MaxGeneration]]
<1>1. loop \in Seq(LoopType)
  BY DEF SessionInv, SessionTypeOK, LoopType
<1>2. Len(loop) \in Nat /\ DOMAIN loop = 1..Len(loop) /\ Sockets = 1..Len(loop) /\ Nil \notin Sockets
  BY <1>1 DEF Sockets, Nil
<1>3. \A s \in Sockets : loop[s] \in LoopType
  BY <1>1, <1>2
<1>4. conn \in Nat
  BY <1>2 DEF SessionInv, SessionTypeOK, Nil
<1>5. /\ generation \in 0..MaxGeneration /\ MaxGeneration \in Nat
      /\ "auto" \in Flows /\ "manual" \in Flows
      /\ flow \in [Flows -> [at : Stages, on : 0..MaxGeneration]]
  BY ClientAssumption DEF SessionInv, SessionTypeOK, Flows
<1> QED BY <1>1, <1>2, <1>3, <1>4, <1>5

\* Past the drain the endpoint replaces a session.
LEMMA OnlyAuto ==
  ASSUME SessionInv, NEW f \in Flows, ~Replaced,
         flow[f].at \notin {"watching", "halted", "clean", "drained"}
  PROVE  f = "auto"
<1> SUFFICES ASSUME f = "manual" PROVE FALSE
  BY DEF Flows
<1>1. manualCalls \in Nat /\ manualCalls # 0
  BY ClientAssumption DEF SessionInv, SessionTypeOK, ManualIdle
<1> QED BY <1>1 DEF Replaced

\* A step that does not move the endpoint replaces nothing.
LEMMA SameReplaced ==
  ASSUME flow'["manual"].at = flow["manual"].at, UNCHANGED manualCalls
  PROVE  Replaced' = Replaced
BY DEF Replaced

\* A loop that changes is still the loop of its socket.
LEMMA ChangedLoop ==
  ASSUME NEW q \in Seq(LoopType), NEW s \in 1..Len(q), NEW l \in LoopType,
         NEW new, new = [q EXCEPT ![s] = l]
  PROVE  /\ new \in Seq(LoopType) /\ Len(new) = Len(q) /\ new[s] = l
         /\ \A r \in 1..Len(q) : r # s => new[r] = q[r]
<1>1. new \in Seq(LoopType) /\ Len(new) = Len(q)
  OBVIOUS
<1>2. new[s] = l
  OBVIOUS
<1>3. \A r \in 1..Len(q) : r # s => new[r] = q[r]
  OBVIOUS
<1> QED BY <1>1, <1>2, <1>3

\* The steps of the read loops.
LEMMA LoopKeeps ==
  ASSUME SessionInv, NEW s \in Sockets, LoopNext(s)
  PROVE  SessionInv'
<1>r. Replaced' = Replaced /\ ManualIdle'
  BY SameReplaced DEF LoopNext, Drop, ReadFrame, FrameDone, RecoverNilReader, LoopExits,
                      SessionInv, ManualIdle
<1>0. /\ loop \in Seq(LoopType) /\ Sockets = 1..Len(loop) /\ Len(loop) \in Nat
      /\ \A r \in Sockets : loop[r] \in LoopType
      /\ conn \in Nat /\ generation \in 0..MaxGeneration /\ MaxGeneration \in Nat /\ Nil \notin Sockets
  BY LoopFacts
<1>1. CASE Drop(s)
  <2>1. Sockets' = Sockets
    BY <1>1 DEF Drop, Sockets
  <2>2. SessionTypeOK'
    BY <1>1, <2>1 DEF Drop, SessionInv, SessionTypeOK
  <2>3. OneConnection'
    BY <1>r, <1>1, <2>1 DEF Drop, SessionInv, OneConnection
  <2> QED BY <1>r, <1>1, <2>2, <2>3 DEF Drop, SessionInv, ShutBegan
<1>2. ASSUME NEW l \in LoopType, loop' = [loop EXCEPT ![s] = l], loop[s].at # "gone",
             l.at # "gone", ~Replaced => l.src = loop[s].src,
             UNCHANGED <<trading, conn, alive, connected, generation, shut, flow, manualCalls>>
      PROVE  SessionInv'
  <2>1. /\ loop' \in Seq(LoopType) /\ Len(loop') = Len(loop) /\ loop'[s] = l
        /\ \A r \in Sockets : r # s => loop'[r] = loop[r]
    BY <1>0, <1>2, ChangedLoop
  <2>2. Sockets' = Sockets
    BY <2>1 DEF Sockets
  <2>3. SessionTypeOK'
    BY <1>2, <2>1, <2>2 DEF SessionInv, SessionTypeOK, LoopType
  <2>4. OneConnection'
    <3> SUFFICES ASSUME ~Replaced PROVE OneConnection'
      BY <1>r DEF OneConnection
    <3>1. \A r \in Sockets : loop'[r].at = "gone" <=> loop[r].at = "gone"
      BY <1>2, <2>1
    <3>2. \A r \in Sockets : loop'[r].src = loop[r].src
      BY <1>2, <2>1
    <3>3. conn # Nil => conn \in Sockets
      BY DEF SessionInv, SessionTypeOK
    <3> QED BY <1>2, <2>2, <3>1, <3>2, <3>3 DEF SessionInv, OneConnection, Up, Down
  <2> QED BY <1>r, <1>2, <2>3, <2>4 DEF SessionInv, ShutBegan
<1>3. CASE ReadFrame(s)
  <2> DEFINE l == [loop[s] EXCEPT !.at = "handling"]
  <2>1. l \in LoopType /\ l.at = "handling" /\ l.src = loop[s].src
    BY <1>0 DEF LoopType
  <2>2. loop' = [loop EXCEPT ![s] = l]
    BY <1>3 DEF ReadFrame
  <2> HIDE DEF l
  <2> QED BY <1>2, <1>3, <2>1, <2>2 DEF ReadFrame
<1>4. CASE FrameDone(s)
  <2> DEFINE l == [at |-> "reading", src |-> conn]
  <2>1. l \in LoopType /\ l.at = "reading" /\ l.src = conn
    BY <1>0 DEF LoopType
  <2>2. loop' = [loop EXCEPT ![s] = l] /\ loop[s].at = "handling"
    BY <1>4 DEF FrameDone
  <2>3. ~Replaced => loop[s].src = conn
    BY <2>2 DEF SessionInv, OneConnection
  <2> HIDE DEF l
  <2> QED BY <1>2, <1>4, <2>1, <2>2, <2>3 DEF FrameDone
<1>5. CASE RecoverNilReader(s)
  <2> DEFINE l == [loop[s] EXCEPT !.src = conn]
  <2>1. l \in LoopType /\ l.at = loop[s].at /\ loop[s].at = "reading" /\ loop[s].src = Nil
    BY <1>0, <1>5 DEF LoopType, RecoverNilReader
  <2>2. loop' = [loop EXCEPT ![s] = l]
    BY <1>5 DEF RecoverNilReader
  <2>3. Replaced
    BY <1>0, <2>1 DEF SessionInv, OneConnection
  <2> HIDE DEF l
  <2> QED BY <1>2, <1>5, <2>1, <2>2, <2>3 DEF RecoverNilReader
<1>6. CASE LoopExits(s)
  <2> DEFINE l == [loop[s] EXCEPT !.at = "gone"]
  <2>1. l \in LoopType /\ l.at = "gone" /\ loop[s].at = "reading" /\ loop[s].src \notin alive
    BY <1>0, <1>6 DEF LoopType, LoopExits
  <2>2. loop' = [loop EXCEPT ![s] = l]
    BY <1>6 DEF LoopExits
  <2> HIDE DEF l
  <2>3. /\ loop' \in Seq(LoopType) /\ Len(loop') = Len(loop) /\ loop'[s] = l
        /\ \A r \in Sockets : r # s => loop'[r] = loop[r]
    BY <1>0, <2>1, <2>2, ChangedLoop
  <2>4. Sockets' = Sockets
    BY <2>3 DEF Sockets
  <2>5. shut' = shut \union {generation}
    BY <1>6 DEF LoopExits, SignalClosed
  <2>6. SessionTypeOK'
    BY <1>0, <1>6, <2>3, <2>4, <2>5 DEF LoopExits, SessionInv, SessionTypeOK, LoopType
  <2>7. OneConnection'
    <3> SUFFICES ASSUME ~Replaced PROVE OneConnection'
      BY <1>r DEF OneConnection
    <3>1. loop[s].src = conn /\ conn \notin alive
      BY <2>1 DEF SessionInv, OneConnection
    <3>2. \A r \in Sockets : loop'[r].at # "gone" => r # s /\ loop'[r] = loop[r]
      BY <2>1, <2>3
    <3>3. flow["auto"].at \notin {"drained", "reset"}
      BY <2>1 DEF SessionInv, OneConnection
    <3> QED BY <1>6, <2>4, <2>5, <3>1, <3>2, <3>3 DEF LoopExits, SessionInv, OneConnection, Up, Down
  <2>8. ShutBegan'
    BY <1>0, <1>6, <2>5 DEF LoopExits, SessionInv, ShutBegan
  <2> QED BY <1>r, <2>6, <2>7, <2>8 DEF SessionInv
<1> QED BY <1>1, <1>3, <1>4, <1>5, <1>6 DEF LoopNext

\* A flow that moves keeps the type of the flows.
LEMMA MovesIsTyped ==
  ASSUME SessionInv, NEW f \in Flows, NEW stage \in Stages, Moves(f, stage)
  PROVE  /\ flow' \in [Flows -> [at : Stages, on : 0..MaxGeneration]]
         /\ flow'[f].at = stage /\ flow'[f].on = flow[f].on
         /\ \A g \in Flows : g # f => flow'[g] = flow[g]
BY LoopFacts DEF Moves

\* The steps of the flows that touch neither the connection nor the loops.
LEMMA QuietFlow ==
  ASSUME SessionInv, NEW f \in Flows,
         Halt(f) \/ CleanUp(f) \/ Initialise(f) \/ Connect(f) \/ Drain(f)
  PROVE  SessionInv'
<1>0. /\ loop \in Seq(LoopType) /\ Sockets = 1..Len(loop) /\ Nil \notin Sockets
      /\ conn \in Nat /\ generation \in 0..MaxGeneration /\ "auto" \in Flows /\ "manual" \in Flows
      /\ flow \in [Flows -> [at : Stages, on : 0..MaxGeneration]]
  BY LoopFacts
<1>1. \E stage \in Stages : Moves(f, stage)
  BY DEF Halt, CleanUp, Initialise, Connect, Drain, Stages
<1>2. /\ flow' \in [Flows -> [at : Stages, on : 0..MaxGeneration]]
      /\ flow'[f].on = flow[f].on /\ \A g \in Flows : g # f => flow'[g] = flow[g]
  BY <1>1, MovesIsTyped
<1>3. UNCHANGED <<conn, generation, shut, loop>> /\ Sockets' = Sockets /\ alive' \in {alive, alive \ {conn}}
  BY DEF Halt, CleanUp, Initialise, Connect, Drain, Sockets
<1>4. SessionTypeOK'
  <2>1. trading' \in BOOLEAN /\ connected' \in BOOLEAN
    BY DEF Halt, CleanUp, Initialise, Connect, Drain, SessionInv, SessionTypeOK
  <2>2. manualCalls' \in 0..MaxManual
    BY ClientAssumption DEF Halt, CleanUp, Initialise, Connect, Drain, SessionInv, SessionTypeOK
  <2> QED BY <1>2, <1>3, <2>1, <2>2 DEF SessionInv, SessionTypeOK
<1>5. ShutBegan'
  BY <1>3 DEF SessionInv, ShutBegan
<1>6. ManualIdle'
  <2> SUFFICES ASSUME manualCalls' = 0 PROVE flow'["manual"].at = "watching"
    BY DEF ManualIdle
  <2>1. manualCalls = 0 /\ flow["manual"].at = "watching"
    BY ClientAssumption DEF Halt, CleanUp, Initialise, Connect, Drain, SessionInv, SessionTypeOK, ManualIdle
  <2>2. f # "manual"
    <3>1. CASE Halt(f)
      BY <2>1, <3>1 DEF Halt
    <3>2. CASE ~Halt(f)
      BY <2>1, <3>2 DEF CleanUp, Initialise, Connect, Drain
    <3> QED BY <3>1, <3>2
  <2> QED BY <1>0, <1>2, <2>1, <2>2
<1>7. OneConnection'
  <2> SUFFICES ASSUME ~Replaced' PROVE OneConnection'
    BY DEF OneConnection
  <2>1. ~Replaced
    <3> SUFFICES ASSUME Replaced PROVE FALSE
      OBVIOUS
    <3>1. manualCalls \in Nat
      BY ClientAssumption DEF SessionInv, SessionTypeOK
    <3>2. CASE f = "auto"
      BY <1>0, <1>2, <3>2, SameReplaced DEF Halt, CleanUp, Initialise, Connect, Drain
    <3>3. CASE f = "manual" /\ Halt(f)
      BY <1>0, <3>1, <3>3 DEF Halt, Moves, Replaced
    <3>4. CASE f = "manual" /\ CleanUp(f)
      BY <1>0, <3>1, <3>4 DEF CleanUp, Moves, Replaced
    <3>5. CASE f = "manual" /\ Drain(f)
      BY <1>0, <3>1, <3>5 DEF Drain, Moves, Replaced
    <3>6. CASE f = "manual" /\ Initialise(f)
      BY <1>0, <3>1, <3>6 DEF Initialise, Moves, Replaced
    <3>7. CASE f = "manual" /\ Connect(f)
      BY <1>0, <3>1, <3>7 DEF Connect, Moves, Replaced
    <3> QED BY <3>2, <3>3, <3>4, <3>5, <3>6, <3>7 DEF Flows
  <2>2. CASE f = "manual"
    <3>1. Halt(f) \/ CleanUp(f) \/ Drain(f)
      BY <2>1, <2>2, OnlyAuto DEF Initialise, Connect
    <3>2. flow'["auto"] = flow["auto"] /\ (trading' => trading)
      BY <1>0, <1>2, <2>2, <3>1 DEF Halt, CleanUp, Drain
    <3> QED BY <1>3, <2>1, <3>2 DEF SessionInv, OneConnection, Up, Down
  <2>3. CASE f = "auto" /\ Halt(f)
    <3>1. flow'["auto"].at = "halted" /\ ~trading' /\ alive' = alive
      BY <1>0, <2>3 DEF Halt, Moves
    <3>2. conn \notin alive
      BY <2>1, <2>3 DEF Halt, SessionInv, OneConnection, Up
    <3> QED BY <1>3, <2>1, <3>1, <3>2 DEF SessionInv, OneConnection, Up, Down
  <2>4. CASE f = "auto" /\ CleanUp(f)
    <3>1. flow'["auto"].at = "clean" /\ flow["auto"].at = "halted" /\ trading' = trading /\ alive' = alive
      BY <1>0, <2>4 DEF CleanUp, Moves
    <3> QED BY <1>3, <2>1, <3>1 DEF SessionInv, OneConnection, Up, Down
  <2>5. CASE f = "auto" /\ Initialise(f)
    <3>1. flow'["auto"].at = "initialised" /\ flow["auto"].at = "opened" /\ trading' = trading /\ alive' = alive
      BY <1>0, <2>5 DEF Initialise, Moves
    <3> QED BY <1>2, <1>3, <2>1, <2>5, <3>1 DEF SessionInv, OneConnection, Up, Down
  <2>6. CASE f = "auto" /\ Connect(f)
    <3>1. flow'["auto"].at = "connected" /\ flow["auto"].at = "initialised" /\ trading' = trading /\ alive' = alive
      BY <1>0, <2>6 DEF Connect, Moves
    <3> QED BY <1>2, <1>3, <2>1, <2>6, <3>1 DEF SessionInv, OneConnection, Up, Down
  <2>7. CASE f = "auto" /\ Drain(f)
    <3>1. flow'["auto"].at = "drained" /\ flow["auto"].at = "clean" /\ trading' = trading /\ Backoff
      BY <1>0, <2>7 DEF Drain, Moves
    <3>2. conn \notin alive
      BY <2>1, <3>1 DEF SessionInv, OneConnection, Down
    <3>3. \A s \in Sockets : loop[s].at = "gone"
      BY <1>0, <2>1, <3>1, <3>2 DEF Backoff, SessionInv, OneConnection
    <3> QED BY <1>3, <2>1, <3>1, <3>2, <3>3 DEF SessionInv, OneConnection, Up, Down
  <2> QED BY <2>2, <2>3, <2>4, <2>5, <2>6, <2>7 DEF Flows
<1> QED BY <1>4, <1>5, <1>6, <1>7 DEF SessionInv

\* From the reset on, a flow that leaves no session replaced is the auto flow
\* and found none replaced.
LEMMA LateStep ==
  ASSUME SessionInv, NEW f \in Flows, UNCHANGED manualCalls,
         Reset(f) \/ Open(f) \/ ConnectFails(f) \/ Resume(f),
         \A g \in Flows : g # f => flow'[g] = flow[g],
         flow'[f].at \notin {"halted", "drained"}, f = "manual" => flow'[f].at # "clean"
  PROVE  ManualIdle' /\ (~Replaced' => f = "auto" /\ ~Replaced)
<1>1. manualCalls \in Nat
  BY ClientAssumption DEF SessionInv, SessionTypeOK
<1>2. CASE f = "auto"
  <2>1. flow'["manual"] = flow["manual"]
    BY <1>2 DEF Flows
  <2> QED BY <1>2, <2>1, SameReplaced DEF SessionInv, ManualIdle
<1>3. CASE f = "manual"
  <2>1. manualCalls # 0
    BY <1>3 DEF Reset, Open, ConnectFails, Resume, SessionInv, ManualIdle
  <2>2. Replaced'
    BY <1>1, <1>3, <2>1 DEF Replaced
  <2> QED BY <2>1, <2>2 DEF ManualIdle
<1> QED BY <1>2, <1>3 DEF Flows

\* A new generation begins.
LEMMA ResetKeeps ==
  ASSUME SessionInv, NEW f \in Flows, Reset(f)
  PROVE  SessionInv'
<1>0. /\ generation \in 0..MaxGeneration /\ MaxGeneration \in Nat /\ "auto" \in Flows /\ "manual" \in Flows
      /\ flow \in [Flows -> [at : Stages, on : 0..MaxGeneration]]
  BY LoopFacts
<1>1. /\ flow' \in [Flows -> [at : Stages, on : 0..MaxGeneration]] /\ flow'[f].at = "reset"
      /\ \A g \in Flows : g # f => flow'[g] = flow[g]
  BY MovesIsTyped DEF Reset, Stages
<1>r. ManualIdle' /\ (~Replaced' => f = "auto" /\ ~Replaced)
  BY <1>1, LateStep DEF Reset
<1>2. generation' = generation + 1 /\ generation' \in 0..MaxGeneration /\ generation' \notin shut
  BY <1>0 DEF Reset, SessionInv, ShutBegan
<1>3. Sockets' = Sockets
  BY DEF Reset, Sockets
<1>4. SessionTypeOK'
  BY <1>1, <1>2, <1>3 DEF Reset, SessionInv, SessionTypeOK
<1>5. ShutBegan'
  BY <1>0, <1>2 DEF Reset, SessionInv, ShutBegan
<1>6. OneConnection'
  <2> SUFFICES ASSUME ~Replaced' PROVE OneConnection'
    BY DEF OneConnection
  <2>1. f = "auto" /\ flow["auto"].at = "drained" /\ ~Replaced
    BY <1>r DEF Reset
  <2>2. (\A s \in Sockets : loop[s].at = "gone") /\ ~trading /\ alive = {}
    BY <2>1 DEF SessionInv, OneConnection, Down
  <2>3. flow'["auto"].at = "reset"
    BY <1>1, <2>1
  <2> QED BY <1>2, <1>3, <2>1, <2>2, <2>3 DEF Reset, SessionInv, OneConnection, Up, Down
<1> QED BY <1>r, <1>4, <1>5, <1>6 DEF SessionInv

\* A connection is opened.
LEMMA OpenKeeps ==
  ASSUME SessionInv, NEW f \in Flows, Open(f)
  PROVE  SessionInv'
<1> DEFINE l == [at |-> "reading", src |-> Len(loop) + 1]
<1>0. /\ loop \in Seq(LoopType) /\ Len(loop) \in Nat /\ Sockets = 1..Len(loop)
      /\ generation \in 0..MaxGeneration /\ "auto" \in Flows /\ "manual" \in Flows
      /\ flow \in [Flows -> [at : Stages, on : 0..MaxGeneration]]
  BY LoopFacts
<1>1. l \in LoopType /\ l.at = "reading" /\ l.src = Len(loop) + 1
  BY <1>0 DEF LoopType
<1>2. loop' = Append(loop, l) /\ conn' = Len(loop) + 1 /\ alive' = alive \union {conn'}
  BY DEF Open
<1> HIDE DEF l
<1>3. /\ loop' \in Seq(LoopType) /\ Len(loop') = Len(loop) + 1 /\ loop'[Len(loop) + 1] = l
      /\ \A r \in Sockets : loop'[r] = loop[r]
  BY <1>0, <1>1, <1>2
<1>4. Sockets' = Sockets \union {conn'} /\ conn' \notin Sockets /\ conn' # Nil
  BY <1>0, <1>2, <1>3 DEF Sockets, Nil
<1>5. /\ flow' \in [Flows -> [at : Stages, on : 0..MaxGeneration]]
      /\ flow'[f] = [at |-> "opened", on |-> generation]
      /\ \A g \in Flows : g # f => flow'[g] = flow[g]
  BY <1>0 DEF Open, Stages
<1>r. ManualIdle' /\ (~Replaced' => f = "auto" /\ ~Replaced)
  BY <1>5, LateStep DEF Open
<1>6. SessionTypeOK'
  BY <1>2, <1>3, <1>4, <1>5 DEF Open, SessionInv, SessionTypeOK, LoopType
<1>7. ShutBegan'
  BY DEF Open, SessionInv, ShutBegan
<1>8. OneConnection'
  <2> SUFFICES ASSUME ~Replaced' PROVE OneConnection'
    BY DEF OneConnection
  <2>1. f = "auto" /\ flow["auto"].at = "reset" /\ ~Replaced
    BY <1>r DEF Open
  <2>2. (\A s \in Sockets : loop[s].at = "gone") /\ ~trading /\ alive = {} /\ generation \notin shut
    BY <2>1 DEF SessionInv, OneConnection, Down
  <2>3. flow'["auto"].at = "opened" /\ flow'["auto"].on = generation
    BY <1>5, <2>1
  <2>4. loop'[conn'].at = "reading" /\ loop'[conn'].src = conn'
    BY <1>1, <1>2, <1>3
  <2>5. \A s \in Sockets' : loop'[s].at # "gone" => s = conn' /\ loop'[s].src = conn'
    BY <1>3, <1>4, <2>2, <2>4
  <2>6. alive' = {conn'} /\ UNCHANGED <<trading, generation, shut, manualCalls>>
    BY <1>2, <2>2 DEF Open
  <2> QED BY <1>4, <2>2, <2>3, <2>4, <2>5, <2>6 DEF OneConnection, Up, Down
<1> QED BY <1>r, <1>6, <1>7, <1>8 DEF SessionInv

\* An attempt fails.
LEMMA FailKeeps ==
  ASSUME SessionInv, NEW f \in Flows, ConnectFails(f)
  PROVE  SessionInv'
<1>0. /\ generation \in 0..MaxGeneration /\ "auto" \in Flows /\ "manual" \in Flows
      /\ flow \in [Flows -> [at : Stages, on : 0..MaxGeneration]]
  BY LoopFacts
<1> DEFINE stage == IF f = "auto" THEN "clean" ELSE "watching"
<1>1. stage \in Stages /\ Moves(f, stage)
  BY DEF ConnectFails, Stages
<1> HIDE DEF stage
<1>2. /\ flow' \in [Flows -> [at : Stages, on : 0..MaxGeneration]] /\ flow'[f].at = stage
      /\ \A g \in Flows : g # f => flow'[g] = flow[g]
  BY <1>1, MovesIsTyped
<1>r. ManualIdle' /\ (~Replaced' => f = "auto" /\ ~Replaced)
  BY <1>2, LateStep DEF ConnectFails, stage
<1>3. /\ connected' = FALSE /\ shut' = shut \union {generation} /\ alive' = alive \ {conn}
      /\ UNCHANGED <<trading, conn, generation, loop, manualCalls>> /\ Sockets' = Sockets
  BY DEF ConnectFails, Close, SignalClosed, Sockets
<1>4. SessionTypeOK'
  BY <1>0, <1>2, <1>3 DEF SessionInv, SessionTypeOK
<1>5. ShutBegan'
  BY <1>0, <1>3 DEF SessionInv, ShutBegan
<1>6. OneConnection'
  <2> SUFFICES ASSUME ~Replaced' PROVE OneConnection'
    BY DEF OneConnection
  <2>1. f = "auto" /\ flow["auto"].at \in {"reset", "opened"} /\ ~Replaced
    BY <1>r DEF ConnectFails
  <2>2. flow'["auto"].at = "clean"
    BY <1>2, <2>1 DEF stage
  <2>3. ~trading /\ alive' = {}
    BY <1>3, <2>1 DEF SessionInv, OneConnection
  <2> QED BY <1>3, <2>1, <2>2, <2>3 DEF SessionInv, OneConnection, Up, Down
<1> QED BY <1>r, <1>4, <1>5, <1>6 DEF SessionInv

\* Trading resumes.
LEMMA ResumeKeeps ==
  ASSUME SessionInv, NEW f \in Flows, Resume(f)
  PROVE  SessionInv'
<1>0. /\ generation \in 0..MaxGeneration /\ "auto" \in Flows /\ "manual" \in Flows
      /\ flow \in [Flows -> [at : Stages, on : 0..MaxGeneration]]
  BY LoopFacts
<1>1. /\ flow' \in [Flows -> [at : Stages, on : 0..MaxGeneration]]
      /\ flow'[f].at = "watching" /\ (f = "auto" => flow'[f].on = generation)
      /\ \A g \in Flows : g # f => flow'[g] = flow[g]
  <2>1. CASE flow' = [flow EXCEPT ![f] = [at |-> "watching", on |-> generation]]
    BY <1>0, <2>1 DEF Stages
  <2>2. CASE f = "manual" /\ Moves(f, "watching")
    BY <2>2, MovesIsTyped DEF Stages
  <2> QED BY <2>1, <2>2 DEF Resume
<1>r. ManualIdle' /\ (~Replaced' => f = "auto" /\ ~Replaced)
  BY <1>1, LateStep DEF Resume
<1>2. Sockets' = Sockets
  BY DEF Resume, Sockets
<1>3. SessionTypeOK' /\ ShutBegan'
  BY <1>1, <1>2 DEF Resume, SessionInv, SessionTypeOK, ShutBegan
<1>4. OneConnection'
  <2> SUFFICES ASSUME ~Replaced' PROVE OneConnection'
    BY DEF OneConnection
  <2>1. f = "auto" /\ flow["auto"].at = "connected" /\ ~Replaced
    BY <1>r DEF Resume
  <2>2. flow'["auto"].at = "watching" /\ flow'["auto"].on = generation
    BY <1>1, <2>1
  <2> QED BY <1>2, <2>1, <2>2 DEF Resume, SessionInv, OneConnection, Up, Down
<1> QED BY <1>r, <1>3, <1>4 DEF SessionInv

-----------------------------------------------------------------------------
(* The theorems *)

\* Every step keeps the invariant.
LEMMA StepKeepsSession ==
  ASSUME SessionInv, [SessionNext]_sessionVars
  PROVE  SessionInv'
<1>1. CASE UNCHANGED sessionVars
  <2>1. Sockets' = Sockets
    BY <1>1 DEF sessionVars, Sockets
  <2> QED BY <1>1, <2>1 DEF sessionVars, SessionInv, SessionTypeOK, ShutBegan, ManualIdle, OneConnection, Replaced
<1>2. ASSUME NEW f \in Flows, FlowNext(f)
      PROVE  SessionInv'
  BY <1>2, QuietFlow, ResetKeeps, OpenKeeps, FailKeeps, ResumeKeeps DEF FlowNext
<1> QED BY <1>1, <1>2, LoopKeeps DEF SessionNext

\* The invariant holds in every reachable state.
LEMMA SessionInvariant == SessionSpec => []SessionInv
BY InitIsOne, StepKeepsSession, PTL DEF SessionSpec

\* The connection, the generations, the loops and the flows keep their types.
THEOREM SessionTypeCorrect == SessionSpec => []SessionTypeOK
<1>1. SessionInv => SessionTypeOK
  BY DEF SessionInv
<1> QED BY <1>1, SessionInvariant, PTL

\* Until the manual endpoint replaces a session no two goroutines read one
\* connection, and while trading is allowed the channel that main watches is
\* the one the reader of the client's connection closes, however often the
\* goroutine replaces it.
THEOREM ConnectionIsWatched == SessionSpec => []WatchedConnection
<1>1. SessionInv => WatchedConnection
  <2> SUFFICES ASSUME SessionInv, ~Replaced
               PROVE  /\ \A s, r \in Sockets :
                           (s # r /\ loop[s].at # "gone" /\ loop[r].at # "gone") => loop[s].src # loop[r].src
                      /\ trading => /\ flow["auto"] = [at |-> "watching", on |-> generation]
                                    /\ conn # Nil
                                    /\ generation \notin shut => loop[conn].at # "gone"
    BY DEF WatchedConnection
  <2>1. \A s, r \in Sockets :
          (s # r /\ loop[s].at # "gone" /\ loop[r].at # "gone") => loop[s].src # loop[r].src
    BY DEF SessionInv, OneConnection
  <2>2. ASSUME trading
        PROVE  flow["auto"].at = "watching" /\ flow["auto"].on = generation /\ conn # Nil
               /\ (generation \notin shut => loop[conn].at # "gone")
    BY <2>2 DEF SessionInv, OneConnection, Up
  <2>3. flow["auto"] \in [at : Stages, on : 0..MaxGeneration]
    BY LoopFacts
  <2> QED BY <2>1, <2>2, <2>3
<1> QED BY <1>1, SessionInvariant, PTL

-----------------------------------------------------------------------------
(* The gate *)

\* What the gate sees of the connection.
LEMMA ConnSeen ==
  ASSUME SessionInv
  PROVE  /\ GateConn = "nil" <=> conn = Nil
         /\ GateConn = "up" <=> conn \in alive
         /\ GateConn = "closed" <=> conn # Nil /\ conn \notin alive
<1>1. Nil \notin alive
  BY LoopFacts DEF SessionInv, SessionTypeOK
<1> QED BY <1>1 DEF GateConn

\* What the gate sees of a flow that moves.
LEMMA FlowSeen ==
  ASSUME SessionInv, NEW f \in Flows, NEW stage \in Stages,
         flow'[f].at = stage, \A g \in Flows : g # f => flow'[g] = flow[g]
  PROVE  GateFlow' = [GateFlow EXCEPT ![f] = GateStage(stage)]
BY DEF GateFlow

\* A flow that moves within what the gate takes for one stage does not move.
LEMMA FlowUnseen ==
  ASSUME SessionInv, NEW f \in Flows, NEW stage \in Stages, Moves(f, stage),
         GateStage(stage) = GateStage(flow[f].at)
  PROVE  GateFlow' = GateFlow
<1>1. \A g \in Flows : GateStage(flow'[g].at) = GateStage(flow[g].at)
  BY MovesIsTyped
<1> QED BY <1>1 DEF GateFlow

\* The gate's stages.
LEMMA StagesSeen ==
  /\ GateStage("watching") = "watching" /\ GateStage("reset") = "connecting"
  /\ \A stage \in {"halted", "clean", "drained"} : GateStage(stage) = "halted"
  /\ \A stage \in {"opened", "initialised", "connected"} : GateStage(stage) = "opened"
BY DEF GateStage

\* The endpoint past its drain has replaced a session.
LEMMA LateIsReplaced ==
  ASSUME SessionInv, flow["manual"].at \notin {"watching", "halted", "clean", "drained"}
  PROVE  Replaced /\ manualCalls \in Nat /\ manualCalls >= 1
<1>1. Replaced
  BY OnlyAuto DEF Flows
<1>2. manualCalls \in Nat /\ manualCalls # 0
  BY ClientAssumption DEF SessionInv, SessionTypeOK, ManualIdle
<1> QED BY <1>1, <1>2

\* A connected client, the gate open, is where TradingGate starts.
LEMMA InitIsGate ==
  ASSUME SessionInit
  PROVE  Gate!GateInit
<1>1. GateConn = "up" /\ ~Replaced
  BY DEF SessionInit, GateConn, Nil, Replaced
<1>2. GateFlow = [f \in Flows |-> "watching"]
  BY StagesSeen DEF SessionInit, GateFlow
<1> QED BY <1>1, <1>2 DEF SessionInit, Gate!GateInit, Gate!Flows, Flows

\* The read loops: the connection is lost, or the gate sees nothing.
LEMMA LoopIsGate ==
  ASSUME SessionInv, NEW s \in Sockets, LoopNext(s)
  PROVE  Gate!LoseConnection \/ UNCHANGED Gate!gateVars
<1>1. /\ UNCHANGED <<trading, conn, flow, manualCalls>>
      /\ alive' = alive \/ Drop(s)
  BY DEF LoopNext, Drop, ReadFrame, FrameDone, RecoverNilReader, LoopExits
<1>2. UNCHANGED <<GateFlow, Replaced>>
  BY <1>1 DEF GateFlow, Replaced
<1>3. CASE Drop(s) /\ s = conn
  <2>1. GateConn = "up"
    BY <1>3, ConnSeen DEF Drop
  <2>2. GateConn' = "closed"
    BY <1>1, <1>3, LoopFacts DEF Drop, GateConn
  <2> QED BY <1>1, <1>2, <2>1, <2>2 DEF Gate!LoseConnection
<1>4. CASE ~(Drop(s) /\ s = conn)
  <2>1. conn \in alive' <=> conn \in alive
    BY <1>1, <1>4 DEF Drop
  <2>2. GateConn' = GateConn
    BY <1>1, <2>1 DEF GateConn
  <2> QED BY <1>1, <1>2, <2>2 DEF Gate!gateVars
<1> QED BY <1>3, <1>4

\* The gate is shut.
LEMMA HaltIsGate ==
  ASSUME SessionInv, NEW f \in Flows, Halt(f)
  PROVE  Gate!Halt(f)
<1>0. manualCalls \in Nat
  BY ClientAssumption DEF SessionInv, SessionTypeOK
<1>1. flow'[f].at = "halted" /\ \A g \in Flows : g # f => flow'[g] = flow[g]
  BY MovesIsTyped DEF Halt, Stages
<1>2. GateFlow[f] = "watching"
  BY StagesSeen DEF Halt, GateFlow
<1>3. GateFlow' = [GateFlow EXCEPT ![f] = "halted"]
  BY <1>1, FlowSeen, StagesSeen DEF Stages
<1>4. Replaced' = Replaced
  <2>1. CASE f = "auto"
    BY <1>1, <2>1, SameReplaced DEF Halt, Flows
  <2>2. CASE f = "manual"
    BY <1>0, <1>1, <2>2 DEF Halt, Replaced
  <2> QED BY <2>1, <2>2 DEF Flows
<1>5. f = "auto" => GateConn # "up" \/ Replaced
  <2> SUFFICES ASSUME f = "auto", ~Replaced PROVE GateConn # "up"
    OBVIOUS
  <2>1. generation \in shut
    BY DEF Halt, SessionInv, OneConnection, Up
  <2>2. conn \notin alive
    BY <2>1 DEF SessionInv, OneConnection
  <2> QED BY <2>2, ConnSeen
<1>6. GateConn' = GateConn /\ trading' = FALSE
  BY DEF Halt, GateConn
<1> QED BY <1>2, <1>3, <1>4, <1>5, <1>6 DEF Gate!Halt

\* The clean-up and the handshake happen behind the shut gate.
LEMMA QuietIsGate ==
  ASSUME SessionInv, NEW f \in Flows, CleanUp(f) \/ Initialise(f) \/ Connect(f)
  PROVE  UNCHANGED Gate!gateVars
<1>1. PICK stage \in Stages : Moves(f, stage) /\ GateStage(stage) = GateStage(flow[f].at)
  BY StagesSeen DEF CleanUp, Initialise, Connect, Stages
<1>2. GateFlow' = GateFlow
  BY <1>1, FlowUnseen
<1>3. GateConn' = GateConn /\ trading' = trading
  BY DEF CleanUp, Initialise, Connect, GateConn
<1>4. Replaced' = Replaced
  <2>1. manualCalls' = manualCalls /\ \A g \in Flows : g # f => flow'[g] = flow[g]
    BY <1>1, MovesIsTyped DEF CleanUp, Initialise, Connect
  <2>2. CASE f = "auto"
    BY <2>1, <2>2, SameReplaced DEF Flows
  <2>3. CASE f = "manual" /\ CleanUp(f)
    BY <2>1, <2>3, MovesIsTyped DEF CleanUp, Replaced, Stages
  <2>4. CASE f = "manual" /\ ~CleanUp(f)
    <3>1. Replaced /\ manualCalls \in Nat /\ manualCalls >= 1
      BY <2>4, LateIsReplaced DEF Initialise, Connect
    <3>2. flow'["manual"].at \in {"initialised", "connected"}
      BY <2>4, MovesIsTyped DEF Initialise, Connect, Stages
    <3> QED BY <2>1, <3>1, <3>2 DEF Replaced
  <2> QED BY <2>2, <2>3, <2>4 DEF Flows
<1> QED BY <1>2, <1>3, <1>4 DEF Gate!gateVars

\* The old connection, if it is still open, is closed.
LEMMA DrainIsGate ==
  ASSUME SessionInv, NEW f \in Flows, Drain(f)
  PROVE  Gate!CloseOld(f) \/ UNCHANGED Gate!gateVars
<1>1. /\ flow[f].at = "clean" /\ flow'[f].at = "drained"
      /\ \A g \in Flows : g # f => flow'[g] = flow[g]
  BY MovesIsTyped DEF Drain, Stages
<1>2. GateFlow' = GateFlow /\ GateFlow[f] = "halted"
  BY <1>1, FlowUnseen, StagesSeen DEF Drain, Stages, GateFlow
<1>3. Replaced' = Replaced
  <2>1. CASE f = "auto"
    BY <1>1, <2>1, SameReplaced DEF Drain, Flows
  <2>2. CASE f = "manual"
    BY <1>1, <2>2 DEF Drain, Replaced
  <2> QED BY <2>1, <2>2 DEF Flows
<1>4. UNCHANGED <<trading, conn>> /\ alive' = alive \ {conn}
  BY DEF Drain
<1>5. CASE conn \in alive
  <2>1. GateConn = "up" /\ GateConn' = "closed"
    BY <1>4, <1>5, ConnSeen DEF GateConn
  <2> QED BY <1>2, <1>3, <1>4, <2>1 DEF Gate!CloseOld
<1>6. CASE conn \notin alive
  <2>1. GateConn' = GateConn
    BY <1>4, <1>6 DEF GateConn
  <2> QED BY <1>2, <1>3, <1>4, <2>1 DEF Gate!gateVars
<1> QED BY <1>5, <1>6

\* The client has no connection any more.
LEMMA ResetIsGate ==
  ASSUME SessionInv, NEW f \in Flows, Reset(f)
  PROVE  Gate!TearDown(f)
<1>1. /\ flow[f].at = "drained" /\ flow'[f].at = "reset"
      /\ \A g \in Flows : g # f => flow'[g] = flow[g]
  BY MovesIsTyped DEF Reset, Stages
<1>2. GateFlow[f] = "halted" /\ GateFlow' = [GateFlow EXCEPT ![f] = "connecting"]
  BY <1>1, FlowSeen, StagesSeen DEF Stages, GateFlow
<1>3. Replaced' = (Replaced \/ f = "manual")
  <2>1. Replaced \in BOOLEAN /\ Replaced' \in BOOLEAN
    BY DEF Replaced
  <2>2. CASE f = "auto"
    <3>1. Replaced' = Replaced
      BY <1>1, <2>2, SameReplaced DEF Reset, Flows
    <3> QED BY <2>1, <2>2, <3>1
  <2>3. CASE f = "manual"
    <3>1. manualCalls \in Nat /\ manualCalls # 0
      BY <1>1, <2>3, ClientAssumption DEF SessionInv, SessionTypeOK, ManualIdle
    <3>2. Replaced'
      BY <1>1, <2>3, <3>1 DEF Reset, Replaced
    <3> QED BY <2>1, <2>3, <3>2
  <2> QED BY <2>2, <2>3 DEF Flows
<1>4. GateConn' = "nil" /\ trading' = trading
  BY DEF Reset, GateConn
<1> QED BY <1>2, <1>3, <1>4 DEF Gate!TearDown

\* A late step of a flow changes nothing to what was replaced.
LEMMA LateReplacesNothing ==
  ASSUME SessionInv, NEW f \in Flows, Open(f) \/ ConnectFails(f) \/ Resume(f),
         \A g \in Flows : g # f => flow'[g] = flow[g],
         f = "manual" => flow'[f].at \in {"opened", "watching"}
  PROVE  Replaced' = Replaced
<1>1. manualCalls' = manualCalls
  BY DEF Open, ConnectFails, Resume
<1>2. CASE f = "auto"
  BY <1>1, <1>2, SameReplaced DEF Flows
<1>3. CASE f = "manual"
  <2>1. Replaced /\ manualCalls \in Nat /\ manualCalls >= 1
    BY <1>3, LateIsReplaced DEF Open, ConnectFails, Resume
  <2> QED BY <1>1, <1>3, <2>1 DEF Replaced
<1> QED BY <1>2, <1>3 DEF Flows

\* The connection opens before the gate does.
LEMMA OpenIsGate ==
  ASSUME SessionInv, NEW f \in Flows, Open(f)
  PROVE  Gate!Opened(f)
<1>1. /\ flow[f].at = "reset" /\ flow'[f].at = "opened"
      /\ \A g \in Flows : g # f => flow'[g] = flow[g]
  BY LoopFacts DEF Open
<1>2. GateFlow[f] = "connecting" /\ GateFlow' = [GateFlow EXCEPT ![f] = "opened"]
  BY <1>1, FlowSeen, StagesSeen DEF Stages, GateFlow
<1>3. Replaced' = Replaced
  BY <1>1, LateReplacesNothing
<1>4. GateConn' = "up" /\ trading' = trading
  <2>1. conn' \in alive' /\ conn' # Nil /\ trading' = trading
    BY LoopFacts DEF Open, Nil
  <2> QED BY <2>1 DEF GateConn
<1> QED BY <1>2, <1>3, <1>4 DEF Gate!Opened

\* The attempt fails and closes what the client holds.
LEMMA FailIsGate ==
  ASSUME SessionInv, NEW f \in Flows, ConnectFails(f)
  PROVE  Gate!ReconnectFailed(f)
<1> DEFINE stage == IF f = "auto" THEN "clean" ELSE "watching"
<1>1. stage \in Stages /\ Moves(f, stage) /\ GateStage(stage) = IF f = "auto" THEN "halted" ELSE "watching"
  BY StagesSeen DEF ConnectFails, Stages
<1>2. flow'[f].at = stage /\ \A g \in Flows : g # f => flow'[g] = flow[g]
  BY <1>1, MovesIsTyped
<1>3. GateFlow[f] \in {"connecting", "opened"}
  BY StagesSeen DEF ConnectFails, GateFlow
<1>4. GateFlow' = [GateFlow EXCEPT ![f] = IF f = "auto" THEN "halted" ELSE "watching"]
  BY <1>1, <1>2, FlowSeen
<1>5. Replaced' = Replaced
  BY <1>2, LateReplacesNothing
<1>6. GateConn' = "closed" \/ (GateConn = "nil" /\ GateConn' = "nil")
  BY DEF ConnectFails, Close, GateConn
<1>7. trading' = trading
  BY DEF ConnectFails
<1> QED BY <1>3, <1>4, <1>5, <1>6, <1>7 DEF Gate!ReconnectFailed

\* Trading resumes, or the endpoint panics on the nil connection.
LEMMA ResumeIsGate ==
  ASSUME SessionInv, NEW f \in Flows, Resume(f)
  PROVE  Gate!Reconnected(f) \/ Gate!ReconnectPanics
<1>1. /\ flow[f].at = "connected" /\ flow'[f].at = "watching"
      /\ \A g \in Flows : g # f => flow'[g] = flow[g]
  BY LoopFacts DEF Resume, Moves
<1>2. GateFlow[f] = "opened" /\ GateFlow' = [GateFlow EXCEPT ![f] = "watching"]
  BY <1>1, FlowSeen, StagesSeen DEF Stages, GateFlow
<1>3. Replaced' = Replaced
  BY <1>1, LateReplacesNothing
<1>4. GateConn' = GateConn
  BY DEF Resume, GateConn
<1>5. CASE conn # Nil /\ trading' = TRUE
  <2>1. GateConn # "nil"
    BY <1>5, ConnSeen
  <2> QED BY <1>2, <1>3, <1>4, <1>5, <2>1 DEF Gate!Reconnected
<1>6. CASE conn = Nil /\ f = "manual" /\ UNCHANGED trading
  <2>1. GateConn = "nil"
    BY <1>6, ConnSeen
  <2> QED BY <1>2, <1>3, <1>4, <1>6, <2>1 DEF Gate!ReconnectPanics
<1> QED BY <1>5, <1>6 DEF Resume

\* Every step of the client is a step of the gate, or none.
LEMMA StepIsGate ==
  ASSUME SessionInv, [SessionNext]_sessionVars
  PROVE  [Gate!GateNext]_(Gate!gateVars)
<1>1. CASE UNCHANGED sessionVars
  BY <1>1 DEF sessionVars, Gate!gateVars, GateConn, GateFlow, Replaced
<1>2. ASSUME NEW s \in Sockets, LoopNext(s)
      PROVE  [Gate!GateNext]_(Gate!gateVars)
  BY <1>2, LoopIsGate DEF Gate!GateNext
<1>3. ASSUME NEW f \in Flows, FlowNext(f)
      PROVE  [Gate!GateNext]_(Gate!gateVars)
  <2>1. Gate!FlowStep(f) \/ Gate!ReconnectPanics \/ UNCHANGED Gate!gateVars
    BY <1>3, HaltIsGate, QuietIsGate, DrainIsGate, ResetIsGate, OpenIsGate, FailIsGate, ResumeIsGate
       DEF FlowNext, Gate!FlowStep
  <2> QED BY <2>1 DEF Gate!GateNext, Gate!Flows, Flows
<1> QED BY <1>1, <1>2, <1>3 DEF SessionNext

\* The sockets, the read loops and the two flows, however they interleave,
\* implement the gate that the orders and the positions are checked behind.
THEOREM SessionsRefineGate == SessionSpec => GateRefined
<1>1. SessionInit => Gate!GateInit
  BY InitIsGate
<1>2. SessionInv /\ [SessionNext]_sessionVars => [Gate!GateNext]_(Gate!gateVars)
  BY StepIsGate
<1> QED BY <1>1, <1>2, SessionInvariant, PTL DEF SessionSpec, GateRefined, Gate!GateSpec

=============================================================================
