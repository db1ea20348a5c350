----------------------------- MODULE TWSClient -----------------------------
(***************************************************************************)
(* tws/tws_client.go: the connection to IB Gateway, the goroutine that     *)
(* reads each socket, and Reconnect, run by the auto-reconnect goroutine   *)
(* and by the manual endpoint of cmd/bot/main.go.  A generation is what    *)
(* Reconnect replaces as a whole: the closed channel, the id counter and   *)
(* the dispatcher.  A socket is a TCP connection; each has a read loop.    *)
(***************************************************************************)
EXTENDS Naturals, Sequences, FiniteSets

CONSTANTS
  MaxGeneration,  \* calls of Reconnect that go as far as its reset
  MaxManual       \* calls of the manual endpoint

ASSUME ClientAssumption == MaxGeneration \in Nat /\ MaxManual \in Nat

Flows == {"auto", "manual"}
Nil == 0

VARIABLES
  trading,      \* GatedTradingService.enabled
  conn,         \* Client.conn (and reader): a socket, or Nil
  alive,        \* the sockets whose TCP connection is open
  connected,    \* Client.connected
  generation,   \* which closed channel, ids and dispatcher the client holds
  shut,         \* the generations whose closed channel is closed
  loop,         \* the read loops, one per socket
  flow,         \* how far each reconnect flow is
  manualCalls

sessionVars == <<trading, conn, alive, connected, generation, shut, loop, flow,
                 manualCalls>>

Sockets == 1..Len(loop)
Stages == {"watching", "halted", "clean", "drained", "reset", "opened",
           "initialised", "connected"}

SessionTypeOK ==
  /\ trading \in BOOLEAN
  /\ conn \in Sockets \union {Nil}
  /\ alive \subseteq Sockets
  /\ connected \in BOOLEAN
  /\ generation \in 0..MaxGeneration
  /\ shut \subseteq 0..MaxGeneration
  /\ loop \in Seq([at : {"reading", "handling", "gone"}, src : Nat])
  /\ flow \in [Flows -> [at : Stages, on : 0..MaxGeneration]]
  /\ manualCalls \in 0..MaxManual

\* main: connected, and the goroutine waits on Closed().
SessionInit ==
  /\ trading = TRUE
  /\ conn = 1
  /\ alive = {1}
  /\ connected = TRUE
  /\ generation = 0
  /\ shut = {}
  /\ loop = <<[at |-> "reading", src |-> 1]>>
  /\ flow = [f \in Flows |-> [at |-> "watching", on |-> 0]]
  /\ manualCalls = 0

Moves(f, stage) == flow' = [flow EXCEPT ![f].at = stage]

\* signalClosed, on the closed channel the client holds now.
SignalClosed == shut' = shut \union {generation}

\* Client.Close.
Close ==
  /\ connected' = FALSE
  /\ SignalClosed
  /\ alive' = alive \ {conn}

-----------------------------------------------------------------------------
(* The read loops *)

\* The gateway drops the connection.
Drop(s) ==
  /\ s \in alive
  /\ alive' = alive \ {s}
  /\ UNCHANGED <<trading, conn, connected, generation, shut, loop, flow, manualCalls>>

\* readFrame returns a frame.
ReadFrame(s) ==
  /\ loop[s].at = "reading"
  /\ loop[s].src \in alive
  /\ loop' = [loop EXCEPT ![s].at = "handling"]
  /\ UNCHANGED <<trading, conn, alive, connected, generation, shut, flow, manualCalls>>

\* The frame is decoded; the next readFrame takes the reader the client has
\* now, which another socket's may have replaced.
FrameDone(s) ==
  /\ loop[s].at = "handling"
  /\ loop' = [loop EXCEPT ![s] = [at |-> "reading", src |-> conn]]
  /\ UNCHANGED <<trading, conn, alive, connected, generation, shut, flow, manualCalls>>

\* Reading a nil reader panics; the loop recovers and tries again.
RecoverNilReader(s) ==
  /\ loop[s] = [at |-> "reading", src |-> Nil]
  /\ conn # Nil
  /\ loop' = [loop EXCEPT ![s].src = conn]
  /\ UNCHANGED <<trading, conn, alive, connected, generation, shut, flow, manualCalls>>

\* Mutant: nobody is told.
LoopExits_Silent(s) ==
  /\ loop[s].at = "reading"
  /\ loop[s].src \notin alive \union {Nil}
  /\ loop' = [loop EXCEPT ![s].at = "gone"]
  /\ connected' = FALSE
  /\ UNCHANGED <<trading, conn, alive, generation, shut, flow, manualCalls>>

\* readFrame fails: the loop marks the client it finds as disconnected.
LoopExits(s) ==
  /\ loop[s].at = "reading"
  /\ loop[s].src \notin alive \union {Nil}
  /\ loop' = [loop EXCEPT ![s].at = "gone"]
  /\ connected' = FALSE
  /\ SignalClosed
  /\ UNCHANGED <<trading, conn, alive, generation, flow, manualCalls>>

-----------------------------------------------------------------------------
(* The two flows *)

\* gated.Disable: the goroutine when the channel it waits on is closed, the
\* endpoint when it is called.
Halt(f) ==
  /\ flow[f].at = "watching"
  /\ \/ f = "auto" /\ flow[f].on \in shut /\ UNCHANGED manualCalls
     \/ f = "manual" /\ manualCalls < MaxManual /\ manualCalls' = manualCalls + 1
  /\ trading' = FALSE
  /\ Moves(f, "halted")
  /\ UNCHANGED <<conn, alive, connected, generation, shut, loop>>

\* OnDisconnect of the data and of the trading service.
CleanUp(f) ==
  /\ flow[f].at = "halted"
  /\ Moves(f, "clean")
  /\ UNCHANGED <<trading, conn, alive, connected, generation, shut, loop, manualCalls>>

\* Mutant: the next attempt follows at once.
Backoff_None == TRUE

\* Five seconds and more pass between the loss of a connection and the
\* goroutine's next attempt: the frame that was being read is long decoded.
Backoff == \A s \in Sockets : loop[s].at = "gone" \/ loop[s].src \in alive \union {Nil}

\* Reconnect up to DrainAll: the old connection is closed.
Drain(f) ==
  /\ flow[f].at = "clean"
  /\ f = "auto" => Backoff
  /\ alive' = alive \ {conn}
  /\ Moves(f, "drained")
  /\ UNCHANGED <<trading, conn, connected, generation, shut, loop, manualCalls>>

\* Reconnect under c.mu: a new generation, no connection.
Reset(f) ==
  /\ flow[f].at = "drained"
  /\ generation < MaxGeneration
  /\ generation' = generation + 1
  /\ connected' = FALSE
  /\ conn' = Nil
  /\ Moves(f, "reset")
  /\ UNCHANGED <<trading, alive, shut, loop, manualCalls>>

\* Connect up to "go readLoop"; it then waits on the channels of this moment.
Open(f) ==
  /\ flow[f].at = "reset"
  /\ conn' = Len(loop) + 1
  /\ alive' = alive \union {conn'}
  /\ loop' = Append(loop, [at |-> "reading", src |-> conn'])
  /\ flow' = [flow EXCEPT ![f] = [at |-> "opened", on |-> generation]]
  /\ UNCHANGED <<trading, connected, generation, shut, manualCalls>>

\* A loop hands nextValidId and managedAccounts to the channels of the
\* current generation.
Initialise(f) ==
  /\ flow[f].at = "opened"
  /\ flow[f].on = generation
  /\ \E s \in Sockets : loop[s].at = "reading" /\ loop[s].src \in alive
  /\ Moves(f, "initialised")
  /\ UNCHANGED <<trading, conn, alive, connected, generation, shut, loop, manualCalls>>

Connect(f) ==
  /\ flow[f].at = "initialised"
  /\ connected' = TRUE
  /\ Moves(f, "connected")
  /\ UNCHANGED <<trading, conn, alive, generation, shut, loop, manualCalls>>

\* Mutant: what was dialled stays open.
ConnectFails_LeavesOpen(f) ==
  /\ flow[f].at \in {"reset", "opened"}
  /\ connected' = FALSE
  /\ SignalClosed
  /\ Moves(f, IF f = "auto" THEN "clean" ELSE "watching")
  /\ UNCHANGED <<trading, conn, alive, generation, loop, manualCalls>>

\* Connect fails, at the dial, at the handshake or while it waits, and
\* closes what the client holds; the goroutine tries again after the backoff.
ConnectFails(f) ==
  /\ flow[f].at \in {"reset", "opened"}
  /\ Close
  /\ Moves(f, IF f = "auto" THEN "clean" ELSE "watching")
  /\ UNCHANGED <<trading, conn, generation, loop, manualCalls>>

\* OnReconnect writes on the connection the client has now, then gated.Enable;
\* the goroutine waits on Closed() again.  On the nil connection of the other
\* flow the write panics: gin recovers the endpoint, the goroutine ends the
\* process.
Resume(f) ==
  /\ flow[f].at = "connected"
  /\ \/ /\ conn # Nil
        /\ trading' = TRUE
        /\ flow' = [flow EXCEPT ![f] = [at |-> "watching", on |-> generation]]
     \/ /\ conn = Nil /\ f = "manual"
        /\ Moves(f, "watching")
        /\ UNCHANGED trading
  /\ UNCHANGED <<conn, alive, connected, generation, shut, loop, manualCalls>>

-----------------------------------------------------------------------------
LoopNext(s) == Drop(s) \/ ReadFrame(s) \/ FrameDone(s) \/ RecoverNilReader(s) \/ LoopExits(s)

FlowNext(f) ==
  \/ Halt(f) \/ CleanUp(f) \/ Drain(f) \/ Reset(f) \/ Open(f)
  \/ Initialise(f) \/ Connect(f) \/ ConnectFails(f) \/ Resume(f)

SessionNext == (\E s \in Sockets : LoopNext(s)) \/ (\E f \in Flows : FlowNext(f))

\* A goroutine that can run runs; the gateway and the human owe nothing.
SessionFairness ==
  /\ \A s \in 1..(MaxGeneration + 1) :
       /\ WF_sessionVars(s \in Sockets /\ LoopExits(s))
       /\ WF_sessionVars(s \in Sockets /\ FrameDone(s))
  /\ WF_sessionVars(FlowNext("auto"))

SessionSpec == SessionInit /\ [][SessionNext]_sessionVars /\ SessionFairness

-----------------------------------------------------------------------------
(* Properties *)

\* The endpoint has replaced a session: its first call is past the reset, or
\* it was called again.
Replaced ==
  \/ manualCalls > 1
  \/ manualCalls = 1 /\ flow["manual"].at \notin {"halted", "clean", "drained"}

Lost == trading /\ conn # Nil /\ conn \notin alive

\* Closed() "is closed when the connection is torn down (read-loop exit or
\* Close()).  Callers watch it to halt activity on disconnect": a lost
\* connection closes the gate.
LossHaltsTrading == Lost ~> ~trading

\* As long as the manual endpoint has replaced no session that is what
\* happens, however many connections fail one after the other and whatever the
\* goroutine replaces.
LossIsNoticed == (Lost /\ ~Replaced) ~> (~trading \/ Replaced)

\* Until the manual endpoint replaces a session one goroutine reads the
\* connection the client writes to, and while trading is allowed the goroutine
\* of main watches the channel that this read loop closes.
WatchedConnection ==
  ~Replaced =>
    /\ \A s, r \in Sockets :
         (s # r /\ loop[s].at # "gone" /\ loop[r].at # "gone") => loop[s].src # loop[r].src
    /\ trading => /\ flow["auto"] = [at |-> "watching", on |-> generation]
                  /\ conn # Nil
                  /\ generation \notin shut => loop[conn].at # "gone"

GateConn == IF conn = Nil THEN "nil" ELSE IF conn \in alive THEN "up" ELSE "closed"

GateStage(stage) ==
  CASE stage = "watching" -> "watching"
    [] stage \in {"halted", "clean", "drained"} -> "halted"
    [] stage = "reset" -> "connecting"
    [] stage \in {"opened", "initialised", "connected"} -> "opened"

GateFlow == [f \in Flows |-> GateStage(flow[f].at)]

\* The gate of TradingGate, seen here, in one trading mode.
Gate == INSTANCE TradingGate WITH
  Modes <- {"supervised"}, mode <- "supervised", enabled <- trading, conn <- GateConn,
  flow <- GateFlow, replaced <- Replaced

\* What the orders and the positions are told of a connection is all that can
\* happen to it: sockets, read loops, closed channels and generations, with
\* both flows at work, do nothing to the gate that TradingGate does not.
GateRefined == Gate!GateSpec

=============================================================================
