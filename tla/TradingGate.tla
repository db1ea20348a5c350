---------------------------- MODULE TradingGate ----------------------------
(***************************************************************************)
(* services/gated_trading.go, the kill-switch in front of the broker, with *)
(* what turns it: the trading mode of config/config.go and the two flows   *)
(* of cmd/bot/main.go that replace a broken connection, the auto-reconnect *)
(* goroutine and the manual endpoint.  They do not exclude each other.     *)
(***************************************************************************)
EXTENDS Naturals

CONSTANT Modes  \* the trading modes the operator switches between

ASSUME ModesAssumption ==
  Modes \subseteq {"off", "suggest", "supervised", "autonomous"}

VARIABLES
  enabled,  \* GatedTradingService.enabled
  mode,     \* CurrentTradingMode()
  conn,     \* tws.Client.conn: "up", "closed" (writes fail or are lost) or "nil"
  flow,     \* how far each reconnect flow is
  replaced  \* the endpoint has replaced a session

gateVars == <<enabled, mode, conn, flow, replaced>>

Flows == {"auto", "manual"}

GateTypeOK ==
  /\ enabled \in BOOLEAN
  /\ mode \in Modes
  /\ conn \in {"up", "closed", "nil"}
  /\ flow \in [Flows -> {"watching", "halted", "connecting", "opened"}]
  /\ replaced \in BOOLEAN

GateInit ==
  /\ enabled = TRUE
  /\ mode \in Modes
  /\ conn = "up"
  /\ flow = [f \in Flows |-> "watching"]
  /\ replaced = FALSE

AllowsExecution(m) == m \in {"supervised", "autonomous"}

CanTrade == enabled /\ AllowsExecution(mode)

\* The Settings panel writes TRADING_MODE; the next read sees it.
SwitchMode ==
  /\ \E m \in Modes \ {mode} : mode' = m
  /\ UNCHANGED <<enabled, conn, flow, replaced>>

\* The gateway drops the TCP connection.
LoseConnection ==
  /\ conn = "up"
  /\ conn' = "closed"
  /\ UNCHANGED <<enabled, mode, flow, replaced>>

\* gated.Disable: the endpoint whenever it is called; the goroutine when the
\* channel it waits on is closed, by the loss of the connection or, late, by
\* what is left of a session that the endpoint replaced.
Halt(f) ==
  /\ flow[f] = "watching"
  /\ f = "auto" => conn # "up" \/ replaced
  /\ enabled' = FALSE
  /\ flow' = [flow EXCEPT ![f] = "halted"]
  /\ UNCHANGED <<mode, conn, replaced>>

\* Reconnect closes the connection it finds...
CloseOld(f) ==
  /\ flow[f] = "halted"
  /\ conn = "up"
  /\ conn' = "closed"
  /\ UNCHANGED <<enabled, mode, flow, replaced>>

\* ...and, its requests drained, sets c.conn to nil.
TearDown(f) ==
  /\ flow[f] = "halted"
  /\ conn' = "nil"
  /\ flow' = [flow EXCEPT ![f] = "connecting"]
  /\ replaced' = (replaced \/ f = "manual")
  /\ UNCHANGED <<enabled, mode>>

\* Connect has dialled; until the flow resumes the connection is open and
\* the gate is shut.
Opened(f) ==
  /\ flow[f] = "connecting"
  /\ conn' = "up"
  /\ flow' = [flow EXCEPT ![f] = "opened"]
  /\ UNCHANGED <<enabled, mode, replaced>>

\* Connect succeeded and the services have written on whatever connection the
\* client has by then: gated.Enable.
Reconnected(f) ==
  /\ flow[f] = "opened"
  /\ conn # "nil"
  /\ enabled' = TRUE
  /\ flow' = [flow EXCEPT ![f] = "watching"]
  /\ UNCHANGED <<mode, conn, replaced>>

\* OnReconnect writes on the nil connection of the other flow.  gin recovers
\* the endpoint; the goroutine recovers nothing and ends the process.
ReconnectPanics ==
  /\ flow["manual"] = "opened"
  /\ conn = "nil"
  /\ flow' = [flow EXCEPT !["manual"] = "watching"]
  /\ UNCHANGED <<enabled, mode, conn, replaced>>

\* Connect failed, before or after it dialled, and closed what it found: the
\* goroutine tries again after the backoff, the endpoint answers 500.
ReconnectFailed(f) ==
  /\ flow[f] \in {"connecting", "opened"}
  /\ conn' = "closed" \/ (conn = "nil" /\ conn' = "nil")
  /\ flow' = [flow EXCEPT ![f] = IF f = "auto" THEN "halted" ELSE "watching"]
  /\ UNCHANGED <<enabled, mode, replaced>>

FlowStep(f) ==
  \/ Halt(f) \/ CloseOld(f) \/ TearDown(f) \/ Opened(f) \/ Reconnected(f) \/ ReconnectFailed(f)

GateNext ==
  \/ SwitchMode
  \/ LoseConnection
  \/ \E f \in Flows : FlowStep(f)
  \/ ReconnectPanics

GateSpec == GateInit /\ [][GateNext]_gateVars

=============================================================================
