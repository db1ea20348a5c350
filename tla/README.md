# OpenProphet: a TLA+ verification project

OpenProphet is a Go trading bot. A language-model agent (the "beat") looks at
the market every few minutes and proposes trades; a human approves them on a
dashboard; orders go to Interactive Brokers through a TCP connection to IB
Gateway; a monitor goroutine looks after the positions that result. This
directory holds TLA+ models of its core, the TLC runs that check them, and TLAPS
proofs about them. All paths below are relative to the repository (`src/`).

## 1. Inventory

| component | state it keeps | operations | hard behaviours |
|---|---|---|---|
| **Intent queue** `services/intent_manager.go` | map of intents with a status, ring of resolved ones, callback | CreateIntent, ClaimForExecution, MarkCompleted, RejectIntent, 30 s sweep | two browser tabs, the human, the sweeper and an execution race for an intent |
| **Intent handlers** `controllers/intent_controller.go` | one goroutine per request | authorize (claim, price guard, decode, place, complete or reject), reject | long calls of the broker between claim and completion; panics |
| **Trading gate** `services/gated_trading.go`, mode in `config/config.go` | `enabled`, the live trading mode | Disable, Enable, CanTrade, guards of Place and Cancel | read once, used seconds later |
| **TWS client** `tws/tws_client.go`, reconnect flows in `cmd/bot/main.go` | connection, session, order ids, closed channel | Connect, readLoop, writeFrame, Reconnect; automatic loop and manual endpoint | two reconnect flows that do not exclude each other, nil connection meanwhile, old read loops |
| **Dispatcher** `tws/dispatcher.go`, order ids, resolver | channel of 16 per request | Register, Dispatch, Complete, DrainAll | full buffers, drained requests, reused ids |
| **IBKR trading service** `services/ibkr_trading.go` | order cache, position cache, subscription flag | PlaceOrder (bracket groups), CancelOrder, GetOrder, ListOrders, GetPositions, callbacks, OnDisconnect, OnReconnect | caches emptied and refilled while others read them; requests without an answer |
| **Market data** `services/ibkr_data.go` | streams and history buffers per request | quotes, bars, streams | channels closed under a sender |
| **Position manager** `services/position_manager.go` | map of positions, one row each in SQLite | place, monitor every 10 s, close, reload at start | the monitor and requests share structs without a lock; fills, lost connections and restarts between any two steps |
| **Autonomous beat** `services/autonomous_beat.go` | ticker, message queue, steering queue, counters | Start, Stop, Run, tick, inject message | messages at the end of a beat, channels made late, two loops |
| **Agent tools** `services/agent_tools.go` | none | the tools the agent calls; CreateIntent in supervised mode | permissions and mode at call time |
| **Suggestions, storage** `services/suggestion_manager.go`, `database/storage.go` | rows | create, accept, dismiss, sweep, evaluate | unconditional updates; `Save` that inserts |
| **Risk engine** `services/riskengine.go` | none | pure functions of legs and prices | numeric edges |
| **Manual endpoints** `controllers/order_controller.go` | none | buy, sell, options, cancel | a frozen flag beside a live mode |
| **SSE hub, activity log** | clients with bounded channels; today's log | subscribe, broadcast; log | dropped events; no lock |
| **Agent configuration** `configstore/configstore.go` | one JSON file, its copy in memory, the environment derived from it | updates, save, sync | memory changed though the save failed; syncs that overlap |
| wire codec, LLM clients, news and analysis, dashboard, probes | – | – | not modelled, see section 8 |

How they interact: the beat calls a tool, which creates an intent; the
dashboard's request claims it and calls the gate, which calls the trading
service, which writes to the TWS client. The gateway's answers come back on the
read-loop goroutine, through the dispatcher to a waiting request and through
callbacks into the caches. The monitor and the close requests read those caches
and write the same structs. Both reconnect flows turn the gate off, empty the
caches, replace the connection, and turn the gate on again.

What makes each component correct, in one line each: an intent is executed at
most once, reported as what it was, and does not stay for ever; nothing reaches
the broker through a closed gate; a session's answers reach the request that
asked; a position is managed only if the account has it, ended only if it is
gone, exited once, and remembered over a restart; a message to the agent is
delivered; a suggestion is resolved once; a settings change is kept or refused.

## 2. Modules

`A -> B` reads "B extends A"; a dotted arrow is a refinement.

```
IntentManager -+
TradingGate ---+-> IntentAuthorization -> IntentAuthorizationProperties -> MCIntentAuthorization
                                              | ...> IntentLifecycle (abstract)
                                              +-> IntentAuthorizationProofs
TradingGate -> IBKRTradingService -> PositionManager -> PositionMonitor -> PositionProperties
                                                                              +-> PositionProofs
TWSClient ...> TradingGate (abstract)
    +-> TWSClientProofs (also in DeskProofs)
    +-> TWSRequests -> MCRequests
            +-> TWSRequestsProofs (with TWSClientProofs)

AutonomousBeat -> AutonomousBeatProofs -+
OrderPlacement -> OrderPlacementProofs -+
SpreadBuilder  -> SpreadBuilderProofs --+-> DeskProofs
Suggestions ----+                       |
TWSClient ------+                       |
ConfigStore ----+-> MCDesk (all six) ---+
```

| module | models | its state, in the code |
|---|---|---|
| `TradingGate` | the kill-switch, the live trading mode, the two reconnect flows as they move both | `GatedTradingService.enabled`, `config.CurrentTradingMode`, `Client.conn`, where the goroutine and the endpoint of `main.go` are; it is also the abstract specification of `TWSClient` |
| `IntentManager` | every operation of the queue; the 30 s sweep takes the expired intents in any order, as Go ranges over a map | `intents`, `history`, what was logged (`emitted`) and what the agent was told (`told`) |
| `IntentAuthorization` | one `HandleAuthorizeIntent` per element of `Handlers`, cut where it leaves `im.mu` or waits for the broker: claim, reference price, quote, gate, transmission, completion or rejection; plus the human, the sweeper, the gate, panics | `pc`, `job`; ghosts: orders transmitted (`sent`), orders the broker has (`live`), prices compared (`checked`) |
| `IntentLifecycle` | what the queue promises of one intent, without requests, maps, rings or a gate | – |
| `IBKRTradingService` | the two caches, their callbacks and emptying, `GetOrder`, `GetPositions`, `CancelOrder`, `PlaceOrder` of a group; with the gateway's bracket groups as an external part | `orderCache` (field `cached` of an order), `posCache`, `posSubscribed`; external: what the gateway does with the orders, what the account holds, whether the session has an account subscription |
| `PositionManager` | requests that place and close a position, cut at every call of the broker and of the database | `positions` (`mem`), the rows (`db`), where requests and monitor are (`at`, `target`) |
| `PositionMonitor` | the monitor goroutine with everything around it: requests, gateway, lost connections, both reconnect flows, mode changes, crashes and restarts | the snapshot of a tick (`todo`) |
| `TWSClient` | the connections a client has had, their read loops, and the two flows of `main.go` that replace them, step by step: halt, `OnDisconnect`, `DrainAll`, reset, dial, handshake, resume | `Client.conn`, `connected`, `closed` with `closeOnce` (`shut`, by generation), one read loop per connection (`loop`), `gated.enabled` (`trading`) |
| `TWSRequests` | over those sessions: the dispatcher, the id counter, requests for contracts, orders and the account, quotes and bars, each with all its ways to end | `orderIDs`, `pending`, the channels, `streams` with `histBuf`, what each caller has received; external: what the gateway owes |
| `AutonomousBeat` | Start, Stop, the messages of the human and of the intent queue, the loop with its turns and tool calls, the spot check and the gate before a direct order | `isRunning`, `inTick`, `messageQueue`, `steeringCh`, `triggerCh`, per loop its context, conversation and mode |
| `OrderPlacement` | one order from a manual endpoint or the position manager to the gateway: the switches, the gate, the legs of the bracket with their transmit flags, the aggregated channel, the cleanup cancel, the saved row | the channels of `PlaceOrder`, `legChan` and `aggCh`, the row; external: what is on the wire and at the gateway |
| `Suggestions` | create, accept, dismiss, the sweep cut between its list, its clock and each update, the cleanup of old rows | the `suggestions` table; what the sweeper listed |
| `ConfigStore` | agents, the active one and its model, the save that may fail or tear the file, `SyncRuntimeEnv` variable by variable, a restart | `store.config`, the file, `LLM_PROVIDER` and `LLM_MODEL`, the model of the running client |
| `SpreadBuilder` | `BuildSpread` with its search for quoted strikes, `CheckSpreadRisk`, `PlaceComboOrder` | the plan (`legs`, `cost`), the verdict, the order that is sent (`bag`) |
| `MCRequests` | `TWSRequests` for three callers: requests, drained requests, streams and early ids by turns | – |
| `MCDesk` | `TWSClient` and the five modules from `AutonomousBeat` to `SpreadBuilder` side by side: they share no variable, so a behaviour runs the component its `focus` names | – |

`conn` has three values because the code behaves in three ways: "up"; "closed",
where the socket is dead but `Client.conn` is set, so that a write fails or is
lost and `PlaceOrder` answers "PendingConfirm" without an error; and "nil", while
`Reconnect` has torn the connection down, where `writeFrame` dereferences nil. A
gin handler recovers that panic (`Panic`, `HandlerPanic`); neither the monitor
goroutine nor the reconnect goroutine, which writes in `OnReconnect`, recovers
anything, so the process ends (`GoroutinePanic`).

`SaveManagedPosition` calls gorm's `Save` with a struct that never has a primary
key, which inserts a row; `position_id` has a unique index, and every caller drops
the error. So the first save of a position is its only one (`RowAfterSave`).

A manual reconnect and the loop of `main.go` both appear in `TradingGate`, where the
positions and the intents need what a connection does to a write, and in `TWSClient`,
where the question is who reads which connection and who notices its end. The two
are one by refinement: `TWSClient` implements `TradingGate` (`GateRefined`), so that what
intents and positions are checked against is all that sockets, read loops and
generations can do to them. The mapping reads `conn` as "nil", "up" or "closed" by
whether the client's socket is alive, and the nine stages of a flow as four. The
refinement shaped `TradingGate`: the loop may halt on a good connection once the
endpoint has replaced a session (`replaced`), because it still waits on a channel of the
session that is gone; the connection is open before the gate is (the stage "opened"); and
`OnReconnect` of one flow may meet the nil connection of the other (`ReconnectPanics`).

## 3. Abstractions and bounds

- Prices and quotes are arbitrary: a price check has each of its outcomes at any
  time. A quantity matters only in its sign, in the partial exit and in whether it
  is zero: it is counted in the direction of the position, `Quantity = 2` and
  `PartialQty = 1` are the least with a rest, and an order fills as a whole. `StopLegs` says whether
  the bracket has a stop-loss leg: without one in `MCPosManual` and `MCPosMonitor`, both in the
  others; `MCPosManual` buys only, without a partial exit. Each
  managed position has its own symbol, as the account position is per contract.
- The three reads of orders at the end of `manageRiskOrders` are one step, and so
  are the cancels of `CloseManagedPosition`, whose errors are ignored one by one;
  the market exit and the mark that follow them are steps of their own. A save is
  one step: it is one insert.
- A write of a field of a position is one step. The monitor and a request write
  `Status` without a common lock, which Go calls a data race; torn strings are
  left out. Trailing stops only write a log line (`updateTrailingStop`), and a tick that
  is rate-limited does nothing, which is a tick that did not happen.
- `Unlisted` says whether `ListOrders` may miss an open order of a connection that is up: an error of
  `writeFrame`, the end of its context, or a message that a full channel dropped. `GetOrder` then has only the
  cache, which is empty after a restart, and the monitor takes an entry that is still open for
  one that is gone. `MCPosManual`, `MCPosMonitor` and `MCPosReload` set it: their properties hold, or fail, whatever the lists
  miss. `MCPosRestart` does not, because with it `EndedHasNoBracket` is false (section 6).
  `FilledOf` and `FilledPartials` do not depend on it: that an order is filled comes only from the cache.
- A market exit on a good connection is taken or refused. The code logs the error and closes the
  position all the same ("Closing position in database despite order error"), and so does `ExitAtMarket`; an exit is also
  not sent when the gate is closed, and not at the broker when the connection is dead.
- `PromptUpdates` says whether an account update comes with the fill it tells of.
  The runs that ask what the monitor concludes from the cache set it: without it a
  late update makes the monitor believe anything, which is the same question as
  a lost connection. `MCPosMonitor` does not set it.
- `Faults` and `MaxFaults` bound lost connections ("drop"), calls of the manual
  reconnect endpoint and late wake-ups of the goroutine that follow one ("manual"), and crashes ("crash"). One fault is enough to meet
  each hazard once and between any two steps; `MCPosRestart` allows two crashes, so that
  a position that was reloaded is reloaded again. The gateway, the mode and the
  reconnect loop are not bounded.
- `MaxHistory` is 100 in the code (`intent_manager.go:45`). With two intents, 1 makes the ring fill and
  overflow. Two intents and two authorize requests give all races
  of two requests for one intent and of one sweep over several intents.
- `TWSClient`: the handshake is one step that succeeds or fails. The 5 s that the loop
  waits before it reconnects outlast a frame that is being decoded (`Backoff`), which
  is the one assumption about time; the mutant without it breaks `WatchedConnection`.
  The gateway closes a connection at any moment. In `MCDesk`, `MaxGeneration` 2 gives three
  sessions and one manual call, so that both flows replace the same session in any order. The three
  properties were also checked alone (`SessionSpec`) with four sessions, where a replacement is replaced
  while it is set up (180,340 states), and `GateRefined` with two calls (800,391).
- `TWSRequests` (`MCRequests`, 1,219,408 distinct states): three callers, each with one request, in four
  turns. In "requests" and "drained" two of them list orders or resolve contracts, and in "streams" they take
  quotes or load bars: both kinds share ids and connection, but an answer goes to the dispatcher or to the data
  service. In "drained" the
  endpoint halts the gate, empties the caches and drains the requests while the goroutine does
  the same, but does not go on to replace a session, before which alone the properties speak; elsewhere only the goroutine reconnects. In
  "early" the first session has been lost, and all three resolve contracts, which is what it takes to
  get an id from the counter that `Reset` left at 0, then `FirstId`, and `FirstId` once more when
  `nextValidId` seeds the counter with it. `FirstId` is 1, so that this needs no more callers and a later session
  hands out every id again; the fixed id 0 of `ListOrders` then meets the first id of the counter that is not seeded,
  which is when `Register` panics. `Capacity` is 16 in the code and 1 here, with answers of up to two items, so that a channel
  overflows; bars and the turns "drained" and "early" have one item at most. One connection is replaced and the last one holds.
  `NextOrderId`, the registration and the write follow each other in the code without a wait, and are one
  step: an id that is taken before a reset and written after it is left out, and so is a send
  on a channel of `ibkr_data.go` (line 146) that is closed between the look-up of the stream and the send.
- `AutonomousBeat`: the snapshot, the prompt and the interval are left out: a tick comes
  at any time. Two turns stand for ten, a steering channel of 1 for 8, two calls of
  Start for any number. Two messages fill the channel, so that `InjectMessage` meets one that is full and drops;
  the second comes while there is one loop, and no loop is started after it (`LastWord` in `MCDesk`). The reply of a model is any of `Replies`: two orders in a row, or a
  tool that only reads. `brokerUp` is the gate's switch, at any moment either way.
- `OrderPlacement`: one order, one lost connection. The gateway is external: it holds a leg until one
  of its group transmits, takes the exits with the entry, and refuses an exit whose
  entry is gone. A cancel is asked for when what was sent has arrived.
  The cancel of the endpoint updates its row with an insert, which the unique order
  id refuses (`SaveCanceled`).
- `Suggestions`: two ideas; each passes its time and the retention of the cleanup once.
  `ReconcileOutcomes` has no caller.
- `ConfigStore`: two requests at once, three in all, one failed save, one crash, which may tear
  the file. The page never sends an "id"; strategies, heartbeat, permissions and plugins are
  one action that shares the lock and the file; migrations of old files are left out.
- `SpreadBuilder`: integer points. Each quote is read on its own, with a timeout, while the market moves:
  the search may end at any strike in reach of its target, and find there any mid of `Mids`. No
  order of the quotes is assumed, between strikes or between sides, so that the credit check is
  all that keeps a wing from the wrong side (and it does not, section 6). Nine strikes and a reach of two for
  a reach of eight, which is enough for a wing to cross its short strike; the short strike is looked for on either side of a grid
  point, condors only with a known portfolio. The resolver returns
  a wrong contract for at most one leg; the model orders the legs of the plan, with any
  action for the bag.
- `MCDesk` explores the sum of the components and not their product. Distinct states by
  focus: sessions 9,409; beat 211,462; placement 45,262; suggestions 9,499; config 12,807; spread 110,790.
  These components and the requests stop when the bounds are used up, so
  deadlock is not checked.
- Position runs do not check deadlock: with every position ended, or lost by
  a crash that came before its save, and no fault left, the system really stops.
- One managed position per run. Positions share only the two actors, the connection
  and the caches, and no property relates two positions; the proofs are for
  any number of them.

## 4. Runs

| run | what it asks, and what it shows |
|---|---|
| `MCAuthPaper` | Two authorize requests, the human, the sweeper, mode changes and both reconnect flows race for two intents. An intent is sent once (`AtMostOneOrder`), is reported as what it was (`CompletedWasSent`, `ExpiredWasIdle`), is announced and told to the agent once (`ResolvedOnce`, `AgentToldOnce`); the ring is right (`HistoryRing`); the whole implements `IntentLifecycle` (`LifecycleSpec`). |
| `MCAuthLive` | The live port: nothing is sent without a reference price (`LiveNeedsReference`); with a ticking sweeper no intent waits for ever (`PendingIsResolved`). |
| `MCAuthRejected` | Refuted, `RejectedHasNoOrder`: the human rejects an intent while a request executes it. |
| `MCPosManual` | A close request and the monitor work on a position while the manual endpoint and the reconnect loop replace the connection at once, so that writes meet a nil connection behind an open gate (`HandlerPanic`, `GoroutinePanic`); lists fall short and exits are refused: held means filled (`ActiveWasFilled`). |
| `MCPosMonitor` | Both directions, both kinds of reconnect, late updates, short lists, refused exits and mode changes, no close request: one partial exit (`OnePartialExit`, also checked with a close request and a lost connection, 14,898,658 states) and one exit, never before the entry (`OneExit`), and an ended position stays ended (`MovesForward`). |
| `MCPosRestart` | Two crashes and a connection that holds: the monitor leaves no holdings behind unless the exit was refused (`NothingLeftBehind`), and no bracket orders (`EndedHasNoBracket`), and notices fills of the entry and of the bracket (`FilledIsNoticed`, `NativeExitIsNoticed`). |
| `MCPosReload` | Refuted, `ClosedIsNotReloaded`: the row of a position is never updated, so a restart brings a closed one back as PENDING. |
| `MCPosNative` | Refuted, `NativelyClosedIsFlat`: a cache emptied by `OnDisconnect` reads as a position closed at the broker. |
| `MCPosPanic` | Refuted, `SurvivesReconnect`: a goroutine that writes during a reconnect ends the process. |
| `MCRequests` | Over lost sessions and reused ids, while both flows halt and drain: a caller receives another's answer only if both may have one id on one connection, as two `ListOrders` have, or as an id of the counter that is not seeded yet and a later one may (`OwnAnswers`, `MayShareId`); an answer that an end marker ended is whole but for what a full channel dropped, unless the gateway still owed such another answer when it was asked for (`EndMeansWhole`). No id is exempt: what the lost answers and the callers who give up leave behind is all there is. |
| `MCDesk` | Sessions: whatever both reconnect flows and the read loops do, the gate sees nothing that `TradingGate` does not (`GateRefined`); until the endpoint replaces a session one loop reads the connection that is written to (`WatchedConnection`), and a lost connection closes the gate (`LossIsNoticed`). Beat: a message is in one place, once, even with two loops (`SaidOnce`), and a queued one is taken (`QueuedIsTaken`); a stopped loop sends one more order at most (`OneOrderAfterStop`). Placement: no entry is at work without its exits (`NoNakedEntry`), an order that was refused is withdrawn (`RefusedIsWithdrawn`). Suggestions: none stays PENDING past its time (`PendingEnds`). Store: the active agent exists over failed saves and crashes (`ActiveAgentKnown`), the environment follows its model (`EnvFollowsStore`). Spreads: the stated loss is the worst one where the wings are as wide as asked for (`StatedLoss`), and elsewhere, inverted spreads included, the worst one exceeds it by no more than the search moves a strike (`LossIsBounded`); what is executed is the plan (`ExecutedAsPlanned`). |
| `MCDeskBudget` | Refuted, `BudgetIsKept`: a wing that was found further out than asked for loses more than the budget. |

Properties are weakened where the code visibly cannot keep them, and say so: after
a restart a row that says PENDING makes the monitor activate the position again and
place a second partial exit, so `OnePartialExit` and `OneExit` count within one
life of the process; `MovesForward` excludes the restart itself; `NothingLeftBehind`
is checked where the connection holds and no close request races, because a lost
connection loses the exit order too, and excepts a position whose last exit was refused, which the code
closes with all of its holding (`ClosedIsSold`, section 6). It bounds the holding by what is being sold from
above only: an exit that sells more than there is is `ExitWithinHolding`. `OwnAnswers` and
`EndMeansWhole` name with `MayShareId` the one way in which ids do collide. `NativeExitIsNoticed` is "always again", as
the position may be reloaded after it was noticed.

**Fairness.** `SweeperFairness`: time passes an intent's TTL and the ticker of
`StartSweeper` fires; nothing else is fair in `MCAuthLive`, so requests may hang for
ever and the property still holds. `MonitorFairness`: the 10 s ticker fires and
each broker call of the goroutine returns, by answer, error or timeout; the price
checks, the gateway and everybody else are not fair. A lost connection is not
allowed in that run: while it is down the monitor only learns what the caches say.
`HandlerFairness` is stated for the departure `ExecutingIsResolved` below.
`MCDesk` has the fairness of `TWSClient` (`SessionFairness`: a read loop at the end of its connection
ends, a frame in hand is decoded, the loop of `main.go` goes on; neither gateway nor human owe
anything), of `AutonomousBeat` (the ticker fires and a beat goes on: every call of
the model and of a tool has a timeout) and of `Suggestions` (the ticker fires, and an update that is
tried for ever succeeds at last, which is strong fairness of `Expire`). `BeatEnds`, that a beat ends
although the model never stops calling tools, holds on the same constants; as a
property it says little more than that turns are counted, so it has no place in the run.

## 5. Proofs

All theorems are for every value of the constants under the named assumptions
(`MaxHistoryAssumption`, `ModesAssumption`, `QuantityAssumption` and so on), that is, for any
number of intents, requests, positions, faults and restarts.

- `IntentAuthorizationProofs`. `TypeCorrect`; the invariant `IInv` (`InductiveInvariant`) and
  from it `OneOrder`, `CompletedIsSent`, `ExpiredIsIdle`, `OneResolution`, `OneFeedback`; `LiveReference` and
  `RingIsRight`, each with its own strengthening. None of the properties is inductive:
  that no second order is sent needs that a request at work holds an intent it
  claimed (`HeldIsClaimed`), that no two hold the same (`HeldByOne`), that an unclaimed
  one has sent nothing (`UnclaimedUnsent`) and that what was sent agrees with where
  the request is (`SentByProgress`). "Claimed" includes REJECTED, because the human
  may reject under a working request: that is why the finding of `MCAuthRejected`
  does not break the others. `IInv` is stated with the ghost function `phase`, so
  that the queue's operations are analysed once (`PhaseClaim`, `PhaseSweep`...) and used for
  invariant and refinement. `Refinement`: initial states map to initial states and every
  step to a step or a stutter, for the mapping in `IntentAuthorizationProperties`.
- `PositionProofs`. `PositionInvariant` and from it `PositionTypeCorrect`,
  `ActiveIsFilled` and `CacheNeverLies`. A position becomes active because a cache says so, so
  the proof is about caches: the order cache says "filled" only of filled orders
  (`CacheIsRight`), no child trades before its parent (`EntryIsFirst`), and a
  quantity is held or cached only after the entry filled (`HeldAfterEntry`). These
  three (`BrokerInv`) are kept by the gateway and the service alone, whatever
  the state of the connection, and what the callers need of that is `OrdersGrow`: orders do not
  disappear and fills are not undone. The records of memory and database are then
  justified by the orders (`Justified`), which later orders keep justifying; with that
  each action of requests and monitor is a few lines on one record (`ActorStep`),
  and a restart, which copies rows to memory, keeps it.
  `PartialExitOnce`, `ExitOnce` and `ForwardOnly` are about the order of steps. The 40 actions are
  first cut down to the few shapes a step can have (`StepShape`): a status moves along one
  edge of a small graph while the actor stands at one place, or an order of one kind is
  sent, or neither. Over these shapes `PartialIsOnce` (as long as a position may still become active for
  the first time, no partial exit was sent), `MonitorKnows` (the status the monitor read still
  holds, which needs that no request closes anything: `Closers = {}`) and `ExitIsOnce` are kept.
  The hypothesis is real: with a close request a second exit is sent, and the runs of
  `OneExit` and `MovesForward` have none either. `OnePartialExit` needs no hypothesis.
  `NothingIsLeft` and `NoBracketIsLeft` relate records, orders and holdings, and hold in the sessions that
  `Undisturbed` describes: connection and gate hold, updates are prompt, lists are complete, positions are bought, no
  request closes any; exits may be refused, the process may crash at any step and as often as it likes, the operator may switch
  between the modes that trade. They are the hypotheses
  of the runs: a close request, a sold position or a lost connection meets the failures of
  `PendingCloseNeverFilled`, `StaleHasNoPosition` and `ReconnectResubscribes` (section 6).
  Such a session keeps its cache equal to the account (`SessionKeeps`), and its steps are
  reduced once more, to what they do to the orders of one position (`CalmStep`, `TouchCases`): an order fills, some
  are cancelled, one is added, a bracket begins. `SettledInv` then says that a filled bracket order
  has sold everything (`BracketSells`) and that a position is settled before it is marked as ended
  (`EndedIsSettled`: its entry can no longer fill, and it is flat, or an exit order works, or the last exit was refused); `ExitsSell` computes
  the fold in `ToBeSold` by well-founded induction over sets of orders. Without partial exits `OneWayOut`
  adds that what is held leaves by the bracket or by a market exit and never by both: one of them open
  means the other is not used. `BracketIsGone`: the monitor sends the exit after the cancel.
- `TWSClientProofs`. `SessionTypeCorrect` and `ConnectionIsWatched`. A connection is read by the
  loop that `Connect` began for it, unless a loop that is between two frames picks up
  the client's new reader. `OneConnection` says that until the endpoint replaces a session
  (`Replaced`) this never happens: only the loop of the client's connection is at work, every
  other has ended when the loop of `main.go` opens a connection; `ShutBegan`, that no session
  is closed before it began, is what a reset needs. `SessionsRefineGate`: initial states map to
  initial states and every step to a step or a stutter, action by action, for any number of
  sessions and of calls. A step of a read loop changes the gate's connection or nothing;
  a flow moves along the gate's four stages. Two guards of the gate need the invariant: the goroutine
  halts on an open connection only after a replacement (`OneConnection`, the contrapositive), and a flow
  that is past its reset has made the session a replaced one (`LateIsReplaced`).
- `TWSRequestsProofs`. `RequestTypeCorrect`, `AnswersAreOwn`, `EndedAnswerIsWhole` from `RequestInv`, and
  `RequestsRefineGate`: every step of the requests is a step or a stutter of the sessions. An
  id is handed out again after a reconnect, so a request is identified by session and id:
  who is registered under an id asked in this session (`Asking`), and what the gateway owes, what is in a
  channel and what a caller has received belong to the one that asked or to one whose answer was still owed
  under its id (`Hears`, `OneAddressee`, `ChannelIsOwn`), until the endpoint
  replaces a session; before that it may drain the requests of the goroutine's session, which hands
  nothing to anybody (`FlowFacts`, `Elsewhere`). The theorems assume nothing of `FirstId` or of the number of
  callers: ids of a counter that is not seeded are marked when they are taken (`Early`), and all
  others that are answered on a connection lie between `FirstId` and the counter (`IdsAreFresh`), so that the next one is new. That an ended answer is
  whole needs that the items of an answer that crossed no other are counted: those that came, were dropped or are
  still owed are all there are (`AnswerIsCounted`).
- `SpreadBuilderProofs`. `PlanIsExecuted` is a property of
  the legs and the signs of their prices. `LossIsStated` compares the stated loss with the worst value of
  the legs over every price at expiry. The value is a sum over at most four legs,
  defined by a fold, which is unfolded once per leg by the well-founded induction of the library in its
  first-order form (`WFMin`); the worst value lies at a strike because every leg is linear between
  strikes, shown vertical by vertical. `LossIsWithinReach` bounds the worst value for every outcome of the search
  and any quotes: a strike is found within reach of the nearest grid point of its target (`SnapIsNear`, `SearchStaysNear`), so
  a pair of legs is as wide as was asked for, to within that much, on either side (the invariant's `Near` and `Span`), and
  a pair owes at most its signed width (`PairOwes`); `LargestExists` gives the maximum of a finite set of numbers.
  It assumes `SpreadAssumption` alone: a finite grid of strikes and positive mids, with no relation between the two.
- `OrderPlacementProofs`. `PlacementInvariant` and from it `EntryHasItsExits` and
  `RefusedOrderIsWithdrawn`. That the entry is not alone needs the order on the wire: only the
  last leg transmits, what was sent has arrived or is carried (`SentArrives`), every other leg has arrived
  or travels in front of the one that transmits (`GroupFirst`), and a leg whose entry is gone is refused (`Orphans`).
  That a refused order is withdrawn (`Withdrawn`) needs that a cancel is the last word on the
  wire (`CancelIsLast`).
- `AutonomousBeatProofs`. `AtMostOneLateOrder` from `LoopOK`: a cancelled loop cannot pass the
  spot check, so that an order after the cancellation is one whose check was over.
  `MessagesAreSaidOnce` from `TextInv`: queue, steering channel and conversations are
  pairwise apart and hold only what was told.
- `DeskProofs`. `ActiveAgentIsKnown` from `Sound`, which every operation keeps and a file or
  the default has. `EnvironmentFollows` from `EnvInv`: unless it lapsed, every sync that
  is half-way carries the model the store has now, and with no sync at work the
  variables say that model. `DeskTypeCorrect`: the types of the six components together, from
  `DeskInv`, the conjunction of their invariants, as a step of the desk is a step or a stutter
  of each (`DeskSteps`). `SuggestionTypeOK` is inductive as it stands; the other types are not.

TLC checked each inductive invariant as an invariant of a run before it was proved. Every invariant,
action property and refinement of a passing run is stated by a theorem, where a run has restricted
constants under the hypotheses named above. Only model-checked are the
liveness properties (`PendingIsResolved`, `FilledIsNoticed`, `NativeExitIsNoticed`, `LossIsNoticed`,
`QueuedIsTaken`, `PendingEnds`): fairness and ENABLED are beyond the prover.

## 6. Rules the code does not keep

Five have a run (section 4). The following are stated in the property modules with
the line of the repository that promises them, and TLC refutes each within
seconds on the constants of the named run; they have no run of their own because each
asks about a step that a passing run already explores. In two rows the property is one of a passing run without its exception.

| property | constants of | what happens |
|---|---|---|
| `NeverClaimedOverdue` | `MCAuthRejected` | an intent is claimed after its expiry, before the next tick of the sweeper |
| `ExecutingIsResolved` (under `FairSpec`) | `MCAuthRejected` | a recovered panic leaves the intent EXECUTING, which neither sweeper nor handler takes out |
| `KillSwitchAtExecution` | `MCAuthRejected` | the gate is read before the contract is resolved, and closed before the order is sent |
| `LiveOrderWasChecked` | `MCAuthRejected`, live port | no quote arrives, and the slippage check is skipped |
| `ExitWithinHolding` | `MCPosNative` | the bracket closes the position between the price check and the market exit |
| `StaleHasNoPosition` | `MCPosReload`, side "sell" | the cached quantity has lost its sign, so a filled short position is taken for stale |
| `PendingCloseNeverFilled` | `MCPosNative`, a closer | a close request trusts a PENDING that is one tick old and leaves the filled position without orders |
| `ReconnectResubscribes` | `MCPosNative` | the monitor subscribes in the dead connection and `OnReconnect` returns early |
| `ClosedIsSold` | `MCPosRestart` | the gateway refuses the market exit, and the position is CLOSED with all of its holding |
| `EndedHasNoBracket` | `MCPosRestart`, `Unlisted` | after a restart a list of orders falls short, the entry that is still open is taken for lost, and the position ends with its entry and bracket at the broker |
| `OwnAnswers`, `EndMeansWhole` without `MayShareId` | `MCRequests` | an id taken between the reset of a session and `nextValidId` is handed out again when the counter is seeded, while its request waits: one receives the other's answer; and the end marker of a `ListOrders` that was given up ends the next one |
| `WingIsOutside` | `MCDesk` | the quotes of a short strike and of its wing are read one after the other, the search for the wing ends on the other side of the short strike, and the credit check passes |
| `LossHaltsTrading` | `MCDesk` | after a manual reconnect the loop of `main.go` waits for the channel of a session that is gone: the next loss closes no gate |
| `DrainedRequestFails` | `MCRequests` | `ListOrders` takes the closed channel of `DrainAll` for the end of its answer |
| `SteeringIsHeard` | `MCDesk` | a message after the last turn of a beat stays in the steering channel, which wakes nobody |
| `SupervisedNeedsHuman` | `MCDesk` | a beat that began in autonomous mode sends its orders after the switch to supervised |
| `SubmittedIsProtected` | `MCDesk` | the gateway accepts the entry, "submitted" is answered, and an exit is rejected afterwards |
| `ManualFollowsMode` | `MCDesk` | the manual endpoints ask the mode of the start, everybody else the live one |
| `DecisionStands` | `MCDesk` | the sweeper writes EXPIRED over a decision made between its list and its update |
| `EnvIsOneModel` | `MCDesk` | two syncs interleave and leave the provider of one model with the name of another |
| `RunningModelIsShown` | `MCDesk` | the client keeps the model it was constructed with; the comment of `SyncRuntimeEnv` has the clients read it at call time |

## 7. Plan

Done: the path from a proposal to an order, the life of a position, the components
around them, and the connection below both by refinement. Left, most valuable first:

1. The requests of the position manager over `TWSRequests`: a read of orders that was
   drained is the stale cache that the monitor acts on.
2. The choice among contracts in `resolver.go`, and filled orders in `ListOrders`, so that the missing
   average price (`position_manager.go:394`) is met.
3. Strategies and permissions in `ConfigStore`, with the limits that `CheckSpreadRisk` reads from them.

## 8. Not modelled

Wire encoding and decoding (field by field, without state, table-tested in the repository),
clients of language models (HTTP; `AutonomousBeat` has what a response may cause),
news feeds and indicators (no state others depend on, floating point), dashboards and
pages (read only, except for the model in the Settings panel, which `ConfigStore` has), the SSE hub
and the activity log (events that may be dropped by design, appended text),
diagnostic programs. In the modelled parts: sizes and prices of positions
(`resolveQuantity`, `calculateStopLoss`), the decoding of intent payloads (one of the reasons to
fail), greeks and break-even points, prompts, snapshots and the length of the beat's interval,
the resolver's cache, reads and statistics of suggestions.
