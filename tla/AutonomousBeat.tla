--------------------------- MODULE AutonomousBeat ---------------------------
(***************************************************************************)
(* services/autonomous_beat.go with the tools of services/agent_tools.go   *)
(* that change something and the handlers of controllers/                  *)
(* beat_controller.go: the loop that wakes the language model, what the    *)
(* human tells it meanwhile, and the orders it sends.  Start after Stop    *)
(* begins another loop, which shares everything with one still in a beat.  *)
(***************************************************************************)
EXTENDS Naturals, Sequences

CONSTANTS
  Messages,     \* what the human and the intent queue tell the agent
  MaxStarts,    \* calls of Start
  MaxTurns,     \* 10: turns of a beat
  SteeringCap,  \* 8: capacity of steeringCh
  BeatModes,    \* the trading modes the operator switches between
  Replies       \* the tool calls of one response of the model

Tools == {"read", "consult", "order", "suggest", "set_heartbeat"}

ASSUME BeatAssumption ==
  /\ MaxStarts \in Nat /\ MaxTurns \in Nat \ {0}
  /\ SteeringCap \in Nat \ {0}
  /\ BeatModes \subseteq {"off", "suggest", "supervised", "autonomous"}
  /\ BeatModes # {}
  /\ Replies \subseteq Seq(Tools)

VARIABLES
  isRunning, inTick,
  queue,      \* messageQueue
  steering,   \* steeringCh, or NilChannel before the first beat is over
  trigger,    \* triggerCh: full or not
  beat,       \* the loops that Start began; the last is the one Stop cancels
  liveMode,   \* CurrentTradingMode()
  told        \* messages already injected

beatVars == <<isRunning, inTick, queue, steering, trigger, beat, liveMode, told>>

NilChannel == <<"nil">>
NoMode == "none"
Loops == DOMAIN beat
Held(s) == {s[i] : i \in DOMAIN s}
Executes(m) == m \in {"supervised", "autonomous"}

LoopRecords ==
  [at : {"starting", "waiting", "preparing", "turn", "asking", "acting", "sending", "summing", "ended"},
   cancelled : BOOLEAN, first : BOOLEAN, talk : Seq(Messages), turn : 0..MaxTurns,
   todo : Seq(Tools), mode : BeatModes \union {NoMode}, late : Nat]

BeatTypeOK ==
  /\ isRunning \in BOOLEAN /\ inTick \in BOOLEAN /\ trigger \in BOOLEAN
  /\ queue \in Seq(Messages)
  /\ steering = NilChannel \/ steering \in Seq(Messages)
  /\ beat \in Seq(LoopRecords) /\ Len(beat) <= MaxStarts
  /\ liveMode \in BeatModes
  /\ told \subseteq Messages

BeatInit ==
  /\ isRunning = FALSE /\ inTick = FALSE
  /\ queue = <<>> /\ steering = NilChannel /\ trigger = FALSE
  /\ beat = <<>>
  /\ liveMode \in BeatModes
  /\ told = {}

Set(l, loop) == beat' = [beat EXCEPT ![l] = loop]
Goes(l, stage) == Set(l, [beat[l] EXCEPT !.at = stage])

-----------------------------------------------------------------------------
(* The handlers *)

\* Start.
Start ==
  /\ ~isRunning
  /\ Len(beat) < MaxStarts
  /\ isRunning' = TRUE
  /\ beat' = Append(beat, [at |-> "starting", cancelled |-> FALSE, first |-> TRUE,
       talk |-> <<>>, turn |-> 0, todo |-> <<>>, mode |-> NoMode, late |-> 0])
  /\ UNCHANGED <<inTick, queue, steering, trigger, liveMode, told>>

\* Stop cancels the context of the latest loop.
Stop ==
  /\ isRunning
  /\ isRunning' = FALSE
  /\ Set(Len(beat), [beat[Len(beat)] EXCEPT !.cancelled = TRUE])
  /\ UNCHANGED <<inTick, queue, steering, trigger, liveMode, told>>

\* injectBeatMessage: a full steering channel drops the message, a trigger
\* that is nil or full is skipped.
Inject(m) ==
  /\ told' = told \union {m}
  /\ IF inTick /\ steering # NilChannel
     THEN /\ steering' = IF Len(steering) < SteeringCap THEN Append(steering, m) ELSE steering
          /\ UNCHANGED <<queue, trigger>>
     ELSE /\ queue' = Append(queue, m)
          /\ trigger' = (steering # NilChannel)
          /\ UNCHANGED steering
  /\ UNCHANGED <<isRunning, inTick, beat, liveMode>>

\* HandleMessage asks for a running agent.
HandleMessage == isRunning /\ \E m \in Messages \ told : Inject(m)

\* The intent queue tells of an intent the agent created, running or not.
Feedback == ~isRunning /\ \E m \in Messages \ told : Inject(m)

\* The Settings panel.
SetMode ==
  /\ \E m \in BeatModes \ {liveMode} : liveMode' = m
  /\ UNCHANGED <<isRunning, inTick, queue, steering, trigger, beat, told>>

-----------------------------------------------------------------------------
(* The loop *)

\* Mutants: the queue is not cleared; only a trigger wakes the loop.
BeginTick_KeepsQueue(l) ==
  /\ \/ beat[l].at = "starting" /\ UNCHANGED trigger
     \/ beat[l].at = "waiting" /\ ~beat[l].cancelled /\ UNCHANGED trigger
     \/ beat[l].at = "waiting" /\ trigger /\ trigger' = FALSE
  /\ inTick' = TRUE
  /\ Set(l, [beat[l] EXCEPT !.at = "preparing", !.talk = queue])
  /\ UNCHANGED <<isRunning, queue, steering, liveMode, told>>

BeginTick_NoTicker(l) ==
  /\ \/ beat[l].at = "starting" /\ UNCHANGED trigger
     \/ beat[l].at = "waiting" /\ trigger /\ trigger' = FALSE
  /\ inTick' = TRUE
  /\ queue' = <<>>
  /\ Set(l, [beat[l] EXCEPT !.at = "preparing", !.talk = queue])
  /\ UNCHANGED <<isRunning, steering, liveMode, told>>

\* tick takes the queue: at once when the loop starts, at the ticker, at a
\* trigger, which a cancelled loop may still choose.
BeginTick(l) ==
  /\ \/ beat[l].at = "starting" /\ UNCHANGED trigger
     \/ beat[l].at = "waiting" /\ ~beat[l].cancelled /\ UNCHANGED trigger
     \/ beat[l].at = "waiting" /\ trigger /\ trigger' = FALSE
  /\ inTick' = TRUE
  /\ queue' = <<>>
  /\ Set(l, [beat[l] EXCEPT !.at = "preparing", !.talk = queue])
  /\ UNCHANGED <<isRunning, steering, liveMode, told>>

\* After the snapshot, the trading mode is read for the whole beat.
Prepare(l) ==
  /\ beat[l].at = "preparing"
  /\ Set(l, [beat[l] EXCEPT !.at = "turn", !.mode = liveMode])
  /\ UNCHANGED <<isRunning, inTick, queue, steering, trigger, liveMode, told>>

\* A turn: the messages that came during the beat join the conversation.
Turn(l) ==
  /\ beat[l].at = "turn"
  /\ ~beat[l].cancelled
  /\ LET new == IF steering = NilChannel THEN <<>> ELSE steering IN
     Set(l, [beat[l] EXCEPT !.at = "asking", !.talk = @ \o new, !.turn = @ + 1])
  /\ steering' = IF steering = NilChannel THEN steering ELSE <<>>
  /\ UNCHANGED <<isRunning, inTick, queue, trigger, liveMode, told>>

\* The response calls tools; a cancelled context ends the request.
Respond(l) ==
  /\ beat[l].at = "asking"
  /\ ~beat[l].cancelled
  /\ \E r \in Replies \ {<<>>} : Set(l, [beat[l] EXCEPT !.at = "acting", !.todo = r])
  /\ UNCHANGED <<isRunning, inTick, queue, steering, trigger, liveMode, told>>

\* A tool returned; after the last one, another turn or the forced summary.
Done(l) ==
  IF Len(beat[l].todo) > 1 THEN [beat[l] EXCEPT !.at = "acting", !.todo = Tail(@)]
  ELSE [beat[l] EXCEPT !.at = IF beat[l].turn < MaxTurns THEN "turn" ELSE "summing",
                       !.todo = <<>>]

\* An order of a beat that began in supervised mode becomes an intent.
ProposeOrder(l) ==
  /\ beat[l].at = "acting"
  /\ Head(beat[l].todo) = "order"
  /\ beat[l].mode = "supervised"
  /\ Set(l, Done(l))
  /\ UNCHANGED <<isRunning, inTick, queue, steering, trigger, liveMode, told>>

\* Mutant: the quote does not depend on the context of the beat.
CheckSpot_OwnContext(l) ==
  /\ beat[l].at = "acting"
  /\ Head(beat[l].todo) = "order"
  /\ beat[l].mode # "supervised"
  /\ Goes(l, "sending") \/ Set(l, Done(l))
  /\ UNCHANGED <<isRunning, inTick, queue, steering, trigger, liveMode, told>>

\* Any other order needs a fresh quote, which a cancelled context denies.
CheckSpot(l) ==
  /\ beat[l].at = "acting"
  /\ Head(beat[l].todo) = "order"
  /\ beat[l].mode # "supervised"
  /\ \/ ~beat[l].cancelled /\ Goes(l, "sending")
     \/ Set(l, Done(l))
  /\ UNCHANGED <<isRunning, inTick, queue, steering, trigger, liveMode, told>>

\* The gate passes with the mode of this moment, while the broker is connected.
SendOrder(l) ==
  /\ beat[l].at = "sending"
  /\ \E brokerUp \in BOOLEAN :
       Set(l, [Done(l) EXCEPT !.late =
         IF brokerUp /\ Executes(liveMode) /\ beat[l].cancelled THEN @ + 1 ELSE @])
  /\ UNCHANGED <<isRunning, inTick, queue, steering, trigger, liveMode, told>>

\* The tools that read, consult another agent (twice in a beat, and no more)
\* or touch another component.
OtherTool(l) ==
  /\ beat[l].at = "acting"
  /\ Head(beat[l].todo) \in {"read", "consult", "suggest", "set_heartbeat"}
  /\ Set(l, Done(l))
  /\ UNCHANGED <<isRunning, inTick, queue, steering, trigger, liveMode, told>>

\* The beat is over: no message and no review (polling is off or not due, or
\* the book is flat), a cancelled turn, the model's last word or its error, the
\* summary.  After its first tick the loop makes new
\* channels, whatever the old ones held.
EndTick(l) ==
  /\ \/ beat[l].at = "preparing" /\ beat[l].talk = <<>>
     \/ beat[l].at \in {"asking", "summing"}
     \/ beat[l].at = "turn" /\ beat[l].cancelled
  /\ inTick' = FALSE
  /\ Set(l, [beat[l] EXCEPT !.at = "waiting", !.first = FALSE, !.talk = <<>>,
                            !.turn = 0, !.todo = <<>>, !.mode = NoMode])
  /\ IF beat[l].first THEN steering' = <<>> /\ trigger' = FALSE ELSE UNCHANGED <<steering, trigger>>
  /\ UNCHANGED <<isRunning, queue, liveMode, told>>

\* ctx.Done.
EndLoop(l) ==
  /\ beat[l].at = "waiting"
  /\ beat[l].cancelled
  /\ Goes(l, "ended")
  /\ UNCHANGED <<isRunning, inTick, queue, steering, trigger, liveMode, told>>

\* A beat in progress, which its own goroutine moves; the model answers or
\* fails within its timeouts.
InBeat(l) ==
  \/ Prepare(l) \/ Turn(l) \/ Respond(l) \/ ProposeOrder(l)
  \/ CheckSpot(l) \/ SendOrder(l) \/ OtherTool(l) \/ EndTick(l)

BeatLoopNext(l) == BeginTick(l) \/ InBeat(l) \/ EndLoop(l)

BeatNext ==
  \/ Start \/ Stop \/ HandleMessage \/ Feedback \/ SetMode
  \/ \E l \in Loops : BeatLoopNext(l)

\* The ticker fires for ever and a beat goes on.
BeatFairness ==
  \A l \in 1..MaxStarts : /\ WF_beatVars(l \in Loops /\ BeginTick(l))
                          /\ WF_beatVars(l \in Loops /\ InBeat(l))

BeatSpec == BeatInit /\ [][BeatNext]_beatVars /\ BeatFairness

-----------------------------------------------------------------------------
(* Properties *)

\* Where a message may be: the queue, the conversation of a loop, the steering
\* channel.
Conversation(k) ==
  IF k = 0 THEN queue ELSE IF k \in Loops THEN beat[k].talk
  ELSE IF steering = NilChannel THEN <<>> ELSE steering

\* A message is in one place, once: in the queue, in the steering channel or
\* in the conversation of one beat, even with two loops at work.
SaidOnce ==
  \A p, q \in 0..(Len(beat) + 1) :
    \A i \in DOMAIN Conversation(p), j \in DOMAIN Conversation(q) :
      Conversation(p)[i] = Conversation(q)[j] => p = q /\ i = j

\* After Stop a loop sends at most one more order: the one whose spot check
\* was over or under way.
OneOrderAfterStop == \A l \in Loops : beat[l].late <= 1

\* A message in the queue of a running agent is taken by a beat, whether its
\* trigger was lost or not.
QueuedIsTaken == (queue # <<>> /\ isRunning) ~> (queue = <<>> \/ ~isRunning)

\* A beat ends, also when the model never stops calling tools.
BeatEnds ==
  \A l \in 1..MaxStarts :
    (l \in Loops /\ beat[l].at = "turn") ~> (l \in Loops /\ beat[l].at = "waiting")

\* Not kept by the code: an order in supervised mode waits for the human.  A
\* beat goes on with the mode it read when it began.
SupervisedNeedsHuman ==
  \A l \in Loops : beat[l].at = "sending" => liveMode # "supervised"

\* Not kept by the code: a message for a running agent reaches the model.  One
\* that comes after the last turn of a beat stays in the steering channel,
\* which triggers nothing.
SteeringIsHeard == (steering \notin {<<>>, NilChannel} /\ isRunning) ~> (steering = <<>> \/ ~isRunning)

=============================================================================
