--------------------------- MODULE IntentManager ---------------------------
(***************************************************************************)
(* services/intent_manager.go: the queue of trade intents that wait for a  *)
(* human.  Every operation holds im.mu from its first to its last line, so *)
(* each one is a single action; what one of them starts with "go" (the     *)
(* feedback callback, the bot.log events) is recorded when it is started.  *)
(***************************************************************************)
EXTENDS Integers, Sequences, FiniteSets

CONSTANTS
  Intents,     \* intent IDs (uuids: never used twice)
  MaxHistory   \* maxHistorySize, 100 in the code

ASSUME IntentsAssumption == IsFiniteSet(Intents)
ASSUME MaxHistoryAssumption == MaxHistory \in Nat \ {0}

VARIABLES
  status,    \* Intent.Status while the intent is in the map, else "ABSENT"
  refPrice,  \* Intent.CurrentPrice > 0, = 0, or the intent was never created
  overdue,   \* intents in the map created more than ttlSeconds ago
  history,   \* the ring of resolved intents
  emitted,   \* per intent, the statuses of its "intent_resolved" events
  told       \* per intent, how often onIntentExpiredOrRejected was started

managerVars == <<status, refPrice, overdue, history, emitted, told>>

Final == {"COMPLETED", "REJECTED", "EXPIRED"}
Present == {"PENDING", "EXECUTING"}
HistoryEntry == [intent : Intents, status : Final]

ManagerTypeOK ==
  /\ status \in [Intents -> Present \union {"ABSENT"}]
  /\ refPrice \in [Intents -> {"unset", "none", "some"}]
  /\ overdue \subseteq Intents
  /\ history \in Seq(HistoryEntry)
  /\ emitted \in [Intents -> Seq(Final)]
  /\ told \in [Intents -> Nat]

ManagerInit ==
  /\ status = [i \in Intents |-> "ABSENT"]
  /\ refPrice = [i \in Intents |-> "unset"]
  /\ overdue = {}
  /\ history = <<>>
  /\ emitted = [i \in Intents |-> <<>>]
  /\ told = [i \in Intents |-> 0]

-----------------------------------------------------------------------------
(* Helpers *)

InMap(i) == status[i] # "ABSENT"

\* Mutant: the ring is one entry short.
PushHistory_OffByOne(h, s) ==
  LET all == h \o s
      drop == IF Len(all) >= MaxHistory THEN Len(all) - MaxHistory + 1 ELSE 0
  IN  SubSeq(all, drop + 1, Len(all))

\* pushHistory for each entry of the sequence s: the ring never holds more
\* than MaxHistory entries and drops the oldest.
PushHistory(h, s) ==
  LET all == h \o s
      drop == IF Len(all) > MaxHistory THEN Len(all) - MaxHistory ELSE 0
  IN  SubSeq(all, drop + 1, Len(all))

\* The intent leaves the map with status s, is pushed and announced.
Finalize(i, s) ==
  /\ status' = [status EXCEPT ![i] = "ABSENT"]
  /\ history' = PushHistory(history, <<[intent |-> i, status |-> s]>>)
  /\ emitted' = [emitted EXCEPT ![i] = Append(@, s)]
  /\ overdue' = overdue \ {i}

\* The orders in which the sweep's range over the Go map may visit S.
Visits(S) ==
  {v \in [1 .. Cardinality(S) -> S] :
     \A j, k \in DOMAIN v : v[j] = v[k] => j = k}

-----------------------------------------------------------------------------
(* Operations *)

\* CreateIntent.  The beat captures a reference price, or 0 without a quote.
CreateIntent(i) ==
  /\ refPrice[i] = "unset"
  /\ status' = [status EXCEPT ![i] = "PENDING"]
  /\ \E p \in {"none", "some"} : refPrice' = [refPrice EXCEPT ![i] = p]
  /\ UNCHANGED <<overdue, history, emitted, told>>

\* The clock passes CreatedAt + ttlSeconds, which is also ExpiresAt.
PassTTL(i) ==
  /\ InMap(i)
  /\ i \notin overdue
  /\ overdue' = overdue \union {i}
  /\ UNCHANGED <<status, refPrice, history, emitted, told>>

\* Mutants: the sweep does not look at the status, or at the wrong one.
Expirable_AnyStatus == {i \in Intents : InMap(i) /\ i \in overdue}

Expirable_Executing == {i \in Intents : status[i] = "EXECUTING" /\ i \in overdue}

Expirable == {i \in Intents : status[i] = "PENDING" /\ i \in overdue}

\* Mutant: the sweep starts no callback.
Sweep_NoCallback ==
  /\ Expirable # {}
  /\ status' = [i \in Intents |-> IF i \in Expirable THEN "ABSENT" ELSE status[i]]
  /\ \E v \in Visits(Expirable) :
       history' = PushHistory(history,
         [k \in 1 .. Cardinality(Expirable) |->
            [intent |-> v[k], status |-> "EXPIRED"]])
  /\ emitted' = [i \in Intents |->
       IF i \in Expirable THEN Append(emitted[i], "EXPIRED") ELSE emitted[i]]
  /\ overdue' = overdue \ Expirable
  /\ UNCHANGED <<refPrice, told>>

\* sweep: every overdue PENDING intent expires, in the order of the range.
Sweep ==
  /\ Expirable # {}
  /\ status' = [i \in Intents |-> IF i \in Expirable THEN "ABSENT" ELSE status[i]]
  /\ \E v \in Visits(Expirable) :
       history' = PushHistory(history,
         [k \in 1 .. Cardinality(Expirable) |->
            [intent |-> v[k], status |-> "EXPIRED"]])
  /\ emitted' = [i \in Intents |->
       IF i \in Expirable THEN Append(emitted[i], "EXPIRED") ELSE emitted[i]]
  /\ told' = [i \in Intents |->
       IF i \in Expirable THEN told[i] + 1 ELSE told[i]]
  /\ overdue' = overdue \ Expirable
  /\ UNCHANGED refPrice

\* Mutant: an intent that is already executing can be claimed.
ClaimForExecution_NoStatusCheck(i) ==
  /\ InMap(i)
  /\ status' = [status EXCEPT ![i] = "EXECUTING"]
  /\ UNCHANGED <<refPrice, overdue, history, emitted, told>>

\* ClaimForExecution, when it does not return an error.
ClaimForExecution(i) ==
  /\ status[i] = "PENDING"
  /\ status' = [status EXCEPT ![i] = "EXECUTING"]
  /\ UNCHANGED <<refPrice, overdue, history, emitted, told>>

\* MarkCompleted: silently nothing when the intent is gone.
MarkCompleted(i) ==
  IF InMap(i)
  THEN /\ Finalize(i, "COMPLETED")
       /\ UNCHANGED <<refPrice, told>>
  ELSE UNCHANGED managerVars

\* Mutants: no lookup; the entry pushed before its status is set.
RejectIntent_NoLookup(i) ==
  /\ Finalize(i, "REJECTED")
  /\ told' = [told EXCEPT ![i] = @ + 1]
  /\ UNCHANGED refPrice

RejectIntent_PushedTooEarly(i) ==
  IF status[i] \in Present
  THEN /\ Finalize(i, status[i])
       /\ told' = [told EXCEPT ![i] = @ + 1]
       /\ UNCHANGED refPrice
  ELSE UNCHANGED managerVars

\* RejectIntent: an error, which its callers ignore, when the intent is gone.
RejectIntent(i) ==
  IF status[i] \in Present
  THEN /\ Finalize(i, "REJECTED")
       /\ told' = [told EXCEPT ![i] = @ + 1]
       /\ UNCHANGED refPrice
  ELSE UNCHANGED managerVars

=============================================================================
