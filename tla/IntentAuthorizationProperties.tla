------------------- MODULE IntentAuthorizationProperties -------------------
(***************************************************************************)
(* What the authorization flow keeps, and what the repository says of it   *)
(* and it does not keep.                                                   *)
(***************************************************************************)
EXTENDS IntentAuthorization

Resolved(i) == emitted[i] # <<>>
ResolvedAs(i, s) == Resolved(i) /\ emitted[i][1] = s

Working(r, i) == pc[r] # "idle" /\ job[r] = i

-----------------------------------------------------------------------------
(* Kept *)

\* However many requests authorize it at once, and whatever the human and the
\* sweeper do meanwhile, an intent never sends a second order: the claim of
\* ClaimForExecution is exclusive and is never given back.
AtMostOneOrder == \A i \in Intents : sent[i] <= 1

\* "COMPLETED" is never said of an intent whose order was not transmitted: no
\* error path of HandleAuthorizeIntent reaches MarkCompleted.
CompletedWasSent ==
  \A i \in Intents : ResolvedAs(i, "COMPLETED") => sent[i] = 1

\* The sweeper and an authorization never both have the same intent: one that
\* expired has sent nothing, and no request works on it.
ExpiredWasIdle ==
  \A i \in Intents : ResolvedAs(i, "EXPIRED") =>
    /\ sent[i] = 0
    /\ \A r \in Handlers : ~Working(r, i)

\* The dashboard hears one "intent_resolved" for an intent, and hears it when
\* the intent leaves the map: the three resolvers race for every intent.
ResolvedOnce ==
  \A i \in Intents :
    /\ Len(emitted[i]) <= 1
    /\ Resolved(i) <=> refPrice[i] # "unset" /\ ~InMap(i)

\* The agent is told exactly once of every intent that expired or was
\* rejected, by whichever path, and never of one that was completed.
AgentToldOnce ==
  \A i \in Intents :
    told[i] = IF ResolvedAs(i, "REJECTED") \/ ResolvedAs(i, "EXPIRED") THEN 1 ELSE 0

\* The history ring holds the resolutions that were announced, each once, and
\* as many of them as fit: it neither loses one early nor grows past its size.
HistoryRing ==
  LET n == Cardinality({i \in Intents : Resolved(i)}) IN
  /\ Len(history) = IF n < MaxHistory THEN n ELSE MaxHistory
  /\ \A k \in DOMAIN history : ResolvedAs(history[k].intent, history[k].status)
  /\ \A j, k \in DOMAIN history :
       history[j].intent = history[k].intent => j = k

\* On the live port nothing is sent for an intent without a reference price.
LiveNeedsReference ==
  LivePort => \A i \in Intents : sent[i] > 0 => refPrice[i] = "some"

\* An intent nobody authorizes does not wait for ever: the sweeper ends it.
PendingIsResolved ==
  \A i \in Intents : (status[i] = "PENDING") ~> (status[i] # "PENDING")

\* The fate of each intent, as the abstract lifecycle knows it.
phase == [i \in Intents |->
  IF InMap(i) THEN status[i] ELSE IF Resolved(i) THEN emitted[i][1] ELSE "none"]

inFlight == {i \in Intents : \E r \in Handlers : Working(r, i)}

Lifecycle == INSTANCE IntentLifecycle WITH ordered <- sent

\* The handlers, the queue, the sweeper and the gate implement the lifecycle.
LifecycleSpec == Lifecycle!Spec

-----------------------------------------------------------------------------
(* The inductive invariant under AtMostOneOrder, CompletedWasSent,         *)
(* ExpiredWasIdle, ResolvedOnce and AgentToldOnce.                         *)

CreatedInMap == \A i \in Intents : InMap(i) => refPrice[i] # "unset"

\* A request has an intent while it works, and then only.
HoldsWhileWorking == \A r \in Handlers : pc[r] = "idle" <=> job[r] = NoIntent

\* A request works on an intent it claimed, even if a human rejected it since.
HeldIsClaimed ==
  \A r \in Handlers : pc[r] # "idle" => phase[job[r]] \in {"EXECUTING", "REJECTED"}

HeldByOne ==
  \A r, q \in Handlers : pc[r] # "idle" /\ pc[q] # "idle" /\ job[r] = job[q] => r = q

UnclaimedUnsent ==
  \A i \in Intents : phase[i] \in {"none", "PENDING", "EXPIRED"} => sent[i] = 0

CompletedSent == \A i \in Intents : phase[i] = "COMPLETED" => sent[i] = 1

SentByProgress ==
  \A r \in Handlers :
    /\ pc[r] \in {"claimed", "priced", "placing"} => sent[job[r]] = 0
    /\ pc[r] = "placed" => sent[job[r]] = 1

IInv ==
  /\ TypeOK
  /\ ResolvedOnce
  /\ CreatedInMap
  /\ AgentToldOnce
  /\ HoldsWhileWorking
  /\ HeldIsClaimed
  /\ HeldByOne
  /\ UnclaimedUnsent
  /\ SentByProgress
  /\ AtMostOneOrder
  /\ CompletedSent

\* What LiveNeedsReference needs to be inductive: a request that passed the
\* reference check on the live port has an intent with a reference price.
PricedHasReference ==
  LivePort => \A r \in Handlers :
    pc[r] \in {"priced", "placing", "placed"} => refPrice[job[r]] = "some"

-----------------------------------------------------------------------------
(* Stated by the repository, not kept by the code *)

\* RejectIntent finds an intent PENDING (human, TTL) or EXECUTING because its
\* own handler aborted (intent_manager.go:252): so what is recorded and told
\* to the agent as rejected has no order at the broker.
RejectedHasNoOrder ==
  \A i \in Intents : ResolvedAs(i, "REJECTED") => i \notin live

\* The TTL keeps outdated proposals from being executed (PROGRESS.md:181): no
\* intent is claimed once its ExpiresAt has passed.
NeverClaimedOverdue ==
  [][\A i \in Intents :
       status[i] = "PENDING" /\ status'[i] = "EXECUTING" => i \notin overdue]_vars

\* A failed intent is cleaned out of the queue, not leaked as EXECUTING
\* (intent_controller_test.go:271).
ExecutingIsResolved ==
  \A i \in Intents : (status[i] = "EXECUTING") ~> (status[i] # "EXECUTING")

\* The kill-switch is authoritative at execution time
\* (intent_controller_test.go:249): no order is sent while it is off.
KillSwitchAtExecution == [][sent' # sent => CanTrade]_vars

\* When slippage cannot be validated the live port fails closed
\* (intent_controller.go:78): what is sent there was compared with a quote.
LiveOrderWasChecked ==
  LivePort => \A i \in Intents : sent[i] > 0 => i \in checked

=============================================================================
