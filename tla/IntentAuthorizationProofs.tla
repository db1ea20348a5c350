--------------------- MODULE IntentAuthorizationProofs ---------------------
(***************************************************************************)
(* Proofs about IntentAuthorization, for any number of intents and of      *)
(* concurrent authorize requests, any history size and both ports.         *)
(***************************************************************************)
EXTENDS IntentAuthorizationProperties, SequenceTheorems,
        FiniteSetTheorems, TLAPS

-----------------------------------------------------------------------------
(* The gate *)

\* Mode changes, lost connections and the reconnect flows keep the types of the
\* gate's variables.
LEMMA GateType ==
  ASSUME GateTypeOK, GateNext \/ UNCHANGED gateVars
  PROVE  GateTypeOK'
<1>1. CASE UNCHANGED gateVars
  BY <1>1 DEF GateTypeOK, gateVars
<1>2. CASE SwitchMode
  BY <1>2 DEF GateTypeOK, SwitchMode
<1>3. CASE LoseConnection
  BY <1>3 DEF GateTypeOK, LoseConnection
<1>4. ASSUME NEW f \in Flows, FlowStep(f)
      PROVE  GateTypeOK'
  BY <1>4 DEF GateTypeOK, FlowStep, Halt, CloseOld, TearDown, Opened, Reconnected, ReconnectFailed
<1>5. CASE ReconnectPanics
  BY <1>5 DEF GateTypeOK, ReconnectPanics
<1>6. QED
  BY <1>1, <1>2, <1>3, <1>4, <1>5 DEF GateNext

-----------------------------------------------------------------------------
(* The history ring *)

\* What is left of a sequence without its first drop elements.
LEMMA SuffixProperties ==
  ASSUME NEW X, NEW all \in Seq(X), NEW drop \in 0 .. Len(all)
  PROVE  /\ SubSeq(all, drop + 1, Len(all)) \in Seq(X)
         /\ Len(SubSeq(all, drop + 1, Len(all))) = Len(all) - drop
         /\ \A k \in 1 .. Len(all) - drop :
              SubSeq(all, drop + 1, Len(all))[k] = all[k + drop]
<1>1. Len(all) \in Nat
  BY LenProperties
<1>2. SubSeq(all, drop + 1, Len(all)) \in Seq(X)
  BY <1>1
<1>3. Len(SubSeq(all, drop + 1, Len(all))) = Len(all) - drop
  BY <1>1
<1>4. \A k \in 1 .. Len(all) - drop :
        SubSeq(all, drop + 1, Len(all))[k] = all[k + drop]
  BY <1>1
<1>5. QED
  BY <1>2, <1>3, <1>4

\* The sequence p is what is left of h \o s without its d oldest elements.
KeepsNewest(p, h, s) ==
  \E d \in Nat : \A k \in 1 .. Len(p) :
    /\ k + d \in 1 .. Len(h) + Len(s)
    /\ p[k] = IF k + d <= Len(h) THEN h[k + d] ELSE s[k + d - Len(h)]

\* pushHistory never keeps more than MaxHistory entries, and the newest.
LEMMA PushHistoryProperties ==
  ASSUME NEW h \in Seq(HistoryEntry), NEW s \in Seq(HistoryEntry),
         NEW p, p = PushHistory(h, s)
  PROVE  /\ p \in Seq(HistoryEntry)
         /\ Len(p) = IF Len(h) + Len(s) > MaxHistory THEN MaxHistory ELSE Len(h) + Len(s)
         /\ KeepsNewest(p, h, s)
<1> DEFINE all == h \o s
           drop == IF Len(all) > MaxHistory THEN Len(all) - MaxHistory ELSE 0
           ring == SubSeq(all, drop + 1, Len(all))
<1>1. p = ring
  BY DEF PushHistory
<1> HIDE DEF all, drop, ring
<1>2. all \in Seq(HistoryEntry) /\ Len(all) = Len(h) + Len(s)
  BY DEF all
<1>3. \A i \in 1 .. Len(h) + Len(s) :
        all[i] = IF i <= Len(h) THEN h[i] ELSE s[i - Len(h)]
  BY DEF all
<1>4. Len(h) \in Nat /\ Len(s) \in Nat /\ MaxHistory \in Nat \ {0}
  BY LenProperties, MaxHistoryAssumption
<1>5. drop \in 0 .. Len(all)
  BY <1>2, <1>4 DEF drop
<1>6. /\ ring \in Seq(HistoryEntry)
      /\ Len(ring) = IF Len(all) > MaxHistory THEN MaxHistory ELSE Len(all)
      /\ drop \in Nat
      /\ \A k \in 1 .. Len(ring) : k + drop \in 1 .. Len(all) /\ ring[k] = all[k + drop]
  <2>1. /\ ring \in Seq(HistoryEntry)
        /\ Len(ring) = Len(all) - drop
        /\ \A k \in 1 .. Len(all) - drop : ring[k] = all[k + drop]
    BY <1>2, <1>5, SuffixProperties DEF ring
  <2>2. drop = IF Len(all) > MaxHistory THEN Len(all) - MaxHistory ELSE 0
    BY DEF drop
  <2>3. Len(all) \in Nat
    BY <1>2, <1>4
  <2>4. drop \in Nat /\ Len(ring) = IF Len(all) > MaxHistory THEN MaxHistory ELSE Len(all)
    BY <1>4, <2>1, <2>2, <2>3
  <2>5. \A k \in 1 .. Len(all) - drop : k + drop \in 1 .. Len(all)
    BY <2>3, <2>4
  <2>6. QED
    BY <2>1, <2>4, <2>5
<1>7. ASSUME NEW k \in 1 .. Len(ring)
      PROVE  /\ k + drop \in 1 .. Len(h) + Len(s)
             /\ ring[k] = IF k + drop <= Len(h) THEN h[k + drop] ELSE s[k + drop - Len(h)]
  <2>1. k + drop \in 1 .. Len(h) + Len(s) /\ ring[k] = all[k + drop]
    BY <1>2, <1>6
  <2>2. /\ k \in Nat /\ drop \in Nat /\ Len(h) \in Nat
    BY <1>4, <1>6
  <2>3. QED
    BY <1>3, <2>1, <2>2
<1>8. KeepsNewest(ring, h, s)
  <2>1. drop \in Nat
    BY <1>6
  <2>2. QED
    BY <1>7, <2>1 DEF KeepsNewest
<1>9. /\ ring \in Seq(HistoryEntry)
      /\ Len(ring) = IF Len(h) + Len(s) > MaxHistory THEN MaxHistory ELSE Len(h) + Len(s)
  BY <1>2, <1>6
<1>10. QED
  BY <1>1, <1>8, <1>9

-----------------------------------------------------------------------------
(* Type correctness *)

\* Taking an intent out of the queue keeps the types.
LEMMA FinalizeType ==
  ASSUME ManagerTypeOK, NEW i \in Intents, NEW s \in Final, Finalize(i, s)
  PROVE  /\ status' \in [Intents -> Present \union {"ABSENT"}]
         /\ history' \in Seq(HistoryEntry)
         /\ emitted' \in [Intents -> Seq(Final)]
         /\ overdue' \subseteq Intents
<1>1. status' \in [Intents -> Present \union {"ABSENT"}] /\ overdue' \subseteq Intents
  BY DEF ManagerTypeOK, Finalize
<1>2. <<[intent |-> i, status |-> s]>> \in Seq(HistoryEntry)
  BY DEF HistoryEntry
<1>3. history' \in Seq(HistoryEntry)
  BY <1>2, PushHistoryProperties DEF ManagerTypeOK, Finalize
<1>4. emitted' \in [Intents -> Seq(Final)]
  BY DEF ManagerTypeOK, Finalize
<1>5. QED
  BY <1>1, <1>3, <1>4

\* What a sweep pushes: one entry for each intent it expires.
LEMMA ExpirableFinite == IsFiniteSet(Expirable) /\ Cardinality(Expirable) \in Nat
<1>1. Expirable \subseteq Intents
  BY DEF Expirable
<1>2. IsFiniteSet(Expirable)
  BY <1>1, IntentsAssumption, FS_Subset
<1>3. QED
  BY <1>2, FS_CardinalityType

\* What a sweep expires is a sequence of history entries.
LEMMA SweptType ==
  ASSUME NEW v \in Visits(Expirable)
  PROVE  [k \in 1 .. Cardinality(Expirable) |->
            [intent |-> v[k], status |-> "EXPIRED"]] \in Seq(HistoryEntry)
<1>1. v \in [1 .. Cardinality(Expirable) -> Intents]
  BY DEF Visits, Expirable
<1>2. \A k \in 1 .. Cardinality(Expirable) :
        [intent |-> v[k], status |-> "EXPIRED"] \in HistoryEntry
  BY <1>1 DEF HistoryEntry, Final
<1>3. QED
  BY <1>2, ExpirableFinite, IsASeq

\* Each operation of the queue keeps its types.
LEMMA ManagerType ==
  ASSUME ManagerTypeOK,
         \/ UNCHANGED managerVars
         \/ Sweep
         \/ \E i \in Intents :
              \/ CreateIntent(i) \/ PassTTL(i) \/ ClaimForExecution(i)
              \/ MarkCompleted(i) \/ RejectIntent(i)
  PROVE  ManagerTypeOK'
<1>1. CASE UNCHANGED managerVars
  BY <1>1 DEF ManagerTypeOK, managerVars
<1>2. CASE Sweep
  <2>1. history' \in Seq(HistoryEntry)
    <3>1. PICK v \in Visits(Expirable) :
            history' = PushHistory(history,
              [k \in 1 .. Cardinality(Expirable) |->
                 [intent |-> v[k], status |-> "EXPIRED"]])
      BY <1>2 DEF Sweep
    <3>2. QED
      BY <3>1, SweptType, PushHistoryProperties DEF ManagerTypeOK
  <2>2. emitted' \in [Intents -> Seq(Final)]
    BY <1>2 DEF ManagerTypeOK, Sweep, Final
  <2>3. QED
    BY <1>2, <2>1, <2>2 DEF ManagerTypeOK, Sweep
<1>3. ASSUME NEW i \in Intents, CreateIntent(i)
      PROVE  ManagerTypeOK'
  BY <1>3 DEF ManagerTypeOK, CreateIntent, Present
<1>4. ASSUME NEW i \in Intents, PassTTL(i)
      PROVE  ManagerTypeOK'
  BY <1>4 DEF ManagerTypeOK, PassTTL
<1>5. ASSUME NEW i \in Intents, ClaimForExecution(i)
      PROVE  ManagerTypeOK'
  BY <1>5 DEF ManagerTypeOK, ClaimForExecution, Present
<1>6. ASSUME NEW i \in Intents, MarkCompleted(i)
      PROVE  ManagerTypeOK'
  <2>1. CASE ~InMap(i)
    BY <1>6, <2>1 DEF MarkCompleted, ManagerTypeOK, managerVars
  <2>2. CASE InMap(i)
    <3>1. "COMPLETED" \in Final /\ Finalize(i, "COMPLETED") /\ UNCHANGED <<refPrice, told>>
      BY <1>6, <2>2 DEF MarkCompleted, Final
    <3>2. QED
      BY <3>1, FinalizeType DEF ManagerTypeOK
  <2>3. QED
    BY <2>1, <2>2
<1>7. ASSUME NEW i \in Intents, RejectIntent(i)
      PROVE  ManagerTypeOK'
  <2>1. CASE status[i] \notin Present
    BY <1>7, <2>1 DEF RejectIntent, ManagerTypeOK, managerVars
  <2>2. CASE status[i] \in Present
    <3>1. /\ "REJECTED" \in Final
          /\ Finalize(i, "REJECTED")
          /\ told' = [told EXCEPT ![i] = @ + 1]
          /\ UNCHANGED refPrice
      BY <1>7, <2>2 DEF RejectIntent, Final
    <3>2. told' \in [Intents -> Nat]
      BY <3>1 DEF ManagerTypeOK
    <3>3. QED
      BY <3>1, <3>2, FinalizeType DEF ManagerTypeOK
  <2>3. QED
    BY <2>1, <2>2
<1>8. QED
  BY <1>1, <1>2, <1>3, <1>4, <1>5, <1>6, <1>7

\* The variables have their types, with what makes that inductive.
LEMMA TypeInit == Init => TypeOK /\ HoldsWhileWorking
<1> SUFFICES ASSUME Init PROVE TypeOK /\ HoldsWhileWorking
  OBVIOUS
<1>1. GateTypeOK
  BY ModesAssumption DEF Init, GateInit, GateTypeOK
<1>2. ManagerTypeOK
  BY DEF Init, ManagerInit, ManagerTypeOK, Present
<1> QED BY <1>1, <1>2 DEF Init, TypeOK, HoldsWhileWorking

\* The part of the type invariant that belongs to the requests.
HandlerTypeOK ==
  /\ pc \in [Handlers -> {"idle", "claimed", "priced", "placing", "placed", "failed"}]
  /\ job \in [Handlers -> Intents \union {NoIntent}]
  /\ sent \in [Intents -> Nat]
  /\ live \subseteq Intents
  /\ checked \subseteq Intents

\* A step of a request keeps the types, and who holds an intent.
LEMMA HandlerType ==
  ASSUME HandlerTypeOK, HoldsWhileWorking, NEW r \in Handlers, HandlerStep(r)
  PROVE  HandlerTypeOK' /\ HoldsWhileWorking'
<1> USE DEF HandlerTypeOK, HoldsWhileWorking, Goto, Return
<1>1. ASSUME NEW i \in Intents, Claim(r, i)
      PROVE  HandlerTypeOK' /\ HoldsWhileWorking'
  BY <1>1, NoIntentAssumption DEF Claim
<1>2. CASE CheckReference(r)
  BY <1>2 DEF CheckReference
<1>3. CASE CheckSlippage(r)
  BY <1>3 DEF CheckSlippage
<1>4. CASE PassGate(r)
  BY <1>4 DEF PassGate
<1>5. CASE Transmit(r)
  BY <1>5 DEF Transmit
<1>6. CASE FailToTransmit(r)
  BY <1>6 DEF FailToTransmit
<1>7. CASE Panic(r)
  BY <1>7 DEF Panic
<1>8. CASE Complete(r)
  BY <1>8 DEF Complete
<1>9. CASE Abort(r)
  BY <1>9 DEF Abort
<1>10. QED
  BY <1>1, <1>2, <1>3, <1>4, <1>5, <1>6, <1>7, <1>8, <1>9 DEF HandlerStep

\* What a request does to the queue and to the gate.
LEMMA HandlerEffect ==
  ASSUME HandlerTypeOK, HoldsWhileWorking, NEW r \in Handlers, HandlerStep(r)
  PROVE  /\ UNCHANGED gateVars
         /\ \/ UNCHANGED managerVars
            \/ \E i \in Intents : ClaimForExecution(i) \/ MarkCompleted(i) \/ RejectIntent(i)
<1>1. pc[r] # "idle" => job[r] \in Intents
  BY DEF HandlerTypeOK, HoldsWhileWorking
<1>2. QED
  BY <1>1
     DEF HandlerStep, Claim, CheckReference, CheckSlippage, PassGate, Transmit,
         FailToTransmit, Panic, Complete, Abort

\* What every other step does to the queue and to the gate.
LEMMA EnvironmentEffect ==
  ASSUME [Next]_vars
  PROVE  \/ \E r \in Handlers : HandlerStep(r)
         \/ /\ UNCHANGED handlerVars
            /\ \/ UNCHANGED managerVars
               \/ Sweep
               \/ \E i \in Intents :
                    CreateIntent(i) \/ PassTTL(i) \/ (InMap(i) /\ RejectIntent(i))
            /\ GateNext \/ UNCHANGED gateVars
BY DEF Next, vars, Propose, HumanReject, Age, SweepTick, GateStep

\* Every step keeps the types.
LEMMA TypeStep == TypeOK /\ HoldsWhileWorking /\ [Next]_vars => (TypeOK /\ HoldsWhileWorking)'
<1> SUFFICES ASSUME TypeOK, HoldsWhileWorking, [Next]_vars
             PROVE  TypeOK' /\ HoldsWhileWorking'
  OBVIOUS
<1>1. ManagerTypeOK /\ GateTypeOK /\ HandlerTypeOK
  BY DEF TypeOK, HandlerTypeOK
<1>2. ASSUME NEW r \in Handlers, HandlerStep(r)
      PROVE  TypeOK' /\ HoldsWhileWorking'
  <2>1. HandlerTypeOK' /\ HoldsWhileWorking'
    BY <1>1, <1>2, HandlerType
  <2>2. ManagerTypeOK' /\ GateTypeOK'
    BY <1>1, <1>2, HandlerEffect, ManagerType, GateType
  <2>3. QED
    BY <2>1, <2>2 DEF TypeOK, HandlerTypeOK
<1>3. ASSUME UNCHANGED handlerVars,
             \/ UNCHANGED managerVars
             \/ Sweep
             \/ \E i \in Intents : CreateIntent(i) \/ PassTTL(i) \/ (InMap(i) /\ RejectIntent(i)),
             GateNext \/ UNCHANGED gateVars
      PROVE  TypeOK' /\ HoldsWhileWorking'
  <2>1. HandlerTypeOK' /\ HoldsWhileWorking'
    BY <1>1, <1>3 DEF HandlerTypeOK, HoldsWhileWorking, handlerVars
  <2>2. ManagerTypeOK'
    BY <1>1, <1>3, ManagerType
  <2>3. GateTypeOK'
    BY <1>1, <1>3, GateType
  <2>4. QED
    BY <2>1, <2>2, <2>3 DEF TypeOK, HandlerTypeOK
<1>4. QED
  BY <1>2, <1>3, EnvironmentEffect

\* The variables always have their types: whatever the interleaving, no intent
\* gets a status, no request a place and no ring an entry the code has no name for.
THEOREM TypeCorrect == Spec => []TypeOK
<1>1. Init => TypeOK /\ HoldsWhileWorking
  BY TypeInit
<1>2. TypeOK /\ HoldsWhileWorking /\ [Next]_vars => (TypeOK /\ HoldsWhileWorking)'
  BY TypeStep
<1>3. QED
  BY <1>1, <1>2, PTL DEF Spec

-----------------------------------------------------------------------------
(* The inductive invariant *)

\* An intent that leaves the map is announced for the first time.
LEMMA FinalizeEffect ==
  ASSUME ManagerTypeOK, ResolvedOnce, CreatedInMap,
         NEW i \in Intents, InMap(i), NEW s \in Final, Finalize(i, s)
  PROVE  /\ ~Resolved(i)
         /\ status'[i] = "ABSENT"
         /\ Len(emitted'[i]) = 1 /\ Resolved(i)' /\ emitted'[i][1] = s
         /\ \A j \in Intents \ {i} : status'[j] = status[j] /\ emitted'[j] = emitted[j]
<1>1. emitted[i] = <<>>
  BY DEF ResolvedOnce, Resolved, CreatedInMap
<1>2. emitted'[i] = <<s>>
  BY <1>1 DEF Finalize, ManagerTypeOK
<1>3. QED
  BY <1>1, <1>2 DEF Finalize, ManagerTypeOK, Resolved

\* The same for every intent a sweep expires.
LEMMA SweepEffect ==
  ASSUME ManagerTypeOK, ResolvedOnce, CreatedInMap, Sweep
  PROVE  /\ \A i \in Expirable :
              /\ i \in Intents /\ status[i] = "PENDING" /\ ~Resolved(i)
              /\ status'[i] = "ABSENT"
              /\ Len(emitted'[i]) = 1 /\ Resolved(i)' /\ emitted'[i][1] = "EXPIRED"
              /\ told'[i] = told[i] + 1
         /\ \A j \in Intents \ Expirable :
              /\ status'[j] = status[j] /\ emitted'[j] = emitted[j]
              /\ told'[j] = told[j]
<1>1. \A i \in Expirable : i \in Intents /\ status[i] = "PENDING" /\ emitted[i] = <<>>
  BY DEF Expirable, ResolvedOnce, Resolved, CreatedInMap, InMap
<1>2. Append(<<>>, "EXPIRED") = <<"EXPIRED">>
  OBVIOUS
<1>3. \A i \in Intents :
        /\ status'[i] = IF i \in Expirable THEN "ABSENT" ELSE status[i]
        /\ emitted'[i] = IF i \in Expirable THEN Append(emitted[i], "EXPIRED") ELSE emitted[i]
        /\ told'[i] = IF i \in Expirable THEN told[i] + 1 ELSE told[i]
  BY DEF Sweep
<1>4. ASSUME NEW i \in Expirable
      PROVE  Len(emitted'[i]) = 1 /\ Resolved(i)' /\ emitted'[i][1] = "EXPIRED"
  <2>1. emitted'[i] = <<"EXPIRED">>
    BY <1>1, <1>2, <1>3
  <2>2. QED
    BY <2>1 DEF Resolved
<1>5. QED
  BY <1>1, <1>3, <1>4 DEF Resolved

\* The part of IInv that follows from the queue alone.
QueueInv == ManagerTypeOK /\ ResolvedOnce /\ CreatedInMap /\ AgentToldOnce

\* A queue that starts empty has announced nothing.
LEMMA QueueInit == Init => QueueInv
BY DEF Init, ManagerInit, QueueInv, ManagerTypeOK, ResolvedOnce, CreatedInMap,
       AgentToldOnce, Resolved, ResolvedAs, InMap, Present

\* Every operation of the queue announces what it resolves, once.
LEMMA QueueStep ==
  ASSUME QueueInv,
         \/ UNCHANGED managerVars
         \/ Sweep
         \/ \E i \in Intents :
              \/ CreateIntent(i) \/ PassTTL(i) \/ ClaimForExecution(i)
              \/ MarkCompleted(i) \/ RejectIntent(i)
  PROVE  QueueInv'
<1> USE DEF QueueInv
<1>0. ManagerTypeOK'
  BY ManagerType
<1>1. CASE UNCHANGED managerVars
  BY <1>0, <1>1
     DEF managerVars, ResolvedOnce, CreatedInMap, AgentToldOnce, Resolved, ResolvedAs, InMap
<1>2. CASE Sweep
  <2>1. refPrice' = refPrice
    BY <1>2 DEF Sweep
  <2>2. ResolvedOnce'
    <3>1. ASSUME NEW j \in Intents
          PROVE  /\ Len(emitted'[j]) <= 1
                 /\ Resolved(j)' <=> refPrice'[j] # "unset" /\ ~InMap(j)'
      <4>1. CASE j \in Expirable
        <5>1. /\ status'[j] = "ABSENT" /\ emitted'[j] # <<>> /\ Len(emitted'[j]) = 1
              /\ refPrice'[j] # "unset"
          BY <1>2, <2>1, <4>1, SweepEffect DEF CreatedInMap, InMap, Resolved
        <5>2. QED
          BY <5>1 DEF InMap, Resolved
      <4>2. CASE j \notin Expirable
        <5>1. status'[j] = status[j] /\ emitted'[j] = emitted[j]
          BY <1>2, <4>2, SweepEffect
        <5>2. QED
          BY <2>1, <5>1 DEF ResolvedOnce, Resolved, InMap
      <4>3. QED
        BY <4>1, <4>2
    <3>2. QED
      BY <3>1 DEF ResolvedOnce
  <2>3. CreatedInMap'
    BY <1>2, <2>1, SweepEffect DEF CreatedInMap, InMap, Resolved
  <2>4. AgentToldOnce'
    BY <1>2, SweepEffect DEF AgentToldOnce, Resolved, ResolvedAs
  <2>5. QED
    BY <1>0, <2>2, <2>3, <2>4
<1>3. ASSUME NEW i \in Intents, CreateIntent(i)
      PROVE  QueueInv'
  <2>1. /\ emitted' = emitted /\ told' = told
        /\ refPrice[i] = "unset" /\ refPrice'[i] # "unset" /\ status'[i] = "PENDING"
        /\ \A j \in Intents \ {i} : refPrice'[j] = refPrice[j] /\ status'[j] = status[j]
    BY <1>3 DEF CreateIntent, ManagerTypeOK
  <2>2. QED
    BY <1>0, <2>1
       DEF ResolvedOnce, CreatedInMap, AgentToldOnce, Resolved, ResolvedAs, InMap
<1>4. ASSUME NEW i \in Intents, PassTTL(i)
      PROVE  QueueInv'
  BY <1>0, <1>4
     DEF PassTTL, ResolvedOnce, CreatedInMap, AgentToldOnce, Resolved, ResolvedAs, InMap
<1>5. ASSUME NEW i \in Intents, ClaimForExecution(i)
      PROVE  QueueInv'
  BY <1>0, <1>5
     DEF ClaimForExecution, ManagerTypeOK, ResolvedOnce, CreatedInMap, AgentToldOnce,
         Resolved, ResolvedAs, InMap
<1>6. ASSUME NEW i \in Intents, NEW s \in Final, InMap(i), Finalize(i, s),
             refPrice' = refPrice,
             told' = IF s = "COMPLETED" THEN told ELSE [told EXCEPT ![i] = @ + 1]
      PROVE  QueueInv'
  <2>1. ResolvedOnce'
    <3>1. ASSUME NEW j \in Intents
          PROVE  /\ Len(emitted'[j]) <= 1
                 /\ Resolved(j)' <=> refPrice'[j] # "unset" /\ ~InMap(j)'
      <4>1. CASE j = i
        <5>1. /\ status'[i] = "ABSENT" /\ emitted'[i] # <<>> /\ Len(emitted'[i]) = 1
              /\ refPrice'[i] # "unset"
          BY <1>6, FinalizeEffect DEF CreatedInMap, Resolved
        <5>2. QED
          BY <4>1, <5>1 DEF InMap, Resolved
      <4>2. CASE j # i
        <5>1. status'[j] = status[j] /\ emitted'[j] = emitted[j]
          BY <1>6, <4>2, FinalizeEffect
        <5>2. QED
          BY <1>6, <5>1 DEF ResolvedOnce, Resolved, InMap
      <4>3. QED
        BY <4>1, <4>2
    <3>2. QED
      BY <3>1 DEF ResolvedOnce
  <2>2. CreatedInMap'
    BY <1>6, FinalizeEffect DEF CreatedInMap, InMap, Resolved
  <2>3. AgentToldOnce'
    BY <1>6, FinalizeEffect DEF AgentToldOnce, Resolved, ResolvedAs, Final, ManagerTypeOK
  <2>4. QED
    BY <1>0, <2>1, <2>2, <2>3
<1>7. ASSUME NEW i \in Intents, MarkCompleted(i)
      PROVE  QueueInv'
  BY <1>1, <1>6, <1>7 DEF MarkCompleted, Final
<1>8. ASSUME NEW i \in Intents, RejectIntent(i)
      PROVE  QueueInv'
  BY <1>1, <1>6, <1>8 DEF RejectIntent, Final, Present, InMap
<1>9. QED
  BY <1>1, <1>2, <1>3, <1>4, <1>5, <1>7, <1>8

-----------------------------------------------------------------------------
(* The phase of an intent *)

\* What the phase says of the queue.
LEMMA PhaseMeaning ==
  ASSUME QueueInv, NEW i \in Intents
  PROVE  /\ phase[i] \in {"none", "PENDING", "EXECUTING"} \union Final
         /\ phase[i] = "none" <=> refPrice[i] = "unset"
         /\ InMap(i) <=> phase[i] \in Present
         /\ status[i] \in Present => phase[i] = status[i]
         /\ \A s \in Final : ResolvedAs(i, s) <=> phase[i] = s
<1>1. phase[i] = IF InMap(i) THEN status[i] ELSE IF Resolved(i) THEN emitted[i][1] ELSE "none"
  BY DEF phase
<1>2. emitted[i] \in Seq(Final) /\ status[i] \in Present \union {"ABSENT"}
  BY DEF QueueInv, ManagerTypeOK
<1>3. Resolved(i) => emitted[i][1] \in Final
  BY <1>2 DEF Resolved
<1>4. Resolved(i) <=> refPrice[i] # "unset" /\ ~InMap(i)
  BY DEF QueueInv, ResolvedOnce
<1>5. InMap(i) => refPrice[i] # "unset"
  BY DEF QueueInv, CreatedInMap
<1>6. QED
  BY <1>1, <1>2, <1>3, <1>4, <1>5 DEF InMap, Present, Final, ResolvedAs

\* How each operation of the queue moves it.
LEMMA PhaseUnchanged ==
  ASSUME UNCHANGED <<status, emitted>>
  PROVE  phase' = phase
BY DEF phase, InMap, Resolved

\* CreateIntent makes a new intent pending.
LEMMA PhaseCreate ==
  ASSUME QueueInv, NEW i \in Intents, CreateIntent(i)
  PROVE  phase[i] = "none" /\ phase' = [phase EXCEPT ![i] = "PENDING"]
BY DEF QueueInv, ManagerTypeOK, ResolvedOnce, CreatedInMap, CreateIntent, phase, InMap, Resolved

\* ClaimForExecution makes a pending intent executing.
LEMMA PhaseClaim ==
  ASSUME QueueInv, NEW i \in Intents, ClaimForExecution(i)
  PROVE  phase[i] = "PENDING" /\ phase' = [phase EXCEPT ![i] = "EXECUTING"]
BY DEF QueueInv, ManagerTypeOK, ClaimForExecution, phase, InMap, Resolved

\* Finalize gives its intent the announced status for good.
LEMMA PhaseFinalize ==
  ASSUME QueueInv, NEW i \in Intents, NEW s \in Final, InMap(i), Finalize(i, s)
  PROVE  phase[i] \in Present /\ phase' = [phase EXCEPT ![i] = s]
<1>1. phase[i] \in Present
  BY PhaseMeaning
<1>2. /\ status'[i] = "ABSENT" /\ emitted'[i] # <<>> /\ emitted'[i][1] = s
      /\ \A j \in Intents \ {i} : status'[j] = status[j] /\ emitted'[j] = emitted[j]
  BY FinalizeEffect DEF QueueInv, Resolved
<1>3. \A j \in Intents : phase'[j] = IF j = i THEN s ELSE phase[j]
  BY <1>2 DEF phase, InMap, Resolved
<1>4. QED
  BY <1>1, <1>3 DEF phase

\* MarkCompleted completes an executing intent, or finds it gone.
LEMMA PhaseComplete ==
  ASSUME QueueInv, NEW i \in Intents, MarkCompleted(i)
  PROVE  IF phase[i] \in Present THEN phase' = [phase EXCEPT ![i] = "COMPLETED"]
                                 ELSE phase' = phase
<1>1. CASE InMap(i)
  BY <1>1, PhaseFinalize DEF MarkCompleted, Final
<1>2. CASE ~InMap(i)
  BY <1>2, PhaseMeaning, PhaseUnchanged DEF MarkCompleted, managerVars
<1>3. QED
  BY <1>1, <1>2

\* RejectIntent rejects what is still in the queue.
LEMMA PhaseReject ==
  ASSUME QueueInv, NEW i \in Intents, RejectIntent(i)
  PROVE  IF phase[i] \in Present THEN phase' = [phase EXCEPT ![i] = "REJECTED"]
                                 ELSE phase' = phase
<1>1. CASE InMap(i)
  <2>1. status[i] \in Present
    BY <1>1 DEF QueueInv, ManagerTypeOK, InMap
  <2>2. QED
    BY <1>1, <2>1, PhaseFinalize DEF RejectIntent, Final
<1>2. CASE ~InMap(i)
  <2>1. status[i] \notin Present
    BY <1>2 DEF InMap, Present
  <2>2. UNCHANGED <<status, emitted>>
    BY <2>1 DEF RejectIntent, managerVars
  <2>3. QED
    BY <1>2, <2>2, PhaseMeaning, PhaseUnchanged
<1>3. QED
  BY <1>1, <1>2

\* A sweep expires pending intents only.
LEMMA PhaseSweep ==
  ASSUME QueueInv, Sweep
  PROVE  /\ \A i \in Expirable : i \in Intents /\ phase[i] = "PENDING"
         /\ phase' = [i \in Intents |-> IF i \in Expirable THEN "EXPIRED" ELSE phase[i]]
<1>1. \A i \in Expirable : i \in Intents /\ phase[i] = "PENDING"
  BY PhaseMeaning DEF Expirable, Present
<1>2. \A i \in Expirable :
        status'[i] = "ABSENT" /\ emitted'[i] # <<>> /\ emitted'[i][1] = "EXPIRED"
  BY SweepEffect DEF QueueInv, Resolved
<1>3. \A j \in Intents \ Expirable : status'[j] = status[j] /\ emitted'[j] = emitted[j]
  BY SweepEffect DEF QueueInv
<1>4. \A j \in Intents : phase'[j] = IF j \in Expirable THEN "EXPIRED" ELSE phase[j]
  BY <1>2, <1>3 DEF phase, InMap, Resolved
<1>5. QED
  BY <1>1, <1>4 DEF phase

-----------------------------------------------------------------------------
(* The requests *)

\* The part of IInv that relates the requests to the queue.
RequestInv ==
  /\ HandlerTypeOK
  /\ HoldsWhileWorking
  /\ HeldIsClaimed
  /\ HeldByOne
  /\ UnclaimedUnsent
  /\ SentByProgress
  /\ AtMostOneOrder
  /\ CompletedSent

\* The invariant in the parts that steps of different actors change.
LEMMA IInvParts == IInv <=> QueueInv /\ GateTypeOK /\ RequestInv
BY DEF IInv, QueueInv, RequestInv, TypeOK, HandlerTypeOK

\* A request at work holds an intent.
LEMMA JobIsIntent ==
  ASSUME RequestInv, NEW r \in Handlers, pc[r] # "idle"
  PROVE  job[r] \in Intents
BY DEF RequestInv, HandlerTypeOK, HoldsWhileWorking

\* No request works at the start.
LEMMA RequestInit == Init => RequestInv
<1> SUFFICES ASSUME Init
             PROVE  RequestInv
  OBVIOUS
<1>1. TypeOK /\ HoldsWhileWorking
  BY TypeInit
<1>2. \A i \in Intents : phase[i] = "none"
  BY DEF Init, ManagerInit, phase, InMap, Resolved
<1>3. QED
  BY <1>1, <1>2
     DEF Init, RequestInv, TypeOK, HandlerTypeOK, HeldIsClaimed, HeldByOne, UnclaimedUnsent,
         SentByProgress, AtMostOneOrder, CompletedSent

\* A request that goes on with its intent, or gives it up, sending nothing.
LEMMA RequestMoves ==
  ASSUME RequestInv, NEW r \in Handlers, pc[r] # "idle",
         HandlerTypeOK', HoldsWhileWorking',
         \/ /\ UNCHANGED job
            /\ \/ Goto(r, "failed")
               \/ pc[r] \in {"claimed", "priced"} /\ (Goto(r, "priced") \/ Goto(r, "placing"))
         \/ Return(r),
         phase' = phase, sent' = sent
  PROVE  RequestInv'
<1> USE DEF RequestInv, HandlerTypeOK
<1>1. /\ \A q \in Handlers \ {r} : pc'[q] = pc[q] /\ job'[q] = job[q]
      /\ pc'[r] # "idle" => job'[r] = job[r]
      /\ \/ pc'[r] \in {"idle", "failed"}
         \/ pc[r] \in {"claimed", "priced"} /\ pc'[r] \in {"priced", "placing"}
  BY DEF Goto, Return
<1>2. HeldIsClaimed' /\ HeldByOne'
  BY <1>1 DEF HeldIsClaimed, HeldByOne
<1>3. SentByProgress'
  BY <1>1 DEF SentByProgress
<1>4. UnclaimedUnsent' /\ AtMostOneOrder' /\ CompletedSent'
  BY DEF UnclaimedUnsent, AtMostOneOrder, CompletedSent
<1>5. QED
  BY <1>2, <1>3, <1>4

\* A step of a request keeps what relates claims, phases and orders.
LEMMA RequestStep ==
  ASSUME IInv, NEW r \in Handlers, HandlerStep(r)
  PROVE  RequestInv'
<1>1. QueueInv /\ RequestInv /\ HandlerTypeOK /\ HoldsWhileWorking
  BY IInvParts DEF RequestInv
<1>2. HandlerTypeOK' /\ HoldsWhileWorking'
  BY <1>1, HandlerType
<1>3. ASSUME NEW i \in Intents, Claim(r, i)
      PROVE  RequestInv'
  <2>1. /\ phase[i] = "PENDING" /\ phase' = [phase EXCEPT ![i] = "EXECUTING"]
        /\ pc' = [pc EXCEPT ![r] = "claimed"] /\ job' = [job EXCEPT ![r] = i]
        /\ sent' = sent
    BY <1>1, <1>3, PhaseClaim DEF Claim, Goto
  <2>2. \A q \in Handlers : pc[q] # "idle" => job[q] # i
    BY <1>1, <2>1 DEF RequestInv, HeldIsClaimed
  <2>3. sent[i] = 0
    BY <1>1, <2>1 DEF RequestInv, UnclaimedUnsent
  <2>4. /\ pc'[r] = "claimed" /\ job'[r] = i /\ phase'[i] = "EXECUTING"
        /\ \A q \in Handlers \ {r} : pc'[q] = pc[q] /\ job'[q] = job[q]
        /\ \A j \in Intents \ {i} : phase'[j] = phase[j]
    BY <1>1, <2>1 DEF RequestInv, HandlerTypeOK, phase
  <2>5. HeldIsClaimed'
    BY <1>1, <2>2, <2>4, JobIsIntent DEF RequestInv, HeldIsClaimed
  <2>6. HeldByOne'
    BY <1>1, <2>2, <2>4 DEF RequestInv, HeldByOne
  <2>7. SentByProgress'
    BY <1>1, <2>1, <2>3, <2>4 DEF RequestInv, SentByProgress
  <2>8. UnclaimedUnsent' /\ AtMostOneOrder' /\ CompletedSent'
    BY <1>1, <2>1, <2>4 DEF RequestInv, UnclaimedUnsent, AtMostOneOrder, CompletedSent
  <2>9. QED
    BY <1>2, <2>5, <2>6, <2>7, <2>8 DEF RequestInv
<1>4. CASE CheckReference(r) \/ CheckSlippage(r) \/ PassGate(r) \/ FailToTransmit(r) \/ Panic(r)
  <2>1. phase' = phase
    BY <1>4, PhaseUnchanged
       DEF CheckReference, CheckSlippage, PassGate, FailToTransmit, Panic, managerVars
  <2>2. QED
    BY <1>1, <1>2, <1>4, <2>1, RequestMoves
       DEF CheckReference, CheckSlippage, PassGate, FailToTransmit, Panic
<1>5. CASE Transmit(r)
  <2> DEFINE i == job[r]
  <2>1. i \in Intents /\ sent[i] = 0 /\ phase[i] \in {"EXECUTING", "REJECTED"}
    BY <1>1, <1>5, JobIsIntent DEF Transmit, RequestInv, SentByProgress, HeldIsClaimed
  <2>2. /\ phase' = phase /\ job' = job
        /\ sent'[i] = 1 /\ \A j \in Intents \ {i} : sent'[j] = sent[j]
        /\ pc'[r] \in {"placed", "failed"} /\ \A q \in Handlers \ {r} : pc'[q] = pc[q]
    BY <1>1, <1>5, <2>1, PhaseUnchanged DEF Transmit, Goto, RequestInv, HandlerTypeOK, managerVars
  <2>3. \A q \in Handlers \ {r} : pc[q] # "idle" => job[q] \in Intents \ {i}
    BY <1>1, <1>5, JobIsIntent DEF RequestInv, HeldByOne, Transmit
  <2> HIDE DEF i
  <2>4. HeldIsClaimed' /\ HeldByOne'
    BY <1>1, <1>5, <2>2 DEF RequestInv, HeldIsClaimed, HeldByOne, Transmit
  <2>5. SentByProgress'
    <3>1. ASSUME NEW q \in Handlers \ {r}, pc[q] \in {"claimed", "priced", "placing", "placed"}
          PROVE  sent'[job[q]] = sent[job[q]]
      BY <2>2, <2>3, <3>1
    <3>2. pc'[r] = "placed" => sent'[job[r]] = 1
      BY <2>2 DEF i
    <3>3. QED
      BY <1>1, <2>2, <3>1, <3>2 DEF RequestInv, SentByProgress
  <2>6. UnclaimedUnsent' /\ AtMostOneOrder' /\ CompletedSent'
    BY <1>1, <2>1, <2>2 DEF RequestInv, UnclaimedUnsent, AtMostOneOrder, CompletedSent
  <2>7. QED
    BY <1>2, <2>4, <2>5, <2>6 DEF RequestInv
<1>6. CASE Complete(r) \/ Abort(r)
  <2> DEFINE i == job[r]
  <2>1. i \in Intents /\ (pc[r] = "placed" => sent[i] = 1) /\ pc[r] # "idle"
    BY <1>1, <1>6, JobIsIntent DEF Complete, Abort, RequestInv, SentByProgress
  <2>2. /\ pc'[r] = "idle" /\ sent' = sent
        /\ \A q \in Handlers \ {r} : pc'[q] = pc[q] /\ job'[q] = job[q]
    BY <1>1, <1>6 DEF Complete, Abort, Return, Goto, RequestInv, HandlerTypeOK
  <2>3. /\ \A j \in Intents \ {i} : phase'[j] = phase[j]
        /\ \/ phase'[i] \in {phase[i], "REJECTED"}
           \/ phase'[i] = "COMPLETED" /\ sent[i] = 1
    BY <1>1, <1>6, <2>1, PhaseComplete, PhaseReject DEF Complete, Abort, phase
  <2>4. \A q \in Handlers \ {r} : pc[q] # "idle" => job[q] \in Intents \ {i}
    BY <1>1, <2>1, JobIsIntent DEF RequestInv, HeldByOne
  <2> HIDE DEF i
  <2>5. HeldIsClaimed' /\ HeldByOne'
    BY <1>1, <2>2, <2>3, <2>4 DEF RequestInv, HeldIsClaimed, HeldByOne
  <2>6. SentByProgress'
    BY <1>1, <2>2, <2>4 DEF RequestInv, SentByProgress
  <2>7. UnclaimedUnsent' /\ AtMostOneOrder' /\ CompletedSent'
    BY <1>1, <2>1, <2>2, <2>3 DEF RequestInv, UnclaimedUnsent, AtMostOneOrder, CompletedSent
  <2>8. QED
    BY <1>2, <2>5, <2>6, <2>7 DEF RequestInv
<1>7. QED
  BY <1>3, <1>4, <1>5, <1>6 DEF HandlerStep

\* A step of the queue that no request takes: it leaves alone what is claimed,
\* except that a human may reject it.
LEMMA QueueStepKeepsRequests ==
  ASSUME IInv, UNCHANGED handlerVars,
         \/ UNCHANGED managerVars
         \/ Sweep
         \/ \E i \in Intents : CreateIntent(i) \/ PassTTL(i) \/ (InMap(i) /\ RejectIntent(i))
  PROVE  RequestInv'
<1>1. QueueInv /\ RequestInv
  BY IInvParts
<1>2. /\ pc' = pc /\ job' = job /\ sent' = sent
      /\ HandlerTypeOK' /\ HoldsWhileWorking' /\ HeldByOne' /\ SentByProgress' /\ AtMostOneOrder'
  BY <1>1
     DEF handlerVars, RequestInv, HandlerTypeOK, HoldsWhileWorking, HeldByOne,
         SentByProgress, AtMostOneOrder
<1>3. \A i \in Intents :
        \/ phase'[i] = phase[i]
        \/ phase[i] = "none" /\ phase'[i] = "PENDING"
        \/ phase[i] = "PENDING" /\ phase'[i] = "EXPIRED"
        \/ phase[i] \in Present /\ phase'[i] = "REJECTED"
  <2>1. CASE UNCHANGED managerVars
    BY <2>1, PhaseUnchanged DEF managerVars
  <2>2. CASE Sweep
    BY <1>1, <2>2, PhaseSweep
  <2>3. ASSUME NEW i \in Intents, CreateIntent(i)
        PROVE  phase[i] = "none" /\ phase' = [phase EXCEPT ![i] = "PENDING"]
    BY <1>1, <2>3, PhaseCreate
  <2>4. ASSUME NEW i \in Intents, PassTTL(i)
        PROVE  phase' = phase
    BY <2>4, PhaseUnchanged DEF PassTTL
  <2>5. ASSUME NEW i \in Intents, RejectIntent(i)
        PROVE  \/ phase' = phase
               \/ phase[i] \in Present /\ phase' = [phase EXCEPT ![i] = "REJECTED"]
    BY <1>1, <2>5, PhaseReject
  <2>6. QED
    BY <2>1, <2>2, <2>3, <2>4, <2>5 DEF phase
<1>4. HeldIsClaimed'
  BY <1>1, <1>2, <1>3, JobIsIntent DEF RequestInv, HeldIsClaimed
<1>5. UnclaimedUnsent'
  BY <1>1, <1>2, <1>3 DEF RequestInv, UnclaimedUnsent, Present
<1>6. CompletedSent'
  BY <1>1, <1>2, <1>3 DEF RequestInv, CompletedSent
<1>7. QED
  BY <1>2, <1>4, <1>5, <1>6 DEF RequestInv

-----------------------------------------------------------------------------
(* The theorems *)

\* The invariant holds at the start.
LEMMA IInvInit == Init => IInv
BY QueueInit, TypeInit, RequestInit, IInvParts DEF TypeOK

\* Every step keeps the invariant.
LEMMA IInvStep == IInv /\ [Next]_vars => IInv'
<1> SUFFICES ASSUME IInv, [Next]_vars
             PROVE  QueueInv' /\ GateTypeOK' /\ RequestInv'
  BY DEF IInv, QueueInv, RequestInv, TypeOK, HandlerTypeOK
<1>1. QueueInv /\ GateTypeOK /\ RequestInv /\ HandlerTypeOK /\ HoldsWhileWorking
  BY IInvParts DEF RequestInv
<1>2. ASSUME NEW r \in Handlers, HandlerStep(r)
      PROVE  QueueInv' /\ GateTypeOK' /\ RequestInv'
  <2>1. QueueInv' /\ GateTypeOK'
    BY <1>1, <1>2, HandlerEffect, QueueStep, GateType
  <2>2. QED
    BY <1>2, <2>1, RequestStep
<1>3. ASSUME UNCHANGED handlerVars,
             \/ UNCHANGED managerVars
             \/ Sweep
             \/ \E i \in Intents : CreateIntent(i) \/ PassTTL(i) \/ (InMap(i) /\ RejectIntent(i)),
             GateNext \/ UNCHANGED gateVars
      PROVE  QueueInv' /\ GateTypeOK' /\ RequestInv'
  <2>1. QueueInv'
    BY <1>1, <1>3, QueueStep
  <2>2. GateTypeOK'
    BY <1>1, <1>3, GateType
  <2>3. QED
    BY <1>3, <2>1, <2>2, QueueStepKeepsRequests
<1>4. QED
  BY <1>2, <1>3, EnvironmentEffect

\* IInv is inductive: the claim is exclusive, what is claimed is executing or
\* was rejected by a human, and what is sent follows the progress of the one
\* request that holds it.
THEOREM InductiveInvariant == Spec => []IInv
BY IInvInit, IInvStep, PTL DEF Spec

\* An intent never sends a second order, with any number of requests at once.
THEOREM OneOrder == Spec => []AtMostOneOrder
<1>1. IInv => AtMostOneOrder
  BY DEF IInv
<1>2. QED
  BY <1>1, InductiveInvariant, PTL

\* What is completed was transmitted.
THEOREM CompletedIsSent == Spec => []CompletedWasSent
<1>1. IInv => CompletedWasSent
  <2>1. ASSUME IInv, NEW i \in Intents, ResolvedAs(i, "COMPLETED")
        PROVE  sent[i] = 1
    <3>1. phase[i] = "COMPLETED"
      BY <2>1, IInvParts, PhaseMeaning DEF Final
    <3>2. QED
      BY <2>1, <3>1 DEF IInv, CompletedSent
  <2>2. QED
    BY <2>1 DEF CompletedWasSent
<1>2. QED
  BY <1>1, InductiveInvariant, PTL

\* What expired has sent nothing and nobody works on it.
THEOREM ExpiredIsIdle == Spec => []ExpiredWasIdle
<1>1. IInv => ExpiredWasIdle
  <2>1. ASSUME IInv, NEW i \in Intents, ResolvedAs(i, "EXPIRED")
        PROVE  sent[i] = 0 /\ \A r \in Handlers : ~Working(r, i)
    <3>1. phase[i] = "EXPIRED"
      BY <2>1, IInvParts, PhaseMeaning DEF Final
    <3>2. QED
      BY <2>1, <3>1 DEF IInv, UnclaimedUnsent, HeldIsClaimed, Working
  <2>2. QED
    BY <2>1 DEF ExpiredWasIdle
<1>2. QED
  BY <1>1, InductiveInvariant, PTL

\* Every intent is resolved once, when it leaves the map.
THEOREM OneResolution == Spec => []ResolvedOnce
<1>1. IInv => ResolvedOnce
  BY DEF IInv
<1>2. QED
  BY <1>1, InductiveInvariant, PTL

\* The agent hears once of each rejection and expiry, and of nothing else.
THEOREM OneFeedback == Spec => []AgentToldOnce
<1>1. IInv => AgentToldOnce
  BY DEF IInv
<1>2. QED
  BY <1>1, InductiveInvariant, PTL

\* A reference price, once captured, stays.
LEMMA ReferenceStays ==
  ASSUME ManagerTypeOK,
         \/ UNCHANGED managerVars
         \/ Sweep
         \/ \E i \in Intents :
              \/ CreateIntent(i) \/ PassTTL(i) \/ ClaimForExecution(i)
              \/ MarkCompleted(i) \/ RejectIntent(i)
  PROVE  \A i \in Intents : refPrice[i] = "some" => refPrice'[i] = "some"
BY DEF ManagerTypeOK, managerVars, Sweep, CreateIntent, PassTTL, ClaimForExecution,
       MarkCompleted, RejectIntent

\* On the live port nothing is sent without a reference price.
THEOREM LiveReference == Spec => []LiveNeedsReference
<1>1. Init => IInv /\ PricedHasReference /\ LiveNeedsReference
  BY IInvInit DEF Init, PricedHasReference, LiveNeedsReference
<1>2. /\ IInv /\ PricedHasReference /\ LiveNeedsReference /\ [Next]_vars
      => PricedHasReference' /\ LiveNeedsReference'
  <2> SUFFICES ASSUME IInv, PricedHasReference, LiveNeedsReference, [Next]_vars, LivePort
               PROVE  /\ \A r \in Handlers : pc'[r] \in {"priced", "placing", "placed"} =>
                           refPrice'[job'[r]] = "some"
                      /\ \A i \in Intents : sent'[i] > 0 => refPrice'[i] = "some"
    BY DEF PricedHasReference, LiveNeedsReference
  <2>1. /\ HandlerTypeOK /\ HoldsWhileWorking /\ ManagerTypeOK
        /\ \A r \in Handlers : pc[r] # "idle" => job[r] \in Intents
    BY IInvParts, JobIsIntent DEF RequestInv, QueueInv
  <2>2. \A i \in Intents : refPrice[i] = "some" => refPrice'[i] = "some"
    BY <2>1, EnvironmentEffect, HandlerEffect, ReferenceStays
  <2>3. /\ \A r \in Handlers : pc[r] \in {"priced", "placing", "placed"} =>
             refPrice[job[r]] = "some"
        /\ \A i \in Intents : sent[i] > 0 => refPrice[i] = "some"
    BY DEF PricedHasReference, LiveNeedsReference
  <2>4. CASE UNCHANGED handlerVars
    BY <2>1, <2>2, <2>3, <2>4 DEF handlerVars
  <2>5. ASSUME NEW r \in Handlers, HandlerStep(r)
        PROVE  /\ \A q \in Handlers \ {r} : pc'[q] = pc[q] /\ job'[q] = job[q]
               /\ pc'[r] \in {"priced", "placing", "placed"} =>
                    job'[r] = job[r] /\ job[r] \in Intents /\ refPrice[job[r]] = "some"
               /\ \A i \in Intents : sent'[i] = sent[i] \/ refPrice[i] = "some"
    BY <2>1, <2>3, <2>5
       DEF HandlerStep, Claim, CheckReference, CheckSlippage, PassGate, Transmit,
           FailToTransmit, Panic, Complete, Abort, Goto, Return, HandlerTypeOK
  <2>6. ASSUME NEW r \in Handlers, HandlerStep(r)
        PROVE  /\ \A q \in Handlers : pc'[q] \in {"priced", "placing", "placed"} =>
                    refPrice'[job'[q]] = "some"
               /\ \A i \in Intents : sent'[i] > 0 => refPrice'[i] = "some"
    BY <2>1, <2>2, <2>3, <2>5, <2>6
  <2>7. QED
    BY <2>4, <2>6, EnvironmentEffect
<1>3. QED
  BY <1>1, <1>2, InductiveInvariant, PTL DEF Spec

-----------------------------------------------------------------------------
(* The history ring holds what was resolved *)

\* What a sequence of entries may be: entries for intents of D only, each
\* intent once, as many as fit, taken from two others, as announced in e.
For(s, D) == \A k \in 1 .. Len(s) : s[k].intent \in D
EachOnce(s) == \A j, k \in 1 .. Len(s) : s[j].intent = s[k].intent => j = k
Fits(s, D) ==
  Len(s) = IF Cardinality(D) < MaxHistory THEN Cardinality(D) ELSE MaxHistory
TakenFrom(p, h, s) ==
  \A k \in 1 .. Len(p) :
    (\E j \in 1 .. Len(h) : p[k] = h[j]) \/ (\E j \in 1 .. Len(s) : p[k] = s[j])
Announced(s, e) == \A k \in 1 .. Len(s) : e[s[k].intent][1] = s[k].status

\* What a push of entries for the intents D does to a ring for the intents R.
LEMMA RingPush ==
  ASSUME NEW R \in SUBSET Intents, NEW D \in SUBSET Intents, R \cap D = {},
         NEW h \in Seq(HistoryEntry), Fits(h, R), For(h, R), EachOnce(h),
         NEW s \in Seq(HistoryEntry), Len(s) = Cardinality(D), For(s, D), EachOnce(s),
         NEW p, p = PushHistory(h, s)
  PROVE  Fits(p, R \union D) /\ TakenFrom(p, h, s) /\ EachOnce(p)
<1>1. /\ Cardinality(R \union D) = Cardinality(R) + Cardinality(D)
      /\ Cardinality(R) \in Nat /\ Cardinality(D) \in Nat
  <2>1. IsFiniteSet(R) /\ IsFiniteSet(D)
    BY IntentsAssumption, FS_Subset
  <2>2. Cardinality(R) \in Nat /\ Cardinality(D) \in Nat
    BY <2>1, FS_CardinalityType
  <2>3. Cardinality(R \union D) = Cardinality(R) + Cardinality(D) - Cardinality(R \cap D)
    BY <2>1, FS_Union
  <2>4. Cardinality(R \cap D) = 0
    BY FS_EmptySet
  <2>5. QED
    BY <2>2, <2>3, <2>4
<1>2. Len(h) \in Nat /\ Len(s) \in Nat /\ MaxHistory \in Nat
  BY LenProperties, MaxHistoryAssumption
<1>3. /\ p \in Seq(HistoryEntry)
      /\ Len(p) = IF Len(h) + Len(s) > MaxHistory THEN MaxHistory ELSE Len(h) + Len(s)
  BY PushHistoryProperties
<1>4. PICK d \in Nat : \A k \in 1 .. Len(p) :
        /\ k + d \in 1 .. Len(h) + Len(s)
        /\ p[k] = IF k + d <= Len(h) THEN h[k + d] ELSE s[k + d - Len(h)]
  <2>1. KeepsNewest(p, h, s)
    BY PushHistoryProperties
  <2>2. QED
    BY <2>1 DEF KeepsNewest
<1>5. Fits(p, R \union D)
  BY <1>1, <1>2, <1>3 DEF Fits
<1>6. Len(p) \in Nat
  BY <1>3, LenProperties
<1>7. ASSUME NEW k \in 1 .. Len(p)
      PROVE  \/ /\ k + d \in 1 .. Len(h)
                /\ p[k] = h[k + d]
             \/ /\ k + d - Len(h) \in 1 .. Len(s)
                /\ p[k] = s[k + d - Len(h)]
  <2>1. /\ k + d \in 1 .. Len(h) + Len(s)
        /\ p[k] = IF k + d <= Len(h) THEN h[k + d] ELSE s[k + d - Len(h)]
    BY <1>4
  <2>2. CASE k + d <= Len(h)
    BY <1>2, <2>1, <2>2
  <2>3. CASE ~(k + d <= Len(h))
    <3>1. k + d - Len(h) \in 1 .. Len(s)
      BY <1>2, <1>6, <2>1, <2>3
    <3>2. QED
      BY <2>1, <2>3, <3>1
  <2>4. QED
    BY <2>2, <2>3
<1>8. ASSUME NEW j \in 1 .. Len(p), NEW k \in 1 .. Len(p), p[j].intent = p[k].intent
      PROVE  j = k
  <2>1. CASE j + d \in 1 .. Len(h) /\ p[j] = h[j + d]
    <3>1. p[j].intent \in R
      BY <2>1 DEF For
    <3>2. k + d \in 1 .. Len(h) /\ p[k] = h[k + d]
      BY <1>7, <1>8, <3>1 DEF For
    <3>3. j + d = k + d
      BY <1>8, <2>1, <3>2 DEF EachOnce
    <3>4. QED
      BY <1>6, <3>3
  <2>2. CASE j + d - Len(h) \in 1 .. Len(s) /\ p[j] = s[j + d - Len(h)]
    <3>1. p[j].intent \in D
      BY <2>2 DEF For
    <3>2. k + d - Len(h) \in 1 .. Len(s) /\ p[k] = s[k + d - Len(h)]
      BY <1>7, <1>8, <3>1 DEF For
    <3>3. j + d - Len(h) = k + d - Len(h)
      BY <1>8, <2>2, <3>2 DEF EachOnce
    <3>4. QED
      BY <1>2, <1>6, <3>3
  <2>3. QED
    BY <1>7, <2>1, <2>2
<1>9. TakenFrom(p, h, s)
  BY <1>7 DEF TakenFrom
<1>10. QED
  BY <1>5, <1>8, <1>9 DEF EachOnce

resolved == {i \in Intents : Resolved(i)}

\* When the intents D are resolved and their entries s pushed, the ring is right.
LEMMA RingResolves ==
  ASSUME HistoryRing, QueueInv, NEW D \in SUBSET Intents,
         NEW s \in Seq(HistoryEntry), history' = PushHistory(history, s),
         Len(s) = Cardinality(D), For(s, D), EachOnce(s), Announced(s, emitted'),
         \A i \in D : emitted[i] = <<>> /\ emitted'[i] # <<>>,
         \A i \in Intents \ D : emitted'[i] = emitted[i]
  PROVE  HistoryRing'
<1>1. history \in Seq(HistoryEntry) /\ DOMAIN history = 1 .. Len(history)
  BY LenProperties DEF QueueInv, ManagerTypeOK
<1>2. \A k \in 1 .. Len(history) :
        /\ history[k].intent \in resolved
        /\ emitted[history[k].intent][1] = history[k].status
  <2>1. \A k \in 1 .. Len(history) : history[k].intent \in Intents
    <3>1. \A k \in 1 .. Len(history) : history[k] \in HistoryEntry
      BY <1>1, ElementOfSeq
    <3>2. \A e \in HistoryEntry : e.intent \in Intents
      BY DEF HistoryEntry
    <3>3. QED
      BY <3>1, <3>2
  <2>2. \A k \in 1 .. Len(history) : ResolvedAs(history[k].intent, history[k].status)
    BY <1>1 DEF HistoryRing
  <2>3. QED
    BY <2>1, <2>2 DEF resolved, ResolvedAs
<1>3. Fits(history, resolved) /\ For(history, resolved) /\ EachOnce(history)
  BY <1>1, <1>2 DEF HistoryRing, resolved, Fits, For, EachOnce
<1>4. /\ resolved \in SUBSET Intents /\ resolved \cap D = {}
      /\ {i \in Intents : emitted'[i] # <<>>} = resolved \union D
  BY DEF resolved, Resolved
<1>5. history' \in Seq(HistoryEntry) /\ DOMAIN history' = 1 .. Len(history')
  BY <1>1, PushHistoryProperties, LenProperties
<1>6. Fits(history', resolved \union D) /\ TakenFrom(history', history, s) /\ EachOnce(history')
  BY <1>1, <1>3, <1>4, RingPush
<1>7. \A k \in 1 .. Len(history') :
        /\ emitted'[history'[k].intent] # <<>>
        /\ emitted'[history'[k].intent][1] = history'[k].status
  <2>1. ASSUME NEW e, e.intent \in resolved, emitted[e.intent][1] = e.status
        PROVE  emitted'[e.intent] # <<>> /\ emitted'[e.intent][1] = e.status
    BY <1>4, <2>1 DEF resolved, Resolved
  <2>2. \A j \in 1 .. Len(s) :
          emitted'[s[j].intent] # <<>> /\ emitted'[s[j].intent][1] = s[j].status
    BY DEF For, Announced
  <2>3. QED
    BY <1>2, <1>6, <2>1, <2>2 DEF TakenFrom
<1>8. QED
  BY <1>4, <1>5, <1>6, <1>7 DEF HistoryRing, Fits, EachOnce, ResolvedAs, Resolved

\* Every operation of the queue keeps the ring in step with the announcements.
LEMMA RingStep ==
  ASSUME HistoryRing, QueueInv,
         \/ UNCHANGED managerVars
         \/ Sweep
         \/ \E i \in Intents :
              \/ CreateIntent(i) \/ PassTTL(i) \/ ClaimForExecution(i)
              \/ MarkCompleted(i) \/ RejectIntent(i)
  PROVE  HistoryRing'
<1>1. CASE UNCHANGED <<history, emitted>>
  BY <1>1 DEF HistoryRing, ResolvedAs, Resolved
<1>2. CASE Sweep
  <2>1. PICK v \in Visits(Expirable) :
          history' = PushHistory(history,
            [k \in 1 .. Cardinality(Expirable) |->
               [intent |-> v[k], status |-> "EXPIRED"]])
    BY <1>2 DEF Sweep
  <2> DEFINE s == [k \in 1 .. Cardinality(Expirable) |->
                     [intent |-> v[k], status |-> "EXPIRED"]]
  <2>2. s \in Seq(HistoryEntry) /\ Len(s) = Cardinality(Expirable)
    BY SweptType, ExpirableFinite
  <2>3. \A k \in 1 .. Cardinality(Expirable) :
          s[k].intent = v[k] /\ s[k].status = "EXPIRED" /\ v[k] \in Expirable
    BY DEF Visits
  <2>4. \A j, k \in 1 .. Cardinality(Expirable) : v[j] = v[k] => j = k
    BY DEF Visits
  <2>5. /\ \A i \in Expirable : emitted[i] = <<>> /\ emitted'[i] # <<>>
                                /\ emitted'[i][1] = "EXPIRED"
        /\ \A i \in Intents \ Expirable : emitted'[i] = emitted[i]
    BY <1>2, SweepEffect DEF QueueInv, Resolved
  <2>6. Expirable \in SUBSET Intents /\ history' = PushHistory(history, s)
    BY <2>1 DEF Expirable
  <2> HIDE DEF s
  <2>7. For(s, Expirable) /\ EachOnce(s) /\ Announced(s, emitted')
    BY <2>2, <2>3, <2>4, <2>5 DEF For, EachOnce, Announced
  <2>8. QED
    BY <2>2, <2>5, <2>6, <2>7, RingResolves
<1>3. ASSUME NEW i \in Intents, NEW t \in Final, InMap(i), Finalize(i, t)
      PROVE  HistoryRing'
  <2> DEFINE s == <<[intent |-> i, status |-> t]>>
  <2>1. /\ s \in Seq(HistoryEntry) /\ Len(s) = 1
        /\ s[1].intent = i /\ s[1].status = t
    BY DEF HistoryEntry
  <2>2. Cardinality({i}) = 1 /\ {i} \in SUBSET Intents
    BY FS_Singleton
  <2>3. /\ emitted[i] = <<>> /\ emitted'[i] # <<>> /\ emitted'[i][1] = t
        /\ \A j \in Intents \ {i} : emitted'[j] = emitted[j]
    BY <1>3, FinalizeEffect DEF QueueInv, Resolved
  <2>4. history' = PushHistory(history, s)
    BY <1>3 DEF Finalize
  <2> HIDE DEF s
  <2>5. For(s, {i}) /\ EachOnce(s) /\ Announced(s, emitted')
    BY <2>1, <2>3 DEF For, EachOnce, Announced
  <2>6. QED
    BY <2>1, <2>2, <2>3, <2>4, <2>5, RingResolves
<1>4. ASSUME NEW i \in Intents, MarkCompleted(i)
      PROVE  HistoryRing'
  BY <1>1, <1>3, <1>4 DEF MarkCompleted, Final, managerVars
<1>5. ASSUME NEW i \in Intents, RejectIntent(i)
      PROVE  HistoryRing'
  BY <1>1, <1>3, <1>5 DEF RejectIntent, Final, Present, InMap, managerVars
<1>6. QED
  BY <1>1, <1>2, <1>4, <1>5 DEF managerVars, CreateIntent, PassTTL, ClaimForExecution

\* The ring holds, once each and as many as fit, the resolutions that were
\* announced, whatever its size and however many intents a sweep expires.
THEOREM RingIsRight == Spec => []HistoryRing
<1>1. Init => HistoryRing
  <2> SUFFICES ASSUME Init
               PROVE  HistoryRing
    OBVIOUS
  <2>1. resolved = {} /\ history = <<>>
    BY DEF Init, ManagerInit, resolved, Resolved
  <2>2. Cardinality(resolved) = 0
    BY <2>1, FS_EmptySet
  <2>3. QED
    BY <2>1, <2>2, MaxHistoryAssumption DEF HistoryRing, resolved
<1>2. IInv /\ HistoryRing /\ [Next]_vars => HistoryRing'
  <2> SUFFICES ASSUME IInv, HistoryRing, [Next]_vars
               PROVE  HistoryRing'
    OBVIOUS
  <2>1. QueueInv /\ HandlerTypeOK /\ HoldsWhileWorking
    BY IInvParts DEF RequestInv
  <2>2. \/ UNCHANGED managerVars
        \/ Sweep
        \/ \E i \in Intents :
             \/ CreateIntent(i) \/ PassTTL(i) \/ ClaimForExecution(i)
             \/ MarkCompleted(i) \/ RejectIntent(i)
    BY <2>1, EnvironmentEffect, HandlerEffect
  <2>3. QED
    BY <2>1, <2>2, RingStep
<1>3. QED
  BY <1>1, <1>2, InductiveInvariant, PTL DEF Spec

-----------------------------------------------------------------------------
(* IntentAuthorization implements IntentLifecycle: under the invariant every
   step of the queue, of the requests and of the gate is a step of the
   lifecycle of an intent, or leaves the lifecycle alone. *)

\* A step that neither moves an intent nor starts or ends a request.
LEMMA SameFlight ==
  ASSUME UNCHANGED <<pc, job>>
  PROVE  inFlight' = inFlight
BY DEF inFlight, Working

\* A request that goes on keeps its intent in flight.
LEMMA GoesOn ==
  ASSUME HandlerTypeOK, NEW r \in Handlers, pc[r] # "idle", UNCHANGED job,
         NEW l, l # "idle", Goto(r, l)
  PROVE  inFlight' = inFlight
<1>1. \A q \in Handlers : pc'[q] # "idle" <=> pc[q] # "idle"
  BY DEF HandlerTypeOK, Goto
<1>2. QED
  BY <1>1 DEF inFlight, Working

\* A request that returns is the only one that worked on its intent.
LEMMA FlightEnds ==
  ASSUME HandlerTypeOK, HoldsWhileWorking, HeldByOne,
         NEW r \in Handlers, pc[r] # "idle", Return(r)
  PROVE  /\ job[r] \in inFlight
         /\ inFlight' = inFlight \ {job[r]}
<1>1. /\ pc'[r] = "idle" /\ job[r] \in Intents
      /\ \A q \in Handlers \ {r} : pc'[q] = pc[q] /\ job'[q] = job[q]
  BY DEF HandlerTypeOK, HoldsWhileWorking, Return, Goto
<1>2. \A q \in Handlers \ {r} : pc[q] # "idle" => job[q] # job[r]
  BY DEF HeldByOne
<1>3. job[r] \in inFlight
  BY <1>1 DEF inFlight, Working
<1>4. \A i \in Intents :
        (\E q \in Handlers : pc'[q] # "idle" /\ job'[q] = i)
          <=> (\E q \in Handlers : pc[q] # "idle" /\ job[q] = i) /\ i # job[r]
  BY <1>1, <1>2
<1>5. QED
  BY <1>3, <1>4 DEF inFlight, Working

\* An empty queue is the start of the lifecycle.
LEMMA LifecycleInit == Init => Lifecycle!Init
<1> SUFFICES ASSUME Init
             PROVE  phase = [i \in Intents |-> "none"] /\ inFlight = {}
                    /\ sent = [i \in Intents |-> 0]
  BY DEF Lifecycle!Init
<1>1. phase = [i \in Intents |-> "none"]
  BY DEF Init, ManagerInit, phase, InMap, Resolved
<1>2. inFlight = {}
  BY DEF Init, inFlight, Working
<1>3. QED
  BY <1>1, <1>2 DEF Init

\* Each step of an authorize request.
LEMMA LifecycleRequest ==
  ASSUME IInv, NEW r \in Handlers, HandlerStep(r)
  PROVE  [Lifecycle!Next]_Lifecycle!vars
<1>1. QueueInv /\ RequestInv /\ HandlerTypeOK /\ HoldsWhileWorking /\ HeldByOne
  BY IInvParts DEF RequestInv
<1>2. ASSUME NEW i \in Intents, Claim(r, i)
      PROVE  Lifecycle!Authorize(i)
  <2>1. phase[i] = "PENDING" /\ phase' = [phase EXCEPT ![i] = "EXECUTING"]
    BY <1>1, <1>2, PhaseClaim DEF Claim
  <2>2. inFlight' = inFlight \union {i}
    <3>1. /\ pc[r] = "idle" /\ pc'[r] = "claimed" /\ job'[r] = i
          /\ \A q \in Handlers \ {r} : pc'[q] = pc[q] /\ job'[q] = job[q]
      BY <1>1, <1>2 DEF Claim, Goto, HandlerTypeOK
    <3>2. \A j \in Intents :
            (\E q \in Handlers : pc'[q] # "idle" /\ job'[q] = j)
              <=> (\E q \in Handlers : pc[q] # "idle" /\ job[q] = j) \/ j = i
      BY <3>1
    <3>3. QED
      BY <3>2 DEF inFlight, Working
  <2>3. QED
    BY <1>2, <2>1, <2>2 DEF Claim, Lifecycle!Authorize, Lifecycle!Move
<1>3. CASE CheckReference(r) \/ CheckSlippage(r) \/ PassGate(r) \/ FailToTransmit(r)
  <2>1. phase' = phase /\ sent' = sent
    BY <1>3, PhaseUnchanged
       DEF CheckReference, CheckSlippage, PassGate, FailToTransmit, managerVars
  <2>2. inFlight' = inFlight
    BY <1>1, <1>3, GoesOn DEF CheckReference, CheckSlippage, PassGate, FailToTransmit
  <2>3. QED
    BY <2>1, <2>2 DEF Lifecycle!vars
<1>4. CASE Transmit(r)
  <2>1. job[r] \in Intents /\ job[r] \in inFlight
    BY <1>1, <1>4, JobIsIntent DEF Transmit, inFlight, Working
  <2>2. sent[job[r]] = 0 /\ sent' = [sent EXCEPT ![job[r]] = 1]
    <3>1. sent[job[r]] = 0
      BY <1>1, <1>4 DEF Transmit, RequestInv, SentByProgress
    <3>2. sent' = [sent EXCEPT ![job[r]] = sent[job[r]] + 1]
      BY <1>4 DEF Transmit
    <3>3. QED
      BY <3>1, <3>2
  <2>3. phase' = phase
    BY <1>4, PhaseUnchanged DEF Transmit, managerVars
  <2>4. inFlight' = inFlight
    BY <1>1, <1>4, GoesOn DEF Transmit
  <2>5. Lifecycle!Send(job[r])
    BY <2>1, <2>2, <2>3, <2>4 DEF Lifecycle!Send
  <2>6. QED
    BY <2>1, <2>5 DEF Lifecycle!Next
<1>5. CASE Panic(r) \/ Complete(r) \/ Abort(r)
  <2>1. /\ pc[r] # "idle" /\ job[r] \in Intents /\ sent' = sent
        /\ job[r] \in inFlight /\ inFlight' = inFlight \ {job[r]}
    BY <1>1, <1>5, JobIsIntent, FlightEnds DEF Panic, Complete, Abort
  <2>2. phase[job[r]] \in {"EXECUTING", "REJECTED"}
    BY <1>1, <2>1 DEF RequestInv, HeldIsClaimed
  <2>3. CASE phase' = phase
    <3>1. Lifecycle!Abandon(job[r])
      BY <2>1, <2>3 DEF Lifecycle!Abandon
    <3>2. QED
      BY <2>1, <3>1 DEF Lifecycle!Next
  <2>4. CASE Panic(r)
    BY <2>3, <2>4, PhaseUnchanged DEF Panic, managerVars
  <2>5. CASE Complete(r)
    <3>1. \/ phase' = phase
          \/ phase[job[r]] = "EXECUTING" /\ phase' = [phase EXCEPT ![job[r]] = "COMPLETED"]
      BY <1>1, <2>1, <2>2, <2>5, PhaseComplete DEF Complete, Present
    <3>2. sent[job[r]] = 1
      BY <1>1, <2>5 DEF Complete, RequestInv, SentByProgress
    <3>3. CASE phase' # phase
      <4>1. Lifecycle!Complete(job[r])
        BY <2>1, <3>1, <3>2, <3>3 DEF Lifecycle!Complete, Lifecycle!Move
      <4>2. QED
        BY <2>1, <4>1 DEF Lifecycle!Next
    <3>4. QED
      BY <2>3, <3>3
  <2>6. CASE Abort(r)
    <3>1. \/ phase' = phase
          \/ phase[job[r]] = "EXECUTING" /\ phase' = [phase EXCEPT ![job[r]] = "REJECTED"]
      BY <1>1, <2>1, <2>2, <2>6, PhaseReject DEF Abort, Present
    <3>2. CASE phase' # phase
      <4>1. Lifecycle!Reject(job[r])
        BY <2>1, <3>1, <3>2 DEF Lifecycle!Reject, Lifecycle!Move
      <4>2. QED
        BY <2>1, <4>1 DEF Lifecycle!Next
    <3>3. QED
      BY <2>3, <3>2
  <2>7. QED
    BY <1>5, <2>4, <2>5, <2>6
<1>6. QED
  BY <1>2, <1>3, <1>4, <1>5 DEF HandlerStep, Lifecycle!Next

\* Each step of the queue that no request takes.
LEMMA LifecycleQueue ==
  ASSUME IInv, UNCHANGED handlerVars,
         \/ UNCHANGED managerVars
         \/ Sweep
         \/ \E i \in Intents : CreateIntent(i) \/ PassTTL(i) \/ (InMap(i) /\ RejectIntent(i))
  PROVE  [Lifecycle!Next]_Lifecycle!vars
<1>1. QueueInv /\ sent' = sent /\ inFlight' = inFlight
  BY IInvParts, SameFlight DEF handlerVars
<1>2. CASE phase' = phase
  BY <1>1, <1>2 DEF Lifecycle!vars
<1>3. CASE UNCHANGED managerVars
  BY <1>2, <1>3, PhaseUnchanged DEF managerVars
<1>4. CASE Sweep
  <2>1. Expirable \in SUBSET Intents /\ Lifecycle!Expire(Expirable)
    BY <1>1, <1>4, PhaseSweep DEF Lifecycle!Expire
  <2>2. QED
    BY <2>1 DEF Lifecycle!Next
<1>5. ASSUME NEW i \in Intents, CreateIntent(i)
      PROVE  Lifecycle!Propose(i)
  BY <1>1, <1>5, PhaseCreate DEF Lifecycle!Propose, Lifecycle!Move
<1>6. ASSUME NEW i \in Intents, PassTTL(i)
      PROVE  phase' = phase
  BY <1>6, PhaseUnchanged DEF PassTTL
<1>7. ASSUME NEW i \in Intents, RejectIntent(i)
      PROVE  phase' = phase \/ Lifecycle!Reject(i)
  BY <1>1, <1>7, PhaseReject DEF Present, Lifecycle!Reject, Lifecycle!Move
<1>8. QED
  BY <1>2, <1>3, <1>4, <1>5, <1>6, <1>7 DEF Lifecycle!Next

\* The queue, the concurrent requests, the sweeper and the gate implement the
\* lifecycle of an intent, for every number of intents and of requests.
THEOREM Refinement == Spec => LifecycleSpec
<1>1. Init => Lifecycle!Init
  BY LifecycleInit
<1>2. IInv /\ [Next]_vars => [Lifecycle!Next]_Lifecycle!vars
  BY EnvironmentEffect, LifecycleRequest, LifecycleQueue
<1>3. QED
  BY <1>1, <1>2, InductiveInvariant, PTL DEF Spec, LifecycleSpec, Lifecycle!Spec

=============================================================================
