------------------------ MODULE SpreadBuilderProofs ------------------------
(***************************************************************************)
(* Theorems about SpreadBuilder, for any grid of strikes, any quotes, and  *)
(* any criteria.  The legs are summed by a                                 *)
(* fold of the community modules: the first lemmas say what that fold is   *)
(* for at most four legs, by induction over their sets.  The rest is one   *)
(* inductive invariant, SpreadInv, and what its parts say of the prices.   *)
(***************************************************************************)
EXTENDS SpreadBuilder, FiniteSetTheorems, WellFoundedInduction, TLAPS

-----------------------------------------------------------------------------
(* The sum of a function over a set of at most four indices *)

Part(f, s, i) == IF i \in s THEN f[i] ELSE 0
Total(f, s) == Part(f, s, 1) + Part(f, s, 2) + Part(f, s, 3) + Part(f, s, 4)
First(s) == CHOOSE i \in s : TRUE

\* The equation of the fold that sums f over the subsets of D.
Folds(g, D, f) ==
  g = [s \in SUBSET D |-> IF s = {} THEN 0 ELSE f[First(s)] + g[s \ {First(s)}]]

\* Taking the element the fold takes first leaves the sum of the others.
LEMMA TotalStep ==
  ASSUME NEW D \in SUBSET (1..4), NEW f \in [D -> Int]
  PROVE  \A s \in SUBSET D : s # {} =>
           First(s) \in s /\ Total(f, s) = f[First(s)] + Total(f, s \ {First(s)})
<1> SUFFICES ASSUME NEW s \in SUBSET D, s # {}
             PROVE  First(s) \in s /\ Total(f, s) = f[First(s)] + Total(f, s \ {First(s)})
  OBVIOUS
<1>1. First(s) \in s
  BY DEF First
<1> DEFINE x == First(s)
           r == s \ {x}
<1>2. x \in D /\ x \in 1..4
  BY <1>1
<1>3. f[x] \in Int
  BY <1>2
<1>4. \A i \in 1..4 : Part(f, s, i) \in Int /\ Part(f, r, i) \in Int
  BY DEF Part
<1>5. \A i \in 1..4 : i # x => Part(f, r, i) = Part(f, s, i)
  BY DEF Part
<1>6. Part(f, s, x) = f[x] /\ Part(f, r, x) = 0
  BY <1>1 DEF Part
<1> HIDE DEF x, r
<1>7. Total(f, s) = f[x] + Total(f, r)
  <2> DEFINE p(i) == Part(f, s, i)
             q(i) == Part(f, r, i)
  <2>1. p(1) \in Int /\ p(2) \in Int /\ p(3) \in Int /\ p(4) \in Int
    BY <1>4
  <2>2. q(1) \in Int /\ q(2) \in Int /\ q(3) \in Int /\ q(4) \in Int
    BY <1>4
  <2>3. p(x) = f[x] /\ q(x) = 0
    BY <1>6
  <2>4. /\ 1 # x => q(1) = p(1)
        /\ 2 # x => q(2) = p(2)
        /\ 3 # x => q(3) = p(3)
        /\ 4 # x => q(4) = p(4)
    BY <1>5
  <2>5. Total(f, s) = p(1) + p(2) + p(3) + p(4) /\ Total(f, r) = q(1) + q(2) + q(3) + q(4)
    BY DEF Total
  <2> HIDE DEF p, q
  <2>6. x = 1 \/ x = 2 \/ x = 3 \/ x = 4
    BY <1>2
  <2>7. CASE x = 1
    BY <1>3, <2>1, <2>2, <2>3, <2>4, <2>5, <2>7
  <2>8. CASE x = 2
    BY <1>3, <2>1, <2>2, <2>3, <2>4, <2>5, <2>8
  <2>9. CASE x = 3
    BY <1>3, <2>1, <2>2, <2>3, <2>4, <2>5, <2>9
  <2>10. CASE x = 4
    BY <1>3, <2>1, <2>2, <2>3, <2>4, <2>5, <2>10
  <2> QED
    BY <2>6, <2>7, <2>8, <2>9, <2>10
<1> QED
  BY <1>1, <1>7 DEF x, r

\* Whatever satisfies the equation of the fold gives these sums.
LEMMA FoldTotals ==
  ASSUME NEW D \in SUBSET (1..4), NEW f \in [D -> Int], NEW g, Folds(g, D, f)
  PROVE  \A s \in SUBSET D : g[s] = Total(f, s)
<1>0. \A s \in SUBSET D : s # {} =>
         First(s) \in s /\ Total(f, s) = f[First(s)] + Total(f, s \ {First(s)})
  BY TotalStep
<1> DEFINE T == {s \in SUBSET D : g[s] # Total(f, s)}
<1>1. IsFiniteSet(D)
  BY FS_Interval, FS_Subset, 1 \in Int, 4 \in Int
<1>2. IsWellFoundedOn(StrictSubsetOrdering(D), FiniteSubsetsOf(D))
  BY <1>1, FS_StrictSubsetOrderingWellFounded
<1>3. T \subseteq FiniteSubsetsOf(D)
  BY <1>1, FS_Subset DEF FiniteSubsetsOf
<1>4. ASSUME T # {} PROVE FALSE
  <2>1. PICK s \in T : \A r \in T : ~(<<r, s>> \in StrictSubsetOrdering(D))
    BY <1>2, <1>3, <1>4, WFMin
  <2>2. CASE s = {}
    BY <2>1, <2>2 DEF Total, Part, Folds
  <2>3. CASE s # {}
    <3> DEFINE r == s \ {First(s)}
    <3>0. s \in SUBSET D
      BY <2>1
    <3>1. First(s) \in s /\ Total(f, s) = f[First(s)] + Total(f, r)
      <4> HIDE DEF T, r
      <4>1. First(s) \in s /\ Total(f, s) = f[First(s)] + Total(f, s \ {First(s)})
        BY <3>0, <2>3, <1>0
      <4> QED
        BY <4>1 DEF r
    <3>2. r \in SUBSET D /\ r # s /\ r \subseteq s /\ s \in SUBSET D
      BY <2>1, <3>1
    <3>3. r \notin T
      <4>1. <<r, s>> \in StrictSubsetOrdering(D)
        BY <3>2 DEF StrictSubsetOrdering
      <4> QED
        BY <2>1, <4>1
    <3>4. g[s] = f[First(s)] + g[r]
      <4> HIDE DEF T
      <4>1. s \in SUBSET D
        BY <2>1 DEF T
      <4> QED
        BY <4>1, <2>3 DEF Folds
    <3>5. g[r] = Total(f, r)
      BY <3>2, <3>3
    <3>6. g[s] # Total(f, s)
      BY <2>1
    <3> HIDE DEF r, T
    <3> QED
      BY <3>1, <3>4, <3>5, <3>6
  <2> QED
    BY <2>2, <2>3
<1> QED
  BY <1>4

\* Some function satisfies the equation of the fold.
LEMMA FoldExists ==
  ASSUME NEW D \in SUBSET (1..4), NEW f \in [D -> Int]
  PROVE  \E g : Folds(g, D, f)
<1>0. \A s \in SUBSET D : s # {} =>
         First(s) \in s /\ Total(f, s) = f[First(s)] + Total(f, s \ {First(s)})
  BY TotalStep
<1> DEFINE W == [s \in SUBSET D |-> Total(f, s)]
<1>1. Total(f, {}) = 0
  BY DEF Total, Part
<1>2. ASSUME NEW s \in SUBSET D, s # {}
      PROVE  Total(f, s) = f[First(s)] + W[s \ {First(s)}]
  <2>1. Total(f, s) = f[First(s)] + Total(f, s \ {First(s)})
    BY <1>2, <1>0
  <2>2. s \ {First(s)} \in SUBSET D
    OBVIOUS
  <2> QED
    BY <2>1, <2>2
<1> DEFINE N(s) == f[First(s)] + W[s \ {First(s)}]
<1>3. \A s \in SUBSET D : Total(f, s) = IF s = {} THEN 0 ELSE N(s)
  BY <1>1, <1>2
<1> DEFINE V == [s \in SUBSET D |-> IF s = {} THEN 0 ELSE N(s)]
<1>4. \A s \in SUBSET D : W[s] = V[s]
  <2> HIDE DEF N
  <2> QED
    BY <1>3
<1>5. W = V
  <2>1. W = [s \in SUBSET D |-> W[s]] /\ V = [s \in SUBSET D |-> V[s]]
    OBVIOUS
  <2> HIDE DEF W, V
  <2> QED
    BY <1>4, <2>1
<1>6. W = [s \in SUBSET D |-> IF s = {} THEN 0 ELSE f[First(s)] + W[s \ {First(s)}]]
  <2> HIDE DEF W
  <2> QED
    BY <1>5
<1> HIDE DEF W
<1> QED
  BY <1>6 DEF Folds
-----------------------------------------------------------------------------
(* The inductive invariant *)

\* The number of legs the strategy has.
Whole == IF want.strategy = "iron_condor" THEN 4 ELSE 2

\* The right and the action of leg i.
RightOf(i) == IF want.strategy = "call_credit_spread" \/ i > 2 THEN "C" ELSE "P"
ActionOf(i) == IF i \in {1, 3} THEN "SELL" ELSE "BUY"

\* Where leg i is looked for, and how far from there, twice over, it may be.
OutOf(right, from, n) == IF right = "P" THEN from - n ELSE from + n
Target(i) == IF i \in {1, 3} THEN OutOf(RightOf(i), want.spot, want.otm)
                            ELSE OutOf(RightOf(i), legs[i - 1].strike, want.width)
Span == (2 * Reach + 1) * Step
Near(strike, target) == 2 * (strike - target) <= Span /\ 2 * (target - strike) <= Span

\* The legs come in pairs, a short and its wing, near where they are wanted.
LegsArePlanned ==
  \A i \in DOMAIN legs :
    /\ legs[i].right = RightOf(i)
    /\ legs[i].action = ActionOf(i)
    /\ legs[i].strike \in Strikes
    /\ Near(legs[i].strike, Target(i))

\* How many legs there are at each step.
LegsAreCounted ==
  /\ Len(legs) <= 4
  /\ building = "short" => Len(legs) = 0 \/ (Len(legs) = 2 /\ Whole = 4)
  /\ building = "wing"  => Len(legs) = 1 \/ (Len(legs) = 3 /\ Whole = 4)
  /\ building \in {"legged", "costed", "placing", "sent"} => Len(legs) = Whole

\* What is offered was costed, from its legs, as a credit.
CostIsOfLegs ==
  Costed => cost.credit = Credit /\ Credit > 0 /\ cost.lot = LotLoss

\* What is sent is the plan, bought.
BagIsPlan ==
  building = "sent" =>
    /\ bag.action = "BUY" /\ bag.limit = -Credit
    /\ bag.legs = [i \in DOMAIN legs |-> [contract |-> Contract(legs[i]), action |-> legs[i].action]]

SpreadInv == SpreadTypeOK /\ LegsArePlanned /\ LegsAreCounted /\ CostIsOfLegs /\ BagIsPlan

-----------------------------------------------------------------------------
(* The credit and the settlement are sums over the legs *)

Received == [i \in DOMAIN legs |-> IF legs[i].action = "SELL" THEN legs[i].mid ELSE -legs[i].mid]

Intrinsic(l, x) == IF l.right = "P" THEN Max({0, l.strike - x}) ELSE Max({0, x - l.strike})
Owes(x) == [i \in DOMAIN legs |-> IF legs[i].action = "SELL" THEN Intrinsic(legs[i], x)
                                                           ELSE -Intrinsic(legs[i], x)]

\* The larger of two numbers is what FiniteSetsExt takes it for.
LEMMA MaxOfTwo ==
  ASSUME NEW a \in Int
  PROVE  Max({0, a}) = IF a > 0 THEN a ELSE 0
<1> DEFINE m == IF a > 0 THEN a ELSE 0
<1>1. m \in {0, a} /\ \A y \in {0, a} : m >= y
  OBVIOUS
<1>2. \A x \in {0, a} : (\A y \in {0, a} : x >= y) => x = m
  OBVIOUS
<1> QED
  BY <1>1, <1>2 DEF Max

\* The legs are at most four, with whole prices.
LEMMA LegTypes ==
  ASSUME SpreadTypeOK, LegsAreCounted
  PROVE  /\ DOMAIN legs = 1..Len(legs) /\ Len(legs) \in Nat /\ DOMAIN legs \in SUBSET (1..4)
         /\ \A i \in DOMAIN legs : legs[i] \in LegType
         /\ \A i \in DOMAIN legs : legs[i].strike \in Int /\ legs[i].mid \in Int
         /\ Received \in [DOMAIN legs -> Int]
<1>1. legs \in Seq(LegType) /\ Len(legs) <= 4
  BY DEF SpreadTypeOK, LegsAreCounted
<1>2. DOMAIN legs = 1..Len(legs) /\ Len(legs) \in Nat /\ \A i \in DOMAIN legs : legs[i] \in LegType
  BY <1>1
<1>3. DOMAIN legs \in SUBSET (1..4)
  BY <1>1, <1>2
<1>4. \A i \in DOMAIN legs : legs[i].strike \in Int /\ legs[i].mid \in Int
  BY <1>2 DEF LegType
<1>5. Received \in [DOMAIN legs -> Int]
  BY <1>4 DEF Received
<1> QED
  BY <1>2, <1>3, <1>4, <1>5

LEMMA CreditIsSum ==
  ASSUME SpreadTypeOK, LegsAreCounted
  PROVE  Credit = Total(Received, DOMAIN legs)
<1> DEFINE D == DOMAIN legs
           R(g) == g = [s \in SUBSET D |->
                          IF s = {} THEN 0
                          ELSE (IF legs[First(s)].action = "SELL" THEN legs[First(s)].mid
                                                                ELSE -legs[First(s)].mid)
                               + g[s \ {First(s)}]]
<1>1. D \in SUBSET (1..4) /\ Received \in [D -> Int]
  BY LegTypes
<1>2. Credit = (CHOOSE g : R(g))[D]
  BY DEF Credit, MapThenSumSet, MapThenFoldSet, First
<1>3. ASSUME NEW g PROVE R(g) <=> Folds(g, D, Received)
  <2>1. \A s \in SUBSET D : s # {} => First(s) \in D
    BY DEF First
  <2>2. \A s \in SUBSET D : s # {} =>
          (IF legs[First(s)].action = "SELL" THEN legs[First(s)].mid ELSE -legs[First(s)].mid)
          = Received[First(s)]
    BY <2>1 DEF Received
  <2>3. [s \in SUBSET D |->
           IF s = {} THEN 0
           ELSE (IF legs[First(s)].action = "SELL" THEN legs[First(s)].mid
                                                 ELSE -legs[First(s)].mid)
                + g[s \ {First(s)}]]
        = [s \in SUBSET D |-> IF s = {} THEN 0 ELSE Received[First(s)] + g[s \ {First(s)}]]
    BY <2>2
  <2> QED
    BY <2>3 DEF Folds
<1>4. \E g : Folds(g, D, Received)
  BY <1>1, FoldExists
<1>5. \E g : R(g)
  BY <1>3, <1>4
<1> DEFINE c == CHOOSE g : R(g)
<1>6. Folds(c, D, Received)
  <2> HIDE DEF R
  <2> QED
    BY <1>3, <1>5
<1>7. \A s \in SUBSET D : c[s] = Total(Received, s)
  <2> HIDE DEF c, D
  <2> QED
    BY <1>1, <1>6, FoldTotals
<1>8. c[D] = Total(Received, D)
  <2> HIDE DEF c
  <2> QED
    BY <1>7
<1> QED
  BY <1>2, <1>8

LEMMA OwedIsSum ==
  ASSUME SpreadTypeOK, LegsAreCounted, NEW x \in Int
  PROVE  /\ OwedAt(x) = Total(Owes(x), DOMAIN legs)
         /\ Owes(x) \in [DOMAIN legs -> Int]
<1> DEFINE D == DOMAIN legs
           O == Owes(x)
           owed(i) == IF legs[i].action = "SELL" THEN Intrinsic(legs[i], x) ELSE -Intrinsic(legs[i], x)
           R(g) == g = [s \in SUBSET D |-> IF s = {} THEN 0 ELSE owed(First(s)) + g[s \ {First(s)}]]
<1>1. D \in SUBSET (1..4) /\ \A i \in D : legs[i].strike \in Int
  BY LegTypes
<1>2. \A i \in D : Intrinsic(legs[i], x) \in Int
  <2> TAKE i \in D
  <2>1. legs[i].strike - x \in Int /\ x - legs[i].strike \in Int
    BY <1>1
  <2>2. Max({0, legs[i].strike - x}) \in Int /\ Max({0, x - legs[i].strike}) \in Int
    BY <2>1, MaxOfTwo
  <2> QED
    BY <2>2 DEF Intrinsic
<1>3. O \in [D -> Int]
  BY <1>2 DEF Owes
<1>4. OwedAt(x) = (CHOOSE g : R(g))[D]
  BY DEF OwedAt, MapThenSumSet, MapThenFoldSet, First, Intrinsic
<1>5. ASSUME NEW g PROVE R(g) <=> Folds(g, D, O)
  <2>1. \A s \in SUBSET D : s # {} => First(s) \in D
    BY DEF First
  <2>2. \A i \in D : O[i] = owed(i)
    BY DEF Owes
  <2>3. [s \in SUBSET D |-> IF s = {} THEN 0 ELSE owed(First(s)) + g[s \ {First(s)}]]
        = [s \in SUBSET D |-> IF s = {} THEN 0 ELSE O[First(s)] + g[s \ {First(s)}]]
    <3> HIDE DEF D, O, owed
    <3> QED
      BY <2>1, <2>2
  <2> QED
    BY <2>3 DEF Folds
<1>6. \E g : Folds(g, D, O)
  <2> HIDE DEF D, O
  <2> QED
    BY <1>1, <1>3, FoldExists
<1>7. \E g : R(g)
  BY <1>5, <1>6
<1> DEFINE c == CHOOSE g : R(g)
<1>8. Folds(c, D, O)
  <2> HIDE DEF R
  <2> QED
    BY <1>5, <1>7
<1>9. \A s \in SUBSET D : c[s] = Total(O, s)
  <2> HIDE DEF c, D, O
  <2> QED
    BY <1>1, <1>3, <1>8, FoldTotals
<1>10. c[D] = Total(O, D)
  <2> HIDE DEF c, O
  <2> QED
    BY <1>9
<1> QED
  BY <1>3, <1>4, <1>10

\* Sums over the two legs of a vertical and the four of a condor.
LEMMA TotalOfPairs ==
  ASSUME NEW n \in {2, 4}, NEW f \in [1..n -> Int]
  PROVE  Total(f, 1..n) = IF n = 2 THEN f[1] + f[2] ELSE f[1] + f[2] + f[3] + f[4]
<1>1. CASE n = 2
  <2>1. f[1] \in Int /\ f[2] \in Int
    BY <1>1
  <2> QED
    BY <1>1, <2>1 DEF Total, Part
<1>2. CASE n = 4
  BY <1>2 DEF Total, Part
<1> QED
  BY <1>1, <1>2

\* What the credit is of a plan that is complete.
LEMMA CreditOfPlan ==
  ASSUME SpreadTypeOK, LegsAreCounted, LegsArePlanned, Len(legs) = Whole
  PROVE  Credit = IF Whole = 2 THEN legs[1].mid - legs[2].mid
                  ELSE legs[1].mid - legs[2].mid + legs[3].mid - legs[4].mid
<1>1. DOMAIN legs = 1..Whole /\ Whole \in {2, 4}
  BY LegTypes DEF Whole
<1>2. \A i \in 1..Whole : legs[i].mid \in Int
  BY <1>1, LegTypes
<1>3. \A i \in 1..Whole : Received[i] = IF i \in {1, 3} THEN legs[i].mid ELSE -legs[i].mid
  BY <1>1 DEF Received, LegsArePlanned, ActionOf
<1>4. Credit = Total(Received, 1..Whole) /\ Received \in [1..Whole -> Int]
  BY <1>1, CreditIsSum, LegTypes
<1>5. CASE Whole = 2
  <2>1. Credit = Received[1] + Received[2]
    BY <1>4, <1>5, TotalOfPairs
  <2>2. Received[1] = legs[1].mid /\ Received[2] = -legs[2].mid
    BY <1>3, <1>5
  <2> QED
    BY <1>2, <1>5, <2>1, <2>2
<1>6. CASE Whole = 4
  <2>1. Credit = Received[1] + Received[2] + Received[3] + Received[4]
    BY <1>4, <1>6, TotalOfPairs
  <2>2. /\ Received[1] = legs[1].mid /\ Received[2] = -legs[2].mid
        /\ Received[3] = legs[3].mid /\ Received[4] = -legs[4].mid
    BY <1>3, <1>6
  <2> QED
    BY <1>2, <1>6, <2>1, <2>2
<1> QED
  BY <1>1, <1>5, <1>6

-----------------------------------------------------------------------------
(* Every step keeps the invariant *)

LEMMA InitInv == SpreadInit => SpreadInv
<1> SUFFICES ASSUME SpreadInit PROVE SpreadInv
  OBVIOUS
<1>1. SpreadTypeOK
  <2>1. legs \in Seq(LegType) /\ cost \in [credit : Int, lot : Int, qty : Nat]
    BY DEF SpreadInit
  <2>2. bag.action = "none" /\ bag.limit = 0
    BY DEF SpreadInit, NoBag
  <2> QED
    BY <2>1, <2>2 DEF SpreadInit, SpreadTypeOK
<1>2. LegsArePlanned /\ LegsAreCounted
  BY DEF SpreadInit, LegsArePlanned, LegsAreCounted
<1>3. CostIsOfLegs /\ BagIsPlan
  BY DEF SpreadInit, CostIsOfLegs, Costed, BagIsPlan
<1> QED
  BY <1>1, <1>2, <1>3 DEF SpreadInv

\* The credit and the loss of a lot are those of the legs and the criteria.
LEMMA CreditKept ==
  ASSUME UNCHANGED <<want, legs>>
  PROVE  Credit' = Credit /\ LotLoss' = LotLoss /\ Whole' = Whole
<1>1. legs' = legs /\ want' = want
  OBVIOUS
<1>2. Credit' = Credit
  BY <1>1 DEF Credit, MapThenSumSet, MapThenFoldSet
<1> QED
  BY <1>1, <1>2 DEF LotLoss, Whole

LEMMA LegsKept ==
  ASSUME LegsArePlanned, UNCHANGED <<want, legs>>
  PROVE  LegsArePlanned'
BY DEF LegsArePlanned, RightOf, ActionOf, Target

LEMMA RefuseKeeps ==
  ASSUME SpreadInv, Refuse
  PROVE  SpreadInv'
<1>1. SpreadTypeOK'
  BY DEF SpreadInv, SpreadTypeOK, Refuse
<1>2. LegsArePlanned'
  BY LegsKept DEF SpreadInv, Refuse
<1>3. LegsAreCounted'
  BY DEF SpreadInv, LegsAreCounted, Refuse
<1>4. CostIsOfLegs' /\ BagIsPlan'
  BY DEF Refuse, CostIsOfLegs, Costed, BagIsPlan
<1> QED
  BY <1>1, <1>2, <1>3, <1>4 DEF SpreadInv

LEMMA ActionsAlternate ==
  /\ \A k : k = 1 \/ k = 3 => ActionOf(k) = "SELL"
  /\ \A k : k = 2 \/ k = 4 => ActionOf(k) = "BUY"
<1>1. ActionOf(1) = "SELL" /\ ActionOf(3) = "SELL" /\ ActionOf(2) = "BUY" /\ ActionOf(4) = "BUY"
  BY DEF ActionOf
<1> QED
  BY <1>1, Zenon

\* A number divided lies between the quotient's multiple and the next one.
LEMMA DivideBetween ==
  ASSUME NEW a \in Nat, NEW b \in Nat \ {0}
  PROVE  a \div b \in Nat /\ b * (a \div b) <= a /\ a < b * (a \div b) + b
OBVIOUS

\* Rounding to the grid moves a target by half a step at most.
LEMMA SnapIsNear ==
  ASSUME NEW t \in Int
  PROVE  Snap(t) \in Int /\ 2 * Snap(t) - 2 * t <= Step /\ 2 * t - 2 * Snap(t) <= Step
<1>1. Step \in Nat \ {0}
  BY SpreadAssumption
<1> DEFINE b == 2 * Step
<1>2. b \in Nat \ {0}
  BY <1>1
<1>3. CASE t >= 0
  <2> DEFINE a == 2 * t + Step
             q == a \div b
  <2>1. a \in Nat
    BY <1>1, <1>3
  <2>2. q \in Nat /\ b * q <= a /\ a < b * q + b
    <3> HIDE DEF a, b
    <3> QED
      BY <1>2, <2>1, DivideBetween
  <2>3. Snap(t) = q * Step
    BY <1>3 DEF Snap
  <2>4. b * q = 2 * (q * Step) /\ q * Step \in Int
    <3> HIDE DEF q
    <3> QED
      BY <1>1, <2>2
  <2> HIDE DEF q
  <2> DEFINE k == q * Step
  <2>5. k \in Int /\ 2 * k <= 2 * t + Step /\ 2 * t + Step < 2 * k + 2 * Step
    BY <2>2, <2>4
  <2> HIDE DEF k
  <2>6. 2 * k - 2 * t <= Step /\ 2 * t - 2 * k <= Step
    BY <1>1, <2>5
  <2> QED
    BY <2>3, <2>5, <2>6 DEF k
<1>4. CASE t < 0
  <2> DEFINE a == Step - 2 * t
             q == a \div b
  <2>1. a \in Nat
    BY <1>1, <1>4
  <2>2. q \in Nat /\ b * q <= a /\ a < b * q + b
    <3> HIDE DEF a, b
    <3> QED
      BY <1>2, <2>1, DivideBetween
  <2>3. Snap(t) = -(q * Step)
    BY <1>4 DEF Snap
  <2>4. b * q = 2 * (q * Step) /\ q * Step \in Int
    <3> HIDE DEF q
    <3> QED
      BY <1>1, <2>2
  <2> HIDE DEF q
  <2> DEFINE k == q * Step
  <2>5. k \in Int /\ 2 * k <= Step - 2 * t /\ Step - 2 * t < 2 * k + 2 * Step
    BY <2>2, <2>4
  <2> HIDE DEF k
  <2>6. -k \in Int /\ 2 * (-k) - 2 * t <= Step /\ 2 * t - 2 * (-k) <= Step
    BY <1>1, <2>5
  <2> QED
    BY <2>3, <2>6 DEF k
<1> QED
  BY <1>3, <1>4

\* The search ends within its reach of the target.
LEMMA SearchStaysNear ==
  ASSUME NEW t \in Int, NEW s \in InReach(t)
  PROVE  Near(s, t)
<1>1. Step \in Nat \ {0} /\ Reach \in Nat /\ Strikes \subseteq Int
  BY SpreadAssumption
<1>2. PICK i \in -Reach..Reach : s = Snap(t) + i * Step
  BY DEF InReach
<1>3. i \in Int /\ -Reach <= i /\ i <= Reach
  BY <1>1
<1> DEFINE m == i * Step
           r == Reach * Step
           g == Snap(t)
<1>4. m \in Int /\ r \in Int /\ m <= r /\ -r <= m
  BY <1>1, <1>3
<1>5. Span = 2 * r + Step
  BY <1>1 DEF Span
<1>6. g \in Int /\ 2 * g - 2 * t <= Step /\ 2 * t - 2 * g <= Step
  BY SnapIsNear
<1>7. s = g + m
  BY <1>2
<1> HIDE DEF m, r, g
<1>8. 2 * (s - t) <= 2 * r + Step /\ 2 * (t - s) <= 2 * r + Step
  BY <1>1, <1>4, <1>6, <1>7
<1> QED
  BY <1>5, <1>8 DEF Near

\* Legs are looked for around whole points.
LEMMA TargetIsWhole ==
  ASSUME SpreadInv, NEW i \in 1..(Len(legs) + 1)
  PROVE  Target(i) \in Int
<1>1. want.spot \in Int /\ want.otm \in Int /\ want.width \in Int
  BY SpreadAssumption DEF SpreadInv, SpreadTypeOK
<1>2. i \notin {1, 3} => legs[i - 1].strike \in Int
  <2>1. i \notin {1, 3} => i - 1 \in DOMAIN legs
    BY LegTypes DEF SpreadInv
  <2> QED
    BY <2>1, LegTypes DEF SpreadInv
<1> QED
  BY <1>1, <1>2 DEF Target, OutOf

\* A leg is added at the end, of the side that is built and its place's action.
LEMMA AddLegKeeps ==
  ASSUME SpreadInv, NEW strikes, NEW action, NEW next, AddLeg(action, strikes, next),
         strikes \subseteq InReach(Target(Len(legs) + 1)),
         building \in {"short", "wing"}, action = ActionOf(Len(legs) + 1),
         next \in {"short", "wing", "legged"},
         next = "short" => Len(legs) = 1 /\ Whole = 4,
         next = "wing" => Len(legs) = 0 \/ (Len(legs) = 2 /\ Whole = 4),
         next = "legged" => Len(legs) + 1 = Whole
  PROVE  SpreadInv'
<1>0. PICK s \in strikes, m \in Mids :
        legs' = Append(legs, [right |-> Side, action |-> action, strike |-> s, mid |-> m])
  BY DEF AddLeg
<1> DEFINE n == Len(legs)
           new == [right |-> Side, action |-> action, strike |-> s, mid |-> m]
<1>1. n \in {0, 1, 2, 3} /\ DOMAIN legs = 1..n
  BY LegTypes DEF SpreadInv, LegsAreCounted, Whole
<1>2. /\ legs' = Append(legs, new) /\ building' = next
      /\ want' = want /\ cost' = cost /\ verdict' = verdict /\ bag' = bag
  BY <1>0 DEF AddLeg
<1>3. Side = RightOf(n + 1) /\ Side \in Rights
  BY <1>1 DEF Side, RightOf, Rights
<1>4. new \in LegType
  <2>1. s \in Strikes
    BY DEF InReach
  <2>2. m \in Int
    BY SpreadAssumption
  <2>3. action \in Actions /\ s \in Int
    BY <2>1, SpreadAssumption DEF ActionOf, Actions
  <2> QED
    BY <2>2, <2>3, <1>3 DEF LegType
<1>5. legs \in Seq(LegType)
  BY DEF SpreadInv, SpreadTypeOK
<1>6. /\ legs' \in Seq(LegType) /\ Len(legs') = n + 1 /\ DOMAIN legs' = 1..(n + 1)
      /\ \A i \in 1..n : legs'[i] = legs[i]
      /\ legs'[n + 1] = new
  <2> HIDE DEF new
  <2> QED
    BY <1>1, <1>2, <1>4, <1>5
<1>7. SpreadTypeOK'
  <2>1. building' \in {"short", "wing", "legged", "costed", "placing", "sent", "refused"}
    BY <1>2
  <2> QED
    BY <1>2, <1>6, <2>1 DEF SpreadInv, SpreadTypeOK
<1>8. LegsArePlanned'
  <2>1. \A i : RightOf(i)' = RightOf(i) /\ ActionOf(i)' = ActionOf(i)
    BY <1>2 DEF RightOf, ActionOf
  <2>0. \A i \in 1..(n + 1) : Target(i)' = Target(i)
    <3> TAKE i \in 1..(n + 1)
    <3>1. i \notin {1, 3} => i - 1 \in 1..n
      <4> HIDE DEF n
      <4> QED
        BY <1>1
    <3>2. i \notin {1, 3} => legs'[i - 1] = legs[i - 1]
      BY <3>1, <1>6
    <3> QED
      BY <1>2, <2>1, <3>2 DEF Target, OutOf
  <2>2. ASSUME NEW i \in 1..(n + 1)
        PROVE  /\ legs'[i].right = RightOf(i) /\ legs'[i].action = ActionOf(i)
               /\ legs'[i].strike \in Strikes
               /\ Near(legs'[i].strike, Target(i))
    <3>1. CASE i \in 1..n
      <4>1. legs'[i] = legs[i] /\ i \in DOMAIN legs
        BY <1>1, <1>6, <3>1
      <4> QED
        BY <4>1 DEF SpreadInv, LegsArePlanned
    <3>2. CASE i = n + 1
      <4>1. legs'[i] = new
        BY <1>6, <3>2
      <4>2. s \in InReach(Target(n + 1)) /\ s \in Strikes
        BY DEF InReach
      <4>3. Near(s, Target(n + 1))
        BY <1>1, <4>2, TargetIsWhole, SearchStaysNear
      <4> QED
        BY <1>3, <3>2, <4>1, <4>2, <4>3
    <3> QED
      BY <1>1, <2>2, <3>1, <3>2
  <2> QED
    BY <1>2, <1>6, <2>0, <2>1, <2>2 DEF LegsArePlanned, Near, Span
<1>9. LegsAreCounted'
  <2>1. Whole' = Whole
    BY <1>2 DEF Whole
  <2>2. n + 1 <= 4
    <3> HIDE DEF n, new
    <3> QED
      BY <1>1
  <2>3. Len(legs') = n + 1 /\ Whole' = Whole /\ building' = next
    BY <1>2, <1>6, <2>1
  <2>4. /\ next \in {"short", "wing", "legged"}
        /\ next = "short" => n = 1 /\ Whole = 4
        /\ next = "wing" => n = 0 \/ (n = 2 /\ Whole = 4)
        /\ next = "legged" => n + 1 = Whole
    OBVIOUS
  <2> HIDE DEF n, new
  <2>5. /\ next = "short" => n + 1 = 0 \/ (n + 1 = 2 /\ Whole = 4)
        /\ next = "wing" => n + 1 = 1 \/ (n + 1 = 3 /\ Whole = 4)
        /\ next \in {"legged", "costed", "placing", "sent"} => n + 1 = Whole
    BY <2>4
  <2> QED
    BY <2>2, <2>3, <2>5 DEF LegsAreCounted
<1>10. CostIsOfLegs' /\ BagIsPlan'
  BY <1>2 DEF CostIsOfLegs, Costed, BagIsPlan
<1> QED
  BY <1>7, <1>8, <1>9, <1>10 DEF SpreadInv

LEMMA FindShortKeeps ==
  ASSUME SpreadInv, FindShort
  PROVE  SpreadInv'
<1>1. building = "short" /\ (Len(legs) = 0 \/ (Len(legs) = 2 /\ Whole = 4))
  BY DEF SpreadInv, LegsAreCounted, FindShort
<1>2. CASE Refuse
  BY <1>2, RefuseKeeps
<1>3. CASE AddLeg("SELL", InReach(ShortTarget), "wing")
  <2>1. ShortTarget = Target(Len(legs) + 1)
    <3>1. Len(legs) + 1 \in {1, 3} /\ Side = RightOf(Len(legs) + 1)
      <4> DEFINE n == Len(legs)
      <4>1. n = 0 \/ n = 2
        BY <1>1
      <4> HIDE DEF n
      <4>2. n + 1 \in {1, 3} /\ (n >= 2 <=> n + 1 > 2)
        BY <4>1
      <4> QED
        BY <4>2 DEF n, Side, RightOf
    <3> QED
      BY <3>1 DEF ShortTarget, Target, Out, OutOf
  <2>2. "SELL" = ActionOf(Len(legs) + 1)
    <3> DEFINE n == Len(legs)
    <3>1. n + 1 = 1 \/ n + 1 = 3
      <4>1. n = 0 \/ n = 2
        BY <1>1
      <4> HIDE DEF n
      <4> QED
        BY <4>1
    <3> QED
      BY <3>1, ActionsAlternate
  <2> QED
    BY <1>1, <1>3, <2>1, <2>2, AddLegKeeps
<1> QED
  BY <1>2, <1>3 DEF FindShort

LEMMA FindWingKeeps ==
  ASSUME SpreadInv, FindWing
  PROVE  SpreadInv'
<1> DEFINE whole == Len(legs) = 3 \/ want.strategy # "iron_condor"
           next == IF whole THEN "legged" ELSE "short"
<1>1. building = "wing" /\ (Len(legs) = 1 \/ (Len(legs) = 3 /\ Whole = 4))
  BY DEF SpreadInv, LegsAreCounted, FindWing
<1>2. CASE Refuse
  BY <1>2, RefuseKeeps
<1>3. CASE AddLeg("BUY", InReach(WingTarget) \ {legs[Len(legs)].strike}, next)
  <2>1. WingTarget = Target(Len(legs) + 1)
    <3>1. Len(legs) + 1 \notin {1, 3} /\ Len(legs) + 1 - 1 = Len(legs) /\ Side = RightOf(Len(legs) + 1)
      <4> DEFINE n == Len(legs)
      <4>1. n = 1 \/ n = 3
        BY <1>1
      <4> HIDE DEF n
      <4>2. n + 1 \notin {1, 3} /\ n + 1 - 1 = n /\ (n >= 2 <=> n + 1 > 2)
        BY <4>1
      <4> QED
        BY <4>2 DEF n, Side, RightOf
    <3> QED
      BY <3>1 DEF WingTarget, Target, Out, OutOf
  <2>2. "BUY" = ActionOf(Len(legs) + 1)
    <3> DEFINE n == Len(legs)
    <3>1. n + 1 = 2 \/ n + 1 = 4
      <4>1. n = 1 \/ n = 3
        BY <1>1
      <4> HIDE DEF n
      <4> QED
        BY <4>1
    <3> QED
      BY <3>1, ActionsAlternate
  <2>3. /\ next \in {"short", "wing", "legged"}
        /\ next = "short" => Len(legs) = 1 /\ Whole = 4
        /\ next # "wing"
        /\ next = "legged" => Len(legs) + 1 = Whole
    <3>1. CASE Len(legs) = 1
      <4>1. Whole = IF whole THEN 2 ELSE 4
        BY <3>1 DEF Whole
      <4>2. Len(legs) + 1 = 2
        BY <3>1
      <4> HIDE DEF whole
      <4> QED
        BY <3>1, <4>1, <4>2
    <3>2. CASE Len(legs) = 3 /\ Whole = 4
      <4>1. whole /\ Len(legs) + 1 = 4
        BY <3>2
      <4> HIDE DEF whole
      <4> QED
        BY <3>2, <4>1
    <3> QED
      BY <1>1, <3>1, <3>2
  <2>4. InReach(WingTarget) \ {legs[Len(legs)].strike} \subseteq InReach(Target(Len(legs) + 1))
    BY <2>1
  <2> HIDE DEF next
  <2> QED
    BY <1>1, <1>3, <2>2, <2>3, <2>4, AddLegKeeps
<1> QED
  BY <1>2, <1>3 DEF FindWing

\* A budget divided by the loss of a lot is a number of lots.
LEMMA Quotient ==
  ASSUME NEW a \in Int, a >= 0, NEW b \in Int, b > 0
  PROVE  a \div b \in Nat
OBVIOUS

LEMMA CostTypes ==
  ASSUME SpreadInv, building = "legged"
  PROVE  Credit \in Int /\ LotLoss \in Int /\ RiskBudget \in Int /\ Len(legs) = Whole
<1>1. SpreadTypeOK /\ LegsAreCounted /\ LegsArePlanned /\ Len(legs) = Whole
  BY DEF SpreadInv, LegsAreCounted
<1>2. Whole \in {2, 4} /\ DOMAIN legs = 1..Whole
  BY <1>1, LegTypes DEF Whole
<1>3. legs[1].mid \in Int /\ legs[2].mid \in Int /\ (Whole = 4 => legs[3].mid \in Int /\ legs[4].mid \in Int)
  BY <1>1, <1>2, LegTypes
<1>4. Credit = IF Whole = 2 THEN legs[1].mid - legs[2].mid
               ELSE legs[1].mid - legs[2].mid + legs[3].mid - legs[4].mid
  BY <1>1, CreditOfPlan
<1>5. Credit \in Int
  <2>1. CASE Whole = 2
    BY <1>3, <1>4, <2>1
  <2>2. CASE Whole = 4
    BY <1>3, <1>4, <2>2
  <2> QED
    BY <1>2, <2>1, <2>2
<1>6. want.width \in Int /\ want.multiplier \in Int /\ want.portfolio \in Int /\ want.budgetPct \in Int
  BY <1>1, SpreadAssumption DEF SpreadTypeOK
<1>7. LotLoss \in Int
  BY <1>5, <1>6 DEF LotLoss
<1>8. RiskBudget \in Int
  BY <1>6 DEF RiskBudget
<1> QED
  BY <1>1, <1>5, <1>7, <1>8

LEMMA CostSpreadKeeps ==
  ASSUME SpreadInv, CostSpread
  PROVE  SpreadInv'
<1>1. building = "legged"
  BY DEF CostSpread
<1>2. CASE Refuse
  BY <1>2, RefuseKeeps
<1>3. CASE ~Refuse
  <2>1. /\ ~(Credit <= 0 \/ LotLoss <= 0)
        /\ cost' = [credit |-> Credit, lot |-> LotLoss,
                    qty |-> IF RiskBudget > 0 THEN RiskBudget \div LotLoss ELSE 1]
        /\ building' = "costed"
        /\ UNCHANGED <<want, legs, verdict, bag>>
    BY <1>3 DEF CostSpread
  <2>2. Credit \in Int /\ LotLoss \in Int /\ RiskBudget \in Int /\ Len(legs) = Whole
    BY <1>1, CostTypes
  <2>3. Credit > 0 /\ LotLoss > 0
    BY <2>1, <2>2
  <2> DEFINE q == IF RiskBudget > 0 THEN RiskBudget \div LotLoss ELSE 1
  <2>4. q \in Nat
    BY <2>2, <2>3, Quotient
  <2>5. cost' \in [credit : Int, lot : Int, qty : Nat] /\ cost'.credit = Credit /\ cost'.lot = LotLoss
    <3> HIDE DEF q
    <3> QED
      BY <2>1, <2>2, <2>4
  <2>6. SpreadTypeOK'
    BY <2>1, <2>5 DEF SpreadInv, SpreadTypeOK
  <2>7. LegsArePlanned'
    BY <2>1, LegsKept DEF SpreadInv
  <2>8. Credit' = Credit /\ LotLoss' = LotLoss /\ Whole' = Whole
    BY <2>1, CreditKept
  <2>9. LegsAreCounted'
    BY <2>1, <2>2, <2>8 DEF SpreadInv, LegsAreCounted
  <2>10. CostIsOfLegs' /\ BagIsPlan'
    BY <2>1, <2>3, <2>5, <2>8 DEF CostIsOfLegs, BagIsPlan
  <2> QED
    BY <2>6, <2>7, <2>9, <2>10 DEF SpreadInv
<1> QED
  BY <1>2, <1>3

LEMMA CheckSpreadRiskKeeps ==
  ASSUME SpreadInv, CheckSpreadRisk
  PROVE  SpreadInv'
<1>1. /\ building = "costed" /\ building' \in {"placing", "refused"} /\ verdict' \in BOOLEAN
      /\ UNCHANGED <<want, legs, cost, bag>>
  <2>1. verdict' \in BOOLEAN
    BY DEF CheckSpreadRisk
  <2> QED
    BY <2>1 DEF CheckSpreadRisk
<1>2. SpreadTypeOK'
  BY <1>1 DEF SpreadInv, SpreadTypeOK
<1>3. LegsArePlanned'
  BY <1>1, LegsKept DEF SpreadInv
<1>4. Credit' = Credit /\ LotLoss' = LotLoss /\ Whole' = Whole
  BY <1>1, CreditKept
<1>5. LegsAreCounted'
  BY <1>1, <1>4 DEF SpreadInv, LegsAreCounted
<1>6. CostIsOfLegs' /\ BagIsPlan'
  BY <1>1, <1>4 DEF SpreadInv, CostIsOfLegs, Costed, BagIsPlan
<1> QED
  BY <1>2, <1>3, <1>5, <1>6 DEF SpreadInv

\* What is sent resolved, leg by leg, to the contracts of the plan.
LEMMA PlaceComboOrderKeeps ==
  ASSUME SpreadInv, PlaceComboOrder
  PROVE  SpreadInv'
<1>1. CASE Refuse
  BY <1>1, RefuseKeeps
<1>2. CASE ~Refuse
  <2>1. building = "placing"
    BY DEF PlaceComboOrder
  <2>2. PICK i \in DOMAIN legs, other \in Contracts, orderAction \in Actions :
          LET found == [[j \in DOMAIN legs |-> Contract(legs[j])] EXCEPT ![i] = other] IN
          IF \E j \in DOMAIN legs : ~LegContractMatches(legs[j], found[j]) THEN Refuse
          ELSE /\ bag' = [action |-> BagAction(orderAction), limit |-> -cost.credit,
                          legs |-> [j \in DOMAIN legs |-> [contract |-> found[j], action |-> legs[j].action]]]
               /\ building' = "sent"
               /\ UNCHANGED <<want, legs, cost, verdict>>
    BY DEF PlaceComboOrder
  <2> DEFINE found == [[j \in DOMAIN legs |-> Contract(legs[j])] EXCEPT ![i] = other]
             sent == [j \in DOMAIN legs |-> [contract |-> found[j], action |-> legs[j].action]]
  <2>3. /\ \A j \in DOMAIN legs : found[j] = Contract(legs[j])
        /\ bag' = [action |-> "BUY", limit |-> -cost.credit, legs |-> sent]
        /\ building' = "sent"
        /\ UNCHANGED <<want, legs, cost, verdict>>
    BY <1>2, <2>2 DEF LegContractMatches, BagAction
  <2>4. sent = [j \in DOMAIN legs |-> [contract |-> Contract(legs[j]), action |-> legs[j].action]]
    BY <2>3
  <2>5. cost.credit \in Int /\ cost.credit = Credit
    BY <2>1 DEF SpreadInv, SpreadTypeOK, CostIsOfLegs, Costed
  <2>6. bag'.action = "BUY" /\ bag'.limit = -Credit /\ bag'.limit \in Int /\ bag'.legs = sent
    <3> HIDE DEF sent
    <3> QED
      BY <2>3, <2>5
  <2>7. Credit' = Credit /\ LotLoss' = LotLoss /\ Whole' = Whole
    BY <2>3, CreditKept
  <2>8. SpreadTypeOK'
    BY <2>3, <2>6 DEF SpreadInv, SpreadTypeOK, Actions
  <2>9. LegsArePlanned'
    BY <2>3, LegsKept DEF SpreadInv
  <2>10. LegsAreCounted'
    BY <2>1, <2>3, <2>7 DEF SpreadInv, LegsAreCounted
  <2>11. CostIsOfLegs'
    BY <2>1, <2>3, <2>7 DEF SpreadInv, CostIsOfLegs, Costed
  <2>12. BagIsPlan'
    BY <2>3, <2>4, <2>6, <2>7 DEF BagIsPlan, Contract
  <2> QED
    BY <2>8, <2>9, <2>10, <2>11, <2>12 DEF SpreadInv
<1> QED
  BY <1>1, <1>2

LEMMA StutterKeeps ==
  ASSUME SpreadInv, UNCHANGED spreadVars
  PROVE  SpreadInv'
<1>1. /\ want' = want /\ building' = building /\ legs' = legs
      /\ cost' = cost /\ verdict' = verdict /\ bag' = bag
  BY DEF spreadVars
<1>2. Credit' = Credit /\ LotLoss' = LotLoss /\ Whole' = Whole
  BY <1>1, CreditKept
<1>3. SpreadTypeOK'
  BY <1>1 DEF SpreadInv, SpreadTypeOK
<1>4. LegsArePlanned'
  BY <1>1, LegsKept DEF SpreadInv
<1>5. LegsAreCounted' /\ CostIsOfLegs' /\ BagIsPlan'
  BY <1>1, <1>2 DEF SpreadInv, LegsAreCounted, CostIsOfLegs, Costed, BagIsPlan, Contract
<1> QED
  BY <1>3, <1>4, <1>5 DEF SpreadInv

LEMMA NextKeeps == SpreadInv /\ [SpreadNext]_spreadVars => SpreadInv'
BY FindShortKeeps, FindWingKeeps, CostSpreadKeeps, CheckSpreadRiskKeeps, PlaceComboOrderKeeps, StutterKeeps
   DEF SpreadNext

LEMMA SpreadInvariance == SpreadSpec => []SpreadInv
BY InitInv, NextKeeps, PTL DEF SpreadSpec

\* The variables of the spread builder keep their types: the size of an order
\* is a number of lots, never a negative one.
THEOREM SpreadTypeCorrect == SpreadSpec => []SpreadTypeOK
<1>1. SpreadInv => SpreadTypeOK
  BY DEF SpreadInv
<1> QED
  BY <1>1, SpreadInvariance, PTL

-----------------------------------------------------------------------------
(* What the invariant says of the plan *)

\* A plan that was costed is complete.
LEMMA CostedIsWhole ==
  ASSUME SpreadInv, Costed
  PROVE  /\ SpreadTypeOK /\ LegsAreCounted /\ LegsArePlanned
         /\ Len(legs) = Whole /\ DOMAIN legs = 1..Whole /\ Whole \in {2, 4}
         /\ \A i \in 1..Whole : /\ legs[i].right = RightOf(i) /\ legs[i].action = ActionOf(i)
                                /\ legs[i].strike \in Strikes /\ legs[i].strike \in Nat
                                /\ Near(legs[i].strike, Target(i))
<1>1. SpreadTypeOK /\ LegsAreCounted /\ LegsArePlanned /\ Len(legs) = Whole
  BY DEF SpreadInv, LegsAreCounted, Costed
<1>2. Whole \in {2, 4} /\ DOMAIN legs = 1..Whole
  BY <1>1, LegTypes DEF Whole
<1>3. \A i \in 1..Whole : /\ legs[i].right = RightOf(i) /\ legs[i].action = ActionOf(i)
                          /\ legs[i].strike \in Strikes
                          /\ Near(legs[i].strike, Target(i))
  BY <1>1, <1>2 DEF LegsArePlanned
<1>4. Strikes \subseteq Nat
  BY SpreadAssumption
<1> QED
  BY <1>1, <1>2, <1>3, <1>4

\* The short leg and the wing of a side are those the properties look up.
LEMMA LegIsFound ==
  ASSUME SpreadInv, Costed, NEW i \in 1..Whole
  PROVE  Leg(RightOf(i), ActionOf(i)) = legs[i]
<1>1. DOMAIN legs = 1..Whole /\ Whole \in {2, 4}
  BY CostedIsWhole
<1>2. \A k \in 1..Whole : legs[k].right = RightOf(k) /\ legs[k].action = ActionOf(k)
  BY CostedIsWhole
<1>3. ASSUME NEW k \in 1..Whole, RightOf(k) = RightOf(i), ActionOf(k) = ActionOf(i)
      PROVE  k = i
  <2>1. CASE Whole = 2
    <3>1. i \in {1, 2} /\ k \in {1, 2}
      BY <2>1
    <3> QED
      BY <1>3, <3>1 DEF ActionOf
  <2>2. CASE Whole = 4
    <3>1. i \in {1, 2, 3, 4} /\ k \in {1, 2, 3, 4} /\ want.strategy = "iron_condor"
      BY <2>2 DEF Whole
    <3> QED
      BY <1>3, <3>1 DEF ActionOf, RightOf
  <2> QED
    BY <1>1, <2>1, <2>2
<1> DEFINE S == {legs[k] : k \in DOMAIN legs}
           P(l) == l.right = RightOf(i) /\ l.action = ActionOf(i)
<1>4. legs[i] \in S /\ P(legs[i])
  BY <1>1, <1>2
<1>5. \A l \in S : P(l) => l = legs[i]
  BY <1>1, <1>2, <1>3
<1>6. Leg(RightOf(i), ActionOf(i)) = CHOOSE l \in S : P(l)
  BY DEF Leg
<1> HIDE DEF S, P
<1> QED
  BY <1>4, <1>5, <1>6

\* A vertical has the two legs of one side, a condor those of both.
LEMMA SidesOfPlan ==
  ASSUME SpreadInv, Costed
  PROVE  /\ Whole = 2 => /\ Built = {RightOf(1)} /\ RightOf(1) \in Rights
                         /\ Leg(RightOf(1), "SELL") = legs[1] /\ Leg(RightOf(1), "BUY") = legs[2]
                         /\ RightOf(2) = RightOf(1)
         /\ Whole = 4 => /\ Built = Rights
                         /\ Leg("P", "SELL") = legs[1] /\ Leg("P", "BUY") = legs[2]
                         /\ Leg("C", "SELL") = legs[3] /\ Leg("C", "BUY") = legs[4]
<1>1. Whole \in {2, 4} /\ DOMAIN legs = 1..Whole /\ \A k \in 1..Whole : legs[k].right = RightOf(k)
  BY CostedIsWhole
<1>2. \A i \in 1..Whole : Leg(RightOf(i), ActionOf(i)) = legs[i]
  BY LegIsFound
<1>3. ActionOf(1) = "SELL" /\ ActionOf(2) = "BUY" /\ ActionOf(3) = "SELL" /\ ActionOf(4) = "BUY"
  BY DEF ActionOf
<1>4. ASSUME Whole = 2
      PROVE  /\ Built = {RightOf(1)} /\ RightOf(1) \in Rights
             /\ Leg(RightOf(1), "SELL") = legs[1] /\ Leg(RightOf(1), "BUY") = legs[2]
             /\ RightOf(2) = RightOf(1)
  <2>1. RightOf(2) = RightOf(1) /\ RightOf(1) \in Rights
    BY DEF RightOf, Rights
  <2>2. Built = {RightOf(1)}
    <3>1. legs[1].right = RightOf(1) /\ legs[2].right = RightOf(1) /\ DOMAIN legs = {1, 2}
      BY <1>1, <1>4, <2>1
    <3> QED
      BY <3>1 DEF Built
  <2>3. Leg(RightOf(1), ActionOf(1)) = legs[1] /\ Leg(RightOf(2), ActionOf(2)) = legs[2]
    BY <1>2, <1>4
  <2> QED
    BY <1>3, <2>1, <2>2, <2>3
<1>5. ASSUME Whole = 4
      PROVE  /\ Built = Rights
             /\ Leg("P", "SELL") = legs[1] /\ Leg("P", "BUY") = legs[2]
             /\ Leg("C", "SELL") = legs[3] /\ Leg("C", "BUY") = legs[4]
  <2>1. want.strategy = "iron_condor"
    BY <1>5 DEF Whole
  <2>2. RightOf(1) = "P" /\ RightOf(2) = "P" /\ RightOf(3) = "C" /\ RightOf(4) = "C"
    BY <2>1 DEF RightOf
  <2>3. Built = Rights
    <3>1. /\ legs[1].right = "P" /\ legs[2].right = "P" /\ legs[3].right = "C" /\ legs[4].right = "C"
          /\ DOMAIN legs = {1, 2, 3, 4}
      BY <1>1, <1>5, <2>2
    <3> QED
      BY <3>1 DEF Built, Rights
  <2>4. /\ Leg(RightOf(1), ActionOf(1)) = legs[1] /\ Leg(RightOf(2), ActionOf(2)) = legs[2]
        /\ Leg(RightOf(3), ActionOf(3)) = legs[3] /\ Leg(RightOf(4), ActionOf(4)) = legs[4]
    BY <1>2, <1>5
  <2> QED
    BY <1>3, <2>2, <2>3, <2>4
<1> QED
  BY <1>4, <1>5

\* The gateway executes the legs of the plan, each with its own action, at the
\* plan's credit, whatever action the model gave the order (PlaceComboOrder).
THEOREM PlanIsExecuted == SpreadSpec => []ExecutedAsPlanned
<1>1. SpreadInv => ExecutedAsPlanned
  <2> SUFFICES ASSUME SpreadInv, building = "sent"
               PROVE  ExecutedAsPlanned
    BY DEF ExecutedAsPlanned
  <2>1. /\ bag.action = "BUY" /\ bag.limit = -Credit
        /\ bag.legs = [i \in DOMAIN legs |-> [contract |-> Contract(legs[i]), action |-> legs[i].action]]
    BY DEF SpreadInv, BagIsPlan
  <2>2. DOMAIN bag.legs = DOMAIN legs
    BY <2>1
  <2>3. \A i \in DOMAIN legs : /\ bag.legs[i].contract.right = legs[i].right
                               /\ bag.legs[i].contract.strike = legs[i].strike
                               /\ bag.legs[i].action = legs[i].action
    BY <2>1 DEF Contract
  <2> QED
    BY <2>1, <2>2, <2>3 DEF ExecutedAsPlanned
<1> QED
  BY <1>1, SpreadInvariance, PTL

-----------------------------------------------------------------------------
(* The loss that is stated is the worst that can be settled *)

LEMMA LargestIsMax ==
  ASSUME NEW M \in SUBSET Int, NEW v \in M, \A y \in M : v >= y
  PROVE  Max(M) = v
<1>1. \A x \in M : (\A y \in M : x >= y) => x = v
  <2> SUFFICES ASSUME NEW x \in M, \A y \in M : x >= y PROVE x = v
    OBVIOUS
  <2>1. x >= v /\ v >= x /\ x \in Int /\ v \in Int
    OBVIOUS
  <2> QED
    BY <2>1
<1> QED
  BY <1>1 DEF Max

\* A finite set of numbers has a largest one: each of its subsets does.
LEMMA LargestExists ==
  ASSUME NEW M \in SUBSET Int, IsFiniteSet(M), M # {}
  PROVE  Max(M) \in M /\ \A y \in M : y <= Max(M)
<1> DEFINE HasMax(S) == \E m \in S : \A y \in S : m >= y
           T == {S \in SUBSET M : S # {} /\ ~HasMax(S)}
<1>2. IsWellFoundedOn(StrictSubsetOrdering(M), FiniteSubsetsOf(M))
  BY FS_StrictSubsetOrderingWellFounded
<1>3. T \subseteq FiniteSubsetsOf(M)
  BY FS_Subset DEF FiniteSubsetsOf
<1>4. ASSUME T # {} PROVE FALSE
  <2>1. PICK S \in T : \A R \in T : ~(<<R, S>> \in StrictSubsetOrdering(M))
    BY <1>2, <1>3, <1>4, WFMin
  <2>2. S \in SUBSET M /\ S # {} /\ ~HasMax(S)
    BY <2>1
  <2>3. PICK x \in S : TRUE
    BY <2>2
  <2> DEFINE R == S \ {x}
  <2>4. R \notin T
    <3>1. R \in SUBSET M /\ R # S /\ R \subseteq S
      BY <2>2, <2>3
    <3>2. <<R, S>> \in StrictSubsetOrdering(M)
      BY <2>2, <3>1 DEF StrictSubsetOrdering
    <3> QED
      BY <2>1, <3>2
  <2>5. CASE R = {}
    <3>1. S = {x} /\ x \in Int
      BY <2>2, <2>3, <2>5
    <3>2. \A y \in S : x >= y
      BY <3>1
    <3> QED
      BY <2>2, <2>3, <3>2
  <2>6. CASE R # {}
    <3>1. HasMax(R)
      BY <2>2, <2>4, <2>6
    <3>2. PICK m \in R : \A y \in R : m >= y
      BY <3>1
    <3>3. m \in Int /\ x \in Int /\ m \in S /\ \A y \in S : y \in Int
      BY <2>2, <2>3, <3>2
    <3>4. \A y \in S : y = x \/ m >= y
      BY <3>2
    <3>5. CASE m >= x
      BY <2>2, <3>3, <3>4, <3>5
    <3>6. CASE x > m
      <4>1. \A y \in S : x >= y
        BY <3>3, <3>4, <3>6
      <4> QED
        BY <2>2, <2>3, <4>1
    <3> QED
      BY <3>3, <3>5, <3>6
  <2> QED
    BY <2>5, <2>6
<1>5. HasMax(M)
  BY <1>4
<1>6. PICK m \in M : \A y \in M : m >= y
  BY <1>5
<1>7. Max(M) = m
  BY <1>6, LargestIsMax
<1>8. \A y \in M : y \in Int
  OBVIOUS
<1> QED
  BY <1>6, <1>7, <1>8

\* There is a highest strike.
LEMMA HighestStrike ==
  ASSUME Strikes # {}
  PROVE  Max(Strikes) \in Strikes /\ \A s \in Strikes : s <= Max(Strikes)
BY SpreadAssumption, LargestExists

\* What a short leg and its wing, n points further out, cost when x is settled.
LEMMA SideOwes ==
  ASSUME NEW n \in Nat, NEW x \in Nat, NEW s, NEW w,
         s.strike \in Nat, w.strike \in Nat, s.right \in Rights, w.right = s.right,
         s.right = "P" => s.strike - w.strike = n,
         s.right = "C" => w.strike - s.strike = n
  PROVE  /\ Intrinsic(s, x) \in Int /\ Intrinsic(w, x) \in Int
         /\ 0 <= Intrinsic(s, x) - Intrinsic(w, x) /\ Intrinsic(s, x) - Intrinsic(w, x) <= n
         /\ s.right = "P" /\ x >= s.strike => Intrinsic(s, x) - Intrinsic(w, x) = 0
         /\ s.right = "C" /\ x <= s.strike => Intrinsic(s, x) - Intrinsic(w, x) = 0
         /\ s.right = "P" /\ x = 0 => Intrinsic(s, x) - Intrinsic(w, x) = n
         /\ s.right = "C" /\ x = w.strike => Intrinsic(s, x) - Intrinsic(w, x) = n
<1> DEFINE a == s.strike
           b == w.strike
           i == Intrinsic(s, x)
           j == Intrinsic(w, x)
<1>1. a \in Nat /\ b \in Nat
  OBVIOUS
<1>2. CASE s.right = "P"
  <2>1. i = Max({0, a - x}) /\ j = Max({0, b - x})
    BY <1>2 DEF Intrinsic
  <2>2. i = (IF a - x > 0 THEN a - x ELSE 0) /\ j = (IF b - x > 0 THEN b - x ELSE 0)
    BY <1>1, <2>1, MaxOfTwo
  <2>3. a - b = n
    BY <1>2
  <2> HIDE DEF a, b, i, j
  <2>4. /\ i \in Int /\ j \in Int /\ 0 <= i - j /\ i - j <= n
        /\ x >= a => i - j = 0
        /\ x = 0 => i - j = n
    BY <1>1, <2>2, <2>3
  <2> QED
    BY <1>2, <2>4 DEF a, b, i, j
<1>3. CASE s.right = "C"
  <2>1. i = Max({0, x - a}) /\ j = Max({0, x - b})
    BY <1>3 DEF Intrinsic
  <2>2. i = (IF x - a > 0 THEN x - a ELSE 0) /\ j = (IF x - b > 0 THEN x - b ELSE 0)
    BY <1>1, <2>1, MaxOfTwo
  <2>3. b - a = n
    BY <1>3
  <2> HIDE DEF a, b, i, j
  <2>4. /\ i \in Int /\ j \in Int /\ 0 <= i - j /\ i - j <= n
        /\ x <= a => i - j = 0
        /\ x = b => i - j = n
    BY <1>1, <2>2, <2>3
  <2> QED
    BY <1>3, <2>4 DEF a, b, i, j
<1> QED
  BY <1>2, <1>3 DEF Rights

\* The settlement of a plan, by the legs.
LEMMA OwedOfPlan ==
  ASSUME SpreadInv, Costed, NEW x \in Nat,
         \A i \in 1..Whole : Intrinsic(legs[i], x) \in Int
  PROVE  /\ Whole = 2 => OwedAt(x) = Intrinsic(legs[1], x) - Intrinsic(legs[2], x)
         /\ Whole = 4 => OwedAt(x) = (Intrinsic(legs[1], x) - Intrinsic(legs[2], x))
                                     + (Intrinsic(legs[3], x) - Intrinsic(legs[4], x))
<1>1. /\ SpreadTypeOK /\ LegsAreCounted /\ DOMAIN legs = 1..Whole
      /\ \A i \in 1..Whole : legs[i].action = ActionOf(i)
  BY CostedIsWhole
<1> DEFINE O == Owes(x)
           v(i) == Intrinsic(legs[i], x)
<1>2. OwedAt(x) = Total(O, 1..Whole) /\ O \in [1..Whole -> Int]
  BY <1>1, OwedIsSum
<1>3. \A i \in 1..Whole : O[i] = IF i \in {1, 3} THEN v(i) ELSE -v(i)
  BY <1>1 DEF Owes, ActionOf
<1>4. \A i \in 1..Whole : v(i) \in Int
  OBVIOUS
<1> HIDE DEF O, v
<1>5. ASSUME Whole = 2 PROVE OwedAt(x) = v(1) - v(2)
  <2>1. OwedAt(x) = O[1] + O[2]
    BY <1>2, <1>5, TotalOfPairs
  <2>2. O[1] = v(1) /\ O[2] = -v(2) /\ v(1) \in Int /\ v(2) \in Int
    BY <1>3, <1>4, <1>5
  <2> QED
    BY <2>1, <2>2
<1>6. ASSUME Whole = 4 PROVE OwedAt(x) = (v(1) - v(2)) + (v(3) - v(4))
  <2>1. OwedAt(x) = O[1] + O[2] + O[3] + O[4]
    BY <1>2, <1>6, TotalOfPairs
  <2>2. /\ O[1] = v(1) /\ O[2] = -v(2) /\ v(1) \in Int /\ v(2) \in Int
        /\ O[3] = v(3) /\ O[4] = -v(4) /\ v(3) \in Int /\ v(4) \in Int
    BY <1>3, <1>4, <1>6
  <2> QED
    BY <2>1, <2>2
<1> QED
  BY <1>5, <1>6 DEF v

\* The hypotheses of SideOwes for the first and the second pair of a plan.
LEMMA PairsAsAsked ==
  ASSUME SpreadInv, Costed, AsAsked
  PROVE  /\ want.width \in Nat
         /\ \A i \in 1..Whole : legs[i].strike \in Nat /\ legs[i].right = RightOf(i)
         /\ RightOf(1) \in Rights /\ RightOf(2) = RightOf(1)
         /\ RightOf(1) = "P" => legs[1].strike - legs[2].strike = want.width
         /\ RightOf(1) = "C" => legs[2].strike - legs[1].strike = want.width
         /\ Whole = 4 => /\ RightOf(1) = "P" /\ RightOf(3) = "C" /\ RightOf(4) = "C"
                         /\ legs[4].strike - legs[3].strike = want.width
                         /\ legs[1].strike <= legs[3].strike
<1>1. want.width \in Nat
  BY SpreadAssumption DEF SpreadInv, SpreadTypeOK
<1>2. Whole \in {2, 4} /\ \A i \in 1..Whole : legs[i].strike \in Nat /\ legs[i].right = RightOf(i)
  BY CostedIsWhole
<1>3. RightOf(1) \in Rights /\ RightOf(2) = RightOf(1)
  BY DEF RightOf, Rights
<1>4. Whole = 4 => RightOf(1) = "P" /\ RightOf(3) = "C" /\ RightOf(4) = "C"
  BY DEF RightOf, Whole
<1>5. CASE Whole = 2
  <2>1. /\ Built = {RightOf(1)}
        /\ Leg(RightOf(1), "SELL") = legs[1] /\ Leg(RightOf(1), "BUY") = legs[2]
    BY <1>5, SidesOfPlan
  <2>2. RightOf(1) = "P" => legs[1].strike - legs[2].strike = want.width
    BY <2>1 DEF AsAsked
  <2>3. RightOf(1) = "C" => legs[2].strike - legs[1].strike = want.width
    BY <2>1 DEF AsAsked
  <2> QED
    BY <1>1, <1>2, <1>3, <1>5, <2>2, <2>3
<1>6. CASE Whole = 4
  <2>1. /\ Built = Rights
        /\ Leg("P", "SELL") = legs[1] /\ Leg("P", "BUY") = legs[2]
        /\ Leg("C", "SELL") = legs[3] /\ Leg("C", "BUY") = legs[4]
    BY <1>6, SidesOfPlan
  <2>2. /\ legs[1].strike - legs[2].strike = want.width
        /\ legs[4].strike - legs[3].strike = want.width
        /\ legs[1].strike <= legs[3].strike
    BY <2>1 DEF AsAsked, Rights
  <2> QED
    BY <1>1, <1>2, <1>3, <1>4, <1>6, <2>2
<1> QED
  BY <1>2, <1>5, <1>6

\* No settlement costs more than the width: at most one side is breached.
LEMMA OwedAtMostWidth ==
  ASSUME SpreadInv, Costed, AsAsked, NEW x \in Nat
  PROVE  /\ OwedAt(x) \in Int /\ OwedAt(x) <= want.width
         /\ x = 0 /\ RightOf(1) = "P" => OwedAt(x) = want.width
         /\ x = legs[2].strike /\ RightOf(1) = "C" => OwedAt(x) = want.width
<1> DEFINE n == want.width
           v(i) == Intrinsic(legs[i], x)
           d == v(1) - v(2)
           e == v(3) - v(4)
           k(i) == legs[i].strike
<1>1. /\ n \in Nat /\ \A i \in 1..Whole : k(i) \in Nat /\ legs[i].right = RightOf(i)
      /\ RightOf(1) \in Rights /\ RightOf(2) = RightOf(1)
      /\ RightOf(1) = "P" => k(1) - k(2) = n
      /\ RightOf(1) = "C" => k(2) - k(1) = n
      /\ Whole = 4 => /\ RightOf(1) = "P" /\ RightOf(3) = "C" /\ RightOf(4) = "C"
                      /\ k(4) - k(3) = n /\ k(1) <= k(3)
  BY PairsAsAsked
<1>2. Whole \in {2, 4}
  BY CostedIsWhole
<1>3. k(1) \in Nat /\ k(2) \in Nat /\ legs[1].right = RightOf(1) /\ legs[2].right = RightOf(1)
  BY <1>1, <1>2
<1>4. /\ v(1) \in Int /\ v(2) \in Int /\ 0 <= d /\ d <= n
      /\ RightOf(1) = "P" /\ x >= k(1) => d = 0
      /\ RightOf(1) = "P" /\ x = 0 => d = n
      /\ RightOf(1) = "C" /\ x = k(2) => d = n
  BY <1>1, <1>3, SideOwes
<1>5. CASE Whole = 2
  <2>1. OwedAt(x) = d
    BY <1>4, <1>5, OwedOfPlan
  <2> HIDE DEF n, v, k
  <2>2. OwedAt(x) \in Int
    BY <1>4, <2>1
  <2> HIDE DEF d
  <2>3. /\ OwedAt(x) \in Int /\ OwedAt(x) <= n
        /\ x = 0 /\ RightOf(1) = "P" => OwedAt(x) = n
        /\ x = k(2) /\ RightOf(1) = "C" => OwedAt(x) = n
    BY <1>4, <2>1, <2>2
  <2> QED
    BY <2>3 DEF n, k
<1>6. CASE Whole = 4
  <2>1. /\ k(3) \in Nat /\ k(4) \in Nat /\ legs[3].right = "C" /\ legs[4].right = "C"
        /\ k(4) - k(3) = n /\ k(1) <= k(3) /\ RightOf(1) = "P"
    BY <1>1, <1>6
  <2>2. /\ v(3) \in Int /\ v(4) \in Int /\ 0 <= e /\ e <= n
        /\ x <= k(3) => e = 0
    BY <1>1, <2>1, SideOwes DEF Rights
  <2>3. OwedAt(x) = d + e
    <3>1. \A i \in 1..Whole : v(i) \in Int
      BY <1>4, <1>6, <2>2
    <3> QED
      BY <1>6, <3>1, OwedOfPlan
  <2>4. d \in Int /\ e \in Int
    <3> HIDE DEF v
    <3> QED
      BY <1>4, <2>2
  <2>5. x >= k(1) \/ x <= k(3)
    <3> HIDE DEF k
    <3> QED
      BY <1>3, <2>1
  <2>6. x = 0 => x <= k(3)
    <3> HIDE DEF k
    <3> QED
      BY <2>1
  <2> HIDE DEF n, d, e, k
  <2>7. /\ OwedAt(x) \in Int /\ OwedAt(x) <= n
        /\ x = 0 => OwedAt(x) = n
    BY <1>1, <1>4, <2>1, <2>2, <2>3, <2>4, <2>5, <2>6
  <2> QED
    BY <2>1, <2>7 DEF n
<1> QED
  BY <1>2, <1>5, <1>6

LEMMA WorstIsWidthLessCredit ==
  ASSUME SpreadInv, Costed, AsAsked
  PROVE  cost.lot = WorstLoss
<1> DEFINE n == want.width
           M == {OwedAt(x) - Credit : x \in 0..Max(Strikes)}
<1>1. /\ Whole \in {2, 4} /\ SpreadTypeOK /\ LegsAreCounted /\ LegsArePlanned /\ Len(legs) = Whole
      /\ legs[2].strike \in Strikes
  BY CostedIsWhole
<1>2. Max(Strikes) \in Strikes /\ (\A s \in Strikes : s <= Max(Strikes)) /\ Max(Strikes) \in Nat
  BY <1>1, HighestStrike, SpreadAssumption
<1>3. n \in Nat /\ RightOf(1) \in Rights
  BY PairsAsAsked
<1>4. Credit \in Int /\ cost.lot = LotLoss
  <2>1. cost.credit = Credit /\ cost.lot = LotLoss /\ cost.credit \in Int
    BY DEF SpreadInv, CostIsOfLegs, SpreadTypeOK
  <2> QED
    BY <2>1
<1>5. \A x \in 0..Max(Strikes) : OwedAt(x) \in Int /\ OwedAt(x) <= n
  <2> TAKE x \in 0..Max(Strikes)
  <2>1. x \in Nat
    BY <1>2
  <2> QED
    BY <2>1, OwedAtMostWidth
<1>6. \E x \in 0..Max(Strikes) : OwedAt(x) = n
  <2>1. CASE RightOf(1) = "P"
    <3>1. 0 \in 0..Max(Strikes) /\ OwedAt(0) = n
      BY <1>2, <2>1, OwedAtMostWidth
    <3> QED
      BY <3>1
  <2>2. CASE RightOf(1) = "C"
    <3> DEFINE w == legs[2].strike
    <3>1. w \in Nat /\ w <= Max(Strikes)
      BY <1>1, <1>2, SpreadAssumption
    <3>2. OwedAt(w) = n
      BY <2>2, <3>1, OwedAtMostWidth
    <3>3. w \in 0..Max(Strikes)
      BY <1>2, <3>1
    <3> QED
      BY <3>2, <3>3
  <2> QED
    BY <1>3, <2>1, <2>2 DEF Rights
<1>7. M \in SUBSET Int /\ n - Credit \in M /\ \A y \in M : n - Credit >= y
  <2>1. \A x \in 0..Max(Strikes) : OwedAt(x) - Credit \in Int /\ n - Credit >= OwedAt(x) - Credit
    BY <1>3, <1>4, <1>5
  <2>2. n - Credit \in M
    BY <1>6
  <2> QED
    BY <2>1, <2>2
<1>8. Max(M) = n - Credit
  <2> HIDE DEF M, n
  <2> QED
    BY <1>7, LargestIsMax
<1> QED
  BY <1>4, <1>8 DEF LotLoss, WorstLoss

\* "Max loss per spread = (width - credit) x multiplier" (BuildSpread): when the
\* wings are where they were asked for, no settlement loses more than the plan
\* states, and some settlement loses it.
THEOREM LossIsStated == SpreadSpec => []StatedLoss
<1>1. SpreadInv => StatedLoss
  BY WorstIsWidthLessCredit DEF StatedLoss
<1> QED
  BY <1>1, SpreadInvariance, PTL

-----------------------------------------------------------------------------
(* No settlement loses much more than what is stated *)

\* What the reach of the search says of the strikes of a plan: each wing is
\* near its short leg's strike, less or plus the width, and the short legs
\* of a condor are near the spot, or on their own sides of it.
LEMMA StrikesOfPlan ==
  ASSUME SpreadInv, Costed
  PROVE  /\ Whole \in {2, 4} /\ Span \in Nat /\ want.width \in Nat
         /\ \A i \in 1..Whole : legs[i].strike \in Nat /\ legs[i].right = RightOf(i)
         /\ RightOf(1) \in Rights /\ RightOf(2) = RightOf(1)
         /\ RightOf(1) = "P" => 2 * (legs[1].strike - legs[2].strike) <= 2 * want.width + Span
         /\ RightOf(1) = "C" => 2 * (legs[2].strike - legs[1].strike) <= 2 * want.width + Span
         /\ Whole = 4 => /\ RightOf(1) = "P" /\ RightOf(3) = "C" /\ RightOf(4) = "C"
                         /\ 2 * (legs[4].strike - legs[3].strike) <= 2 * want.width + Span
                         /\ 2 * (legs[1].strike - legs[3].strike) <= 2 * Span
<1> DEFINE n == want.width
           k(i) == legs[i].strike
<1>1. n \in Nat /\ want.spot \in Nat /\ want.otm \in Nat
  BY SpreadAssumption DEF SpreadInv, SpreadTypeOK
<1>2. Span \in Nat
  BY SpreadAssumption DEF Span
<1>3. /\ Whole \in {2, 4}
      /\ \A i \in 1..Whole : k(i) \in Nat /\ legs[i].right = RightOf(i) /\ Near(k(i), Target(i))
  BY CostedIsWhole
<1>4. RightOf(1) \in Rights /\ RightOf(2) = RightOf(1)
  BY DEF RightOf, Rights
<1>5. /\ Target(1) = OutOf(RightOf(1), want.spot, want.otm)
      /\ Target(2) = OutOf(RightOf(1), k(1), n)
  BY <1>4 DEF Target
<1>6. k(1) \in Nat /\ k(2) \in Nat /\ Near(k(1), Target(1)) /\ Near(k(2), Target(2))
  BY <1>3
<1>7. /\ RightOf(1) = "P" => 2 * (k(1) - k(2)) <= 2 * n + Span
      /\ RightOf(1) = "C" => 2 * (k(2) - k(1)) <= 2 * n + Span
  <2>1. CASE RightOf(1) = "P"
    <3>1. 2 * (k(1) - n - k(2)) <= Span
      BY <1>5, <1>6, <2>1 DEF Near, OutOf
    <3> HIDE DEF n, k
    <3> QED
      BY <1>1, <1>2, <1>6, <2>1, <3>1
  <2>2. CASE RightOf(1) = "C"
    <3>1. 2 * (k(2) - (k(1) + n)) <= Span
      BY <1>5, <1>6, <2>2 DEF Near, OutOf
    <3> HIDE DEF n, k
    <3> QED
      BY <1>1, <1>2, <1>6, <2>2, <3>1
  <2> QED
    BY <1>4, <2>1, <2>2 DEF Rights
<1>8. ASSUME Whole = 4
      PROVE  /\ RightOf(1) = "P" /\ RightOf(3) = "C" /\ RightOf(4) = "C"
             /\ 2 * (k(4) - k(3)) <= 2 * n + Span
             /\ 2 * (k(1) - k(3)) <= 2 * Span
  <2>1. RightOf(1) = "P" /\ RightOf(3) = "C" /\ RightOf(4) = "C"
    BY <1>8 DEF RightOf, Whole
  <2>2. k(3) \in Nat /\ k(4) \in Nat /\ Near(k(3), Target(3)) /\ Near(k(4), Target(4))
    BY <1>3, <1>8
  <2>3. /\ Target(1) = want.spot - want.otm /\ Target(3) = want.spot + want.otm
        /\ Target(4) = k(3) + n
    BY <1>5, <2>1 DEF Target, OutOf
  <2>4. /\ 2 * (k(1) - (want.spot - want.otm)) <= Span
        /\ 2 * ((want.spot + want.otm) - k(3)) <= Span
        /\ 2 * (k(4) - (k(3) + n)) <= Span
    <3>1. 2 * (k(1) - Target(1)) <= Span /\ 2 * (Target(3) - k(3)) <= Span
          /\ 2 * (k(4) - Target(4)) <= Span
      BY <1>6, <2>2 DEF Near
    <3> QED
      BY <2>3, <3>1, Zenon
  <2> HIDE DEF n, k
  <2>5. 2 * (k(4) - k(3)) <= 2 * n + Span
    BY <1>1, <1>2, <2>2, <2>4
  <2>6. 2 * (k(1) - k(3)) <= 2 * Span
    BY <1>1, <1>2, <1>6, <2>2, <2>4
  <2> QED
    BY <2>1, <2>5, <2>6
<1> QED
  BY <1>1, <1>2, <1>3, <1>4, <1>7, <1>8

\* What a pair of legs costs when x is settled: no more than its strikes are
\* apart, and no more than its short leg is in the money.
LEMMA PairOwes ==
  ASSUME NEW x \in Nat, NEW s, NEW w,
         s.strike \in Nat, w.strike \in Nat, s.right \in Rights, w.right = s.right
  PROVE  LET d == Intrinsic(s, x) - Intrinsic(w, x)
             apart == IF s.right = "P" THEN s.strike - w.strike ELSE w.strike - s.strike
             breach == IF s.right = "P" THEN s.strike - x ELSE x - s.strike
         IN /\ Intrinsic(s, x) \in Int /\ Intrinsic(w, x) \in Int
            /\ d <= 0 \/ d <= apart
            /\ d <= 0 \/ d <= breach
<1> DEFINE a == s.strike
           b == w.strike
           i == Intrinsic(s, x)
           j == Intrinsic(w, x)
<1>1. a \in Nat /\ b \in Nat
  OBVIOUS
<1>2. CASE s.right = "P"
  <2>1. i = Max({0, a - x}) /\ j = Max({0, b - x})
    BY <1>2 DEF Intrinsic
  <2>2. i = (IF a - x > 0 THEN a - x ELSE 0) /\ j = (IF b - x > 0 THEN b - x ELSE 0)
    BY <1>1, <2>1, MaxOfTwo
  <2> HIDE DEF a, b, i, j
  <2>3. /\ i \in Int /\ j \in Int
        /\ i - j <= 0 \/ i - j <= a - b
        /\ i - j <= 0 \/ i - j <= a - x
    BY <1>1, <2>2
  <2> QED
    BY <1>2, <2>3 DEF a, b, i, j
<1>3. CASE s.right = "C"
  <2>1. i = Max({0, x - a}) /\ j = Max({0, x - b})
    BY <1>3 DEF Intrinsic
  <2>2. i = (IF x - a > 0 THEN x - a ELSE 0) /\ j = (IF x - b > 0 THEN x - b ELSE 0)
    BY <1>1, <2>1, MaxOfTwo
  <2> HIDE DEF a, b, i, j
  <2>3. /\ i \in Int /\ j \in Int
        /\ i - j <= 0 \/ i - j <= b - a
        /\ i - j <= 0 \/ i - j <= x - a
    BY <1>1, <2>2
  <2> QED
    BY <1>3, <2>3 DEF a, b, i, j
<1> QED
  BY <1>2, <1>3 DEF Rights

\* No settlement costs more than the width and half a span for each side.
LEMMA OwedWithinReach ==
  ASSUME SpreadInv, Costed, NEW x \in Nat
  PROVE  OwedAt(x) \in Int /\ 2 * OwedAt(x) <= 2 * want.width + (Whole \div 2) * Span
<1> DEFINE n == want.width
           v(i) == Intrinsic(legs[i], x)
           d == v(1) - v(2)
           e == v(3) - v(4)
           k(i) == legs[i].strike
<1>1. /\ Whole \in {2, 4} /\ Span \in Nat /\ n \in Nat
      /\ \A i \in 1..Whole : k(i) \in Nat /\ legs[i].right = RightOf(i)
      /\ RightOf(1) \in Rights /\ RightOf(2) = RightOf(1)
      /\ RightOf(1) = "P" => 2 * (k(1) - k(2)) <= 2 * n + Span
      /\ RightOf(1) = "C" => 2 * (k(2) - k(1)) <= 2 * n + Span
      /\ Whole = 4 => /\ RightOf(1) = "P" /\ RightOf(3) = "C" /\ RightOf(4) = "C"
                      /\ 2 * (k(4) - k(3)) <= 2 * n + Span
                      /\ 2 * (k(1) - k(3)) <= 2 * Span
  BY StrikesOfPlan
<1>2. k(1) \in Nat /\ k(2) \in Nat /\ legs[1].right = RightOf(1) /\ legs[2].right = RightOf(1)
  BY <1>1
<1>3. /\ v(1) \in Int /\ v(2) \in Int
      /\ d <= 0 \/ d <= (IF RightOf(1) = "P" THEN k(1) - k(2) ELSE k(2) - k(1))
      /\ d <= 0 \/ d <= (IF RightOf(1) = "P" THEN k(1) - x ELSE x - k(1))
  BY <1>1, <1>2, PairOwes
<1>4. d \in Int
  BY <1>3
<1>5. CASE Whole = 2
  <2>1. OwedAt(x) = d
    <3>1. \A i \in 1..Whole : v(i) \in Int
      BY <1>3, <1>5
    <3> QED
      BY <1>5, <3>1, OwedOfPlan
  <2>2. 2 * d <= 2 * n + Span
    <3> HIDE DEF n, d, k
    <3>1. CASE RightOf(1) = "P"
      BY <1>1, <1>2, <1>3, <1>4, <3>1
    <3>2. CASE RightOf(1) = "C"
      BY <1>1, <1>2, <1>3, <1>4, <3>2
    <3> QED
      BY <1>1, <3>1, <3>2 DEF Rights
  <2>3. Whole \div 2 = 1
    BY <1>5
  <2> HIDE DEF n, d
  <2> QED
    BY <1>1, <1>4, <2>1, <2>2, <2>3 DEF n
<1>6. CASE Whole = 4
  <2>1. /\ k(3) \in Nat /\ k(4) \in Nat /\ legs[3].right = "C" /\ legs[4].right = "C"
        /\ RightOf(1) = "P"
        /\ 2 * (k(4) - k(3)) <= 2 * n + Span
        /\ 2 * (k(1) - k(3)) <= 2 * Span
    BY <1>1, <1>6
  <2>2. /\ v(3) \in Int /\ v(4) \in Int
        /\ e <= 0 \/ e <= k(4) - k(3)
        /\ e <= 0 \/ e <= x - k(3)
    BY <2>1, PairOwes DEF Rights
  <2>3. OwedAt(x) = d + e
    <3>1. \A i \in 1..Whole : v(i) \in Int
      BY <1>3, <1>6, <2>2
    <3> QED
      BY <1>6, <3>1, OwedOfPlan
  <2>4. e \in Int
    BY <2>2
  <2>5. /\ d <= 0 \/ d <= k(1) - k(2)
        /\ d <= 0 \/ d <= k(1) - x
        /\ 2 * (k(1) - k(2)) <= 2 * n + Span
    BY <1>1, <1>3, <2>1
  <2> HIDE DEF n, d, e, k
  <2>6. 2 * (d + e) <= 2 * n + 2 * Span
    <3>1. CASE d <= 0
      BY <1>1, <1>4, <2>1, <2>2, <2>4, <3>1
    <3>2. CASE e <= 0
      BY <1>1, <1>2, <1>4, <2>4, <2>5, <3>2
    <3>3. CASE d > 0 /\ e > 0
      <4>1. d <= k(1) - x /\ e <= x - k(3)
        BY <1>4, <2>2, <2>4, <2>5, <3>3
      <4>2. d + e <= k(1) - k(3)
        BY <1>2, <1>4, <2>1, <2>4, <4>1
      <4> QED
        BY <1>1, <1>2, <1>4, <2>1, <2>4, <4>2
    <3> QED
      BY <1>4, <2>4, <3>1, <3>2, <3>3
  <2>7. Whole \div 2 = 2
    BY <1>6
  <2> QED
    BY <1>1, <1>4, <2>3, <2>4, <2>6, <2>7 DEF n
<1> QED
  BY <1>1, <1>5, <1>6

LEMMA WorstIsWithinReach ==
  ASSUME SpreadInv, Costed
  PROVE  2 * (WorstLoss - cost.lot) <= (Len(legs) \div 2) * (2 * Reach + 1) * Step * want.multiplier
<1> DEFINE n == want.width
           r == (Whole \div 2) * Span
           c == Credit
           m == want.multiplier
           M == {OwedAt(x) - c : x \in 0..Max(Strikes)}
           worst == Max(M)
<1>1. Whole \in {2, 4} /\ Len(legs) = Whole /\ legs[2].strike \in Strikes
  BY CostedIsWhole
<1>2. Max(Strikes) \in Nat
  <2>1. Max(Strikes) \in Strikes
    BY <1>1, HighestStrike
  <2> QED
    BY <2>1, SpreadAssumption
<1>3. n \in Nat /\ m \in Nat /\ Span \in Nat /\ Whole \div 2 \in Nat
  <2>1. n \in Nat /\ m \in Nat
    BY SpreadAssumption DEF SpreadInv, SpreadTypeOK
  <2>2. Whole \div 2 \in Nat
    BY <1>1
  <2> QED
    BY <2>1, <2>2, StrikesOfPlan
<1>4. r \in Nat
  BY <1>3
<1>5. c \in Int /\ cost.lot = LotLoss
  <2>1. cost.credit = Credit /\ cost.lot = LotLoss /\ cost.credit \in Int
    BY DEF SpreadInv, CostIsOfLegs, SpreadTypeOK
  <2> QED
    BY <2>1
<1>6. \A x \in 0..Max(Strikes) : OwedAt(x) \in Int /\ 2 * OwedAt(x) <= 2 * n + r
  <2> TAKE x \in 0..Max(Strikes)
  <2>1. x \in Nat
    BY <1>2
  <2> QED
    BY <2>1, OwedWithinReach
<1>7. M \in SUBSET Int /\ M # {} /\ \A y \in M : 2 * y <= 2 * n + r - 2 * c
  <2>1. 0 \in 0..Max(Strikes)
    BY <1>2
  <2>2. \A x \in 0..Max(Strikes) :
          OwedAt(x) - c \in Int /\ 2 * (OwedAt(x) - c) <= 2 * n + r - 2 * c
    <3> HIDE DEF n, r, c
    <3> QED
      BY <1>3, <1>4, <1>5, <1>6
  <2> HIDE DEF n, r, c
  <2> QED
    BY <2>1, <2>2
<1>8. IsFiniteSet(M)
  <2> DEFINE X == 0..Max(Strikes)
             f == [x \in X |-> OwedAt(x) - c]
  <2>1. IsFiniteSet(X)
    BY <1>2, FS_Interval, 0 \in Int
  <2>2. \A x \in X : f[x] = OwedAt(x) - c
    OBVIOUS
  <2>3. M = {f[x] : x \in X}
    BY <2>2
  <2>4. DOMAIN f = X /\ f = [x \in X |-> f[x]]
    OBVIOUS
  <2> HIDE DEF X, f, M
  <2>5. f \in [X -> M] /\ \A y \in M : \E x \in X : f[x] = y
    BY <2>3, <2>4
  <2>6. f \in Surjection(X, M)
    BY <2>5 DEF Surjection
  <2> QED
    BY <2>1, <2>6, FS_Surjection
<1>9. worst \in Int /\ 2 * worst <= 2 * n + r - 2 * c
  <2>1. Max(M) \in M
    <3> HIDE DEF M
    <3> QED
      BY <1>7, <1>8, LargestExists
  <2> HIDE DEF M
  <2> QED
    BY <1>7, <2>1
<1>10. WorstLoss = worst * m /\ cost.lot = (n - c) * m
  BY <1>5 DEF WorstLoss, LotLoss
<1>11. (Len(legs) \div 2) * (2 * Reach + 1) * Step * want.multiplier = r * m
  <2> DEFINE h == Whole \div 2
  <2>1. h \in Nat /\ Reach \in Nat /\ Step \in Nat /\ m \in Nat
    BY <1>3, SpreadAssumption
  <2> HIDE DEF h, m
  <2>2. h * (2 * Reach + 1) * Step * m = (h * ((2 * Reach + 1) * Step)) * m
    BY <2>1
  <2> QED
    BY <1>1, <2>2 DEF Span, h, m
<1> HIDE DEF n, r, c, m, worst
<1>12. 2 * (worst - (n - c)) <= r
  BY <1>3, <1>4, <1>5, <1>9
<1>13. 2 * (worst * m - (n - c) * m) <= r * m
  <2> DEFINE t == worst - (n - c)
  <2>1. t \in Int /\ worst * m - (n - c) * m = t * m
    BY <1>3, <1>5, <1>9
  <2>2. (2 * t) * m <= r * m
    <3>1. 2 * t \in Int /\ 2 * t <= r
      BY <1>12, <2>1
    <3> HIDE DEF t
    <3> QED
      BY <1>3, <1>4, <3>1
  <2> HIDE DEF t
  <2> QED
    BY <1>3, <2>1, <2>2
<1>14. 2 * (WorstLoss - cost.lot) = 2 * (worst * m - (n - c) * m)
  BY <1>10
<1> QED
  BY <1>11, <1>13, <1>14, Zenon

\* Wherever the search for quotes ends and whatever the quotes say (BuildSpread
\* with findPricedStrike), no settlement loses more than the plan states by more
\* than the search moves a strike, for each side.
THEOREM LossIsWithinReach == SpreadSpec => []LossIsBounded
<1>1. SpreadInv => LossIsBounded
  BY WorstIsWithinReach DEF LossIsBounded
<1> QED
  BY <1>1, SpreadInvariance, PTL

=============================================================================
