--------------------------- MODULE SpreadBuilder ---------------------------
(***************************************************************************)
(* services/riskengine.go and the tools build_spread and place_combo_order *)
(* of services/agent_tools.go: a credit spread is chosen strike by strike  *)
(* from live quotes, costed, checked and sent as one bag by                *)
(* PlaceComboOrder of services/ibkr_trading.go.  Strikes and prices are    *)
(* whole points, money is points times the multiplier.                     *)
(***************************************************************************)
EXTENDS Integers, Sequences, FiniteSetsExt

CONSTANTS
  Step,        \* 50: the strike grid
  Reach,       \* 8: grid steps findPricedStrike looks to either side
  Strikes,     \* the strikes that may have a quote
  Mids,        \* the mids a usable quote may have
  Criteria,    \* what the model asks for, and the account it asks it with
  MaxLossPct,  \* Permissions.MaxPositionPct
  MaxLossEUR   \* Permissions.MaxOrderValue: 0 is no limit

Rights == {"P", "C"}
Strategies == {"put_credit_spread", "call_credit_spread", "iron_condor"}
Actions == {"BUY", "SELL"}

ASSUME SpreadAssumption ==
  /\ Step \in Nat \ {0} /\ Reach \in Nat
  /\ Strikes \subseteq Nat \ {0} /\ IsFiniteSet(Strikes)
  /\ Mids \subseteq Nat \ {0}
  /\ Criteria \subseteq [strategy : Strategies, spot : Nat, otm : Nat, width : Nat,
                         budgetPct : Nat, portfolio : Nat, multiplier : Nat \ {0}]
  /\ MaxLossPct \in Nat /\ MaxLossEUR \in Nat

VARIABLES
  want,      \* SpreadCriteria
  building,  \* how far the order is
  legs,      \* plan.Legs
  cost,      \* plan.CreditPts, the loss of a lot and plan.Qty
  verdict,   \* CheckSpreadRisk passed
  bag        \* the order as it was sent

spreadVars == <<want, building, legs, cost, verdict, bag>>

NoBag == [action |-> "none", legs |-> <<>>, limit |-> 0]
LegType == [right : Rights, action : Actions, strike : Int, mid : Int]

SpreadTypeOK ==
  /\ want \in Criteria
  /\ building \in {"short", "wing", "legged", "costed", "placing", "sent", "refused"}
  /\ legs \in Seq(LegType)
  /\ cost \in [credit : Int, lot : Int, qty : Nat]
  /\ verdict \in BOOLEAN
  /\ bag.action \in Actions \union {"none"} /\ bag.limit \in Int

SpreadInit ==
  /\ want \in Criteria
  /\ building = "short"
  /\ legs = <<>>
  /\ cost = [credit |-> 0, lot |-> 0, qty |-> 0]
  /\ verdict = FALSE
  /\ bag = NoBag

Refuse == building' = "refused" /\ UNCHANGED <<want, legs, cost, verdict, bag>>

-----------------------------------------------------------------------------
(* build_spread *)

\* math.Round(target / Step) * Step: halves away from zero.
Snap(target) ==
  IF target >= 0 THEN ((2 * target + Step) \div (2 * Step)) * Step
  ELSE -(((Step - 2 * target) \div (2 * Step)) * Step)

\* findPricedStrike walks outward from the target to the first usable quote.
\* Any strike in reach may be it, at any mid: each quote is asked for on its
\* own, with a timeout, while the market moves, and those before it may have
\* come too late.
InReach(target) == {s \in Strikes : \E i \in -Reach..Reach : s = Snap(target) + i * Step}

\* The side that is built next: a condor has its puts, then its calls.
Side == IF want.strategy = "call_credit_spread" \/ Len(legs) >= 2 THEN "C" ELSE "P"

\* Further out of the money by n points.
Out(from, n) == IF Side = "P" THEN from - n ELSE from + n

ShortTarget == Out(want.spot, want.otm)

\* A leg at one of the strikes, at the mid of the quote that was found there.
AddLeg(action, strikes, next) ==
  /\ \E s \in strikes, m \in Mids :
       legs' = Append(legs, [right |-> Side, action |-> action, strike |-> s, mid |-> m])
  /\ building' = next
  /\ UNCHANGED <<want, cost, verdict, bag>>

FindShort ==
  /\ building = "short"
  /\ \/ AddLeg("SELL", InReach(ShortTarget), "wing")
     \/ Refuse

\* Mutant: the wing is looked for around the target of the short strike.
WingTarget_FromSpot == Out(ShortTarget, want.width)

\* The wing is looked for around the short strike that was found.
WingTarget == Out(legs[Len(legs)].strike, want.width)

\* The wing may not be the short strike itself.
FindWing ==
  /\ building = "wing"
  /\ LET short == legs[Len(legs)].strike
         whole == Len(legs) = 3 \/ want.strategy # "iron_condor"
     IN
     \/ AddLeg("BUY", InReach(WingTarget) \ {short}, IF whole THEN "legged" ELSE "short")
     \/ Refuse

\* The credit of the legs, per spread.
Credit ==
  LET received(i) == IF legs[i].action = "SELL" THEN legs[i].mid ELSE -legs[i].mid
  IN MapThenSumSet(received, DOMAIN legs)

\* Mutant: both sides of a condor are counted.
LotLoss_BothSides ==
  (want.width * (Len(legs) \div 2) - Credit) * want.multiplier

\* Width less credit: only one side of a condor can be breached.
LotLoss == (want.width - Credit) * want.multiplier

\* A portfolio that GetAccount could not tell is 0, and leaves no budget.
RiskBudget == (want.portfolio * want.budgetPct) \div 100

\* A debit, or a spread without a loss, is refused; the budget buys lots.
CostSpread ==
  /\ building = "legged"
  /\ IF Credit <= 0 \/ LotLoss <= 0 THEN Refuse
     ELSE /\ cost' = [credit |-> Credit, lot |-> LotLoss,
                      qty |-> IF RiskBudget > 0 THEN RiskBudget \div LotLoss ELSE 1]
          /\ building' = "costed"
          /\ UNCHANGED <<want, legs, verdict, bag>>

\* plan.MaxLossEUR.
MaxLoss == cost.lot * cost.qty

\* CheckSpreadRisk; the model places what passed.
CheckSpreadRisk ==
  /\ building = "costed"
  /\ verdict' = /\ cost.qty >= 1
                /\ want.portfolio > 0
                /\ 100 * MaxLoss <= MaxLossPct * want.portfolio
                /\ MaxLossEUR > 0 => MaxLoss <= MaxLossEUR
  /\ building' = IF verdict' THEN "placing" ELSE "refused"
  /\ UNCHANGED <<want, legs, cost, bag>>

-----------------------------------------------------------------------------
(* place_combo_order, with the legs of the plan and its suggested price *)

\* The contract the gateway knows a leg by.
Contract(leg) == [right |-> leg.right, strike |-> leg.strike]
Contracts == {Contract(legs[i]) : i \in DOMAIN legs}
              \union {[right |-> r, strike |-> legs[1].strike] : r \in Rights}

LegContractMatches(leg, found) == found = Contract(leg)

\* Mutant: the action of the order is sent, as it once was.
BagAction_AsOrdered(orderAction) == orderAction

BagAction(orderAction) == "BUY"

\* PlaceComboOrder: every leg must resolve to what was asked for; the gateway
\* may return another contract for leg i.  The bag is bought whatever action
\* the model gave the order: the price has the sign.
PlaceComboOrder ==
  /\ building = "placing"
  /\ \E i \in DOMAIN legs, other \in Contracts, orderAction \in Actions :
       LET found == [[j \in DOMAIN legs |-> Contract(legs[j])] EXCEPT ![i] = other] IN
       IF \E j \in DOMAIN legs : ~LegContractMatches(legs[j], found[j]) THEN Refuse
       ELSE /\ bag' = [action |-> BagAction(orderAction), limit |-> -cost.credit,
                       legs |-> [j \in DOMAIN legs |-> [contract |-> found[j], action |-> legs[j].action]]]
            /\ building' = "sent"
            /\ UNCHANGED <<want, legs, cost, verdict>>

SpreadNext == FindShort \/ FindWing \/ CostSpread \/ CheckSpreadRisk \/ PlaceComboOrder

SpreadSpec == SpreadInit /\ [][SpreadNext]_spreadVars

-----------------------------------------------------------------------------
(* Properties *)

Costed == building \in {"costed", "placing", "sent"}
Leg(right, action) == CHOOSE l \in {legs[i] : i \in DOMAIN legs} : l.right = right /\ l.action = action
Built == {legs[i].right : i \in DOMAIN legs}

\* What the legs cost at expiry, per spread, when the underlying settles at x.
OwedAt(x) ==
  LET intrinsic(l) == IF l.right = "P" THEN Max({0, l.strike - x}) ELSE Max({0, x - l.strike})
      owes(i) == IF legs[i].action = "SELL" THEN intrinsic(legs[i]) ELSE -intrinsic(legs[i])
  IN MapThenSumSet(owes, DOMAIN legs)

WorstLoss == Max({OwedAt(x) - Credit : x \in 0..Max(Strikes)}) * want.multiplier

\* Wings as wide as asked for, on their own sides of the short strikes.
AsAsked ==
  /\ "P" \in Built => Leg("P", "SELL").strike - Leg("P", "BUY").strike = want.width
  /\ "C" \in Built => Leg("C", "BUY").strike - Leg("C", "SELL").strike = want.width
  /\ Built = Rights => Leg("P", "SELL").strike <= Leg("C", "SELL").strike

\* "Max loss per spread = (width - credit) x multiplier": when the wings are
\* where they were asked for, no settlement loses more and some loses it.
StatedLoss == (Costed /\ AsAsked) => cost.lot = WorstLoss

\* Wherever the search for quotes ends, and whatever the quotes say, no
\* settlement loses more than the stated loss by more than the search moves a
\* strike, Reach and a half grid steps, for each side (doubled here).
LossIsBounded ==
  Costed => 2 * (WorstLoss - cost.lot)
              <= (Len(legs) \div 2) * (2 * Reach + 1) * Step * want.multiplier

\* The gateway executes the legs of the plan, each with its own action, at the
\* plan's credit or better: the opposite of a leg is what a sold bag means.
ExecutedAsPlanned ==
  building = "sent" =>
    /\ [i \in DOMAIN bag.legs |->
          [right |-> bag.legs[i].contract.right, strike |-> bag.legs[i].contract.strike,
           action |-> IF bag.action = "BUY" THEN bag.legs[i].action
                      ELSE CHOOSE a \in Actions : a # bag.legs[i].action]]
       = [i \in DOMAIN legs |-> [right |-> legs[i].right, strike |-> legs[i].strike, action |-> legs[i].action]]
    /\ bag.limit = -Credit

\* "Size qty so max-loss <= this": the loss of the legs that were chosen stays
\* within the budget it was sized for.
BudgetIsKept ==
  (building = "placing" /\ RiskBudget > 0) => WorstLoss * cost.qty <= RiskBudget

\* "A long wing `width` further OTM": the wing of a vertical that is offered
\* lies further out of the money than its short strike.
WingIsOutside ==
  (Costed /\ want.strategy # "iron_condor") =>
    \A r \in Built : IF r = "P" THEN Leg(r, "BUY").strike < Leg(r, "SELL").strike
                     ELSE Leg(r, "BUY").strike > Leg(r, "SELL").strike

=============================================================================
