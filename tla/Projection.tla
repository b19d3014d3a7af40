------------------------------ MODULE Projection ------------------------------
(***************************************************************************)
(* The comparison engine: what a job and a life cost and pay, month by      *)
(* month over a horizon, on the two sides of a move.  A side is             *)
(* [job, items, home, tax, start, end]; labels, evidence and provenance are *)
(* left out, and so are currencies, of which there is one.                  *)
(***************************************************************************)
EXTENDS Shares, Months, SequencesExt

CONSTANTS
  Calculators,  \* the CalculatorNames, in their order
  Owner         \* category -> the calculator that owns it

Never == <<-1, 0>>   \* ends_before = None
NotOffered == -1     \* a part of an offer that is None

Item(category, flow, period, amount, starts) ==
  [category |-> category, flow |-> flow, period |-> period, amount |-> amount,
   starts |-> starts, ends |-> Never, shared |-> FALSE, inherited |-> FALSE]

Impact(code, by, period, starts, cash, wealth, hours) ==
  [code |-> code, by |-> by, period |-> period, starts |-> starts, ends |-> Never,
   cash |-> cash, wealth |-> wealth, hours |-> hours]

-----------------------------------------------------------------------------
\* CostItemCalculator: one impact per owned item, its sign applied here.
Owned(name, items) == SelectSeq(items, LAMBDA item : Owner[item.category] = name)

BurdenOf(item, home) == IF item.shared THEN ShareOf(home, item.amount) ELSE Exactly(item.amount)

CostImpact(item, home, name, index) ==
  [Impact(<<item.category, item.inherited, index>>, name, item.period, item.starts,
          -BurdenOf(item, home).amount, 0, 0)
   EXCEPT !.ends = item.ends]

CostImpacts(name, side) ==
  LET items == Owned(name, side.items)
  IN [i \in 1..Len(items) |-> CostImpact(items[i], side.home, name, i)]

\* An AllocationError in a calculator leaves calculate without a result.
CostsCanBeSplit(side) == \A i \in 1..Len(side.items) : BurdenOf(side.items[i], side.home).ok

\* NetPayOverrideTaxModel.after_tax_cash and after_tax_one_time.
Kept(tax, amount) == amount - Of(tax.marginal, amount)

AfterTax(tax, gross) ==
  LET net == tax.net + Kept(tax, gross - tax.gross)
  IN IF net > gross THEN gross ELSE IF net < 0 THEN 0 ELSE net

\* CompensationCalculator.
Paid(code, period, side, amount) ==
  IF amount = NotOffered THEN <<>>
  ELSE <<Impact(<<code>>, "LIVING", period, side.start, amount, 0, 0)>>

OneTimeNet(side, gross) == IF gross = NotOffered THEN NotOffered ELSE Kept(side.tax, gross)

ExpectedBonus(job) ==
  IF job.bonusRate = NotOffered THEN NotOffered
  ELSE Of(job.bonusChance, Of(job.bonusRate, job.salary))

PayImpacts(side) ==
  Paid("take_home_pay", "MONTHLY", side, AfterTax(side.tax, side.job.salary) \div MonthsPerYear)
  \o Paid("signing_bonus", "ONE_TIME", side, OneTimeNet(side, side.job.signing))
  \o Paid("target_bonus", "ANNUAL", side, OneTimeNet(side, ExpectedBonus(side.job)))
  \o Paid("relocation_reimbursement", "ONE_TIME", side, side.job.reimbursement)

\* RetirementMatch.annual_match: the cap is on the employee's contribution.
EmployerMatch(job) ==
  Of(job.matchRate, Of(IF job.saves < job.matchLimit THEN job.saves ELSE job.matchLimit, job.salary))

\* EmployerBenefitCalculator: employer money is wealth, the premium is cash.
BenefitImpacts(side) ==
  LET employer(code, amount) == Impact(<<code>>, "HEALTH", "ANNUAL", side.start, 0, amount, 0)
  IN <<employer("employer_retirement_match", EmployerMatch(side.job)),
       employer("employer_hsa_contribution", side.job.hsa),
       Impact(<<"employee_health_premium">>, "HEALTH", "MONTHLY", side.start,
              -side.job.premium, 0, 0)>>

\* EquityGrant.gross_vested_by and net_vested_by.
GrossVested(job, months) ==
  IF months < job.cliff THEN 0
  ELSE (job.equity * (IF months < job.vesting THEN months ELSE job.vesting)) \div job.vesting

EquityImpacts(side) ==
  IF side.job.equity = NotOffered THEN <<>>
  ELSE LET gross == GrossVested(side.job, MonthCount(side.start, side.end))
           held(code, wealth) ==
             Impact(<<code>>, "LIVING", "HORIZON_CUMULATIVE", side.start, 0, wealth, 0)
       IN <<held("vested_equity", gross - Of(side.job.withholding, gross)),
            held("unvested_equity", 0)>>

\* WorkSchedule.annual_commute_hours, in minutes, and CommuteTimeCalculator.
CommuteImpacts(side) ==
  LET minutes == side.job.onsite * side.job.weeks * side.job.minutes * 2
  IN IF minutes = 0 THEN <<>>
     ELSE <<Impact(<<"commute_time">>, "COMMUTE", "ANNUAL", side.start, 0, 0, minutes)>>

\* default_calculators, in their order.
Impacts(side) ==
  FlattenSeq([i \in 1..Len(Calculators) |-> CostImpacts(Calculators[i], side)])
  \o PayImpacts(side) \o BenefitImpacts(side) \o EquityImpacts(side) \o CommuteImpacts(side)

\* assert_categories_partitioned, when the engine is assembled.
CategoriesPartitioned ==
  \A category \in DOMAIN Owner : \E i \in 1..Len(Calculators) : Calculators[i] = Owner[category]

-----------------------------------------------------------------------------
\* ComparisonEngine._for_month.
HasEnded(impact, anchor) == impact.ends # Never /\ ~Before(anchor, impact.ends)

LandsIn(impact, anchor, index) ==
  \/ impact.starts[1] = anchor[1]
  \/ index = 1 /\ Before(impact.starts, anchor)

HasBegun(impact, anchor, index) == ~Before(anchor, impact.starts) \/ index = 1

\* Mutant: the month in which a cost ends is still charged.
IsActiveToTheEnd(impact, anchor, index) ==
  /\ impact.period # "HORIZON_CUMULATIVE"
  /\ impact.ends # Never => ~Before(impact.ends, anchor)
  /\ IF impact.period = "ONE_TIME" THEN LandsIn(impact, anchor, index)
     ELSE HasBegun(impact, anchor, index)

IsActive(impact, anchor, index) ==
  /\ impact.period # "HORIZON_CUMULATIVE"
  /\ ~HasEnded(impact, anchor)
  /\ IF impact.period = "ONE_TIME" THEN LandsIn(impact, anchor, index)
     ELSE HasBegun(impact, anchor, index)

MonthlyAmount(impact) ==
  IF impact.period = "ANNUAL" THEN impact.cash \div MonthsPerYear ELSE impact.cash

\* classify: every impact has one bucket.
Bucket(impact) ==
  IF impact.cash = 0 THEN "NOT_CASH"
  ELSE IF impact.period = "ONE_TIME" THEN "ONE_TIME"
  ELSE IF impact.cash > 0 THEN "INCOME" ELSE "SPENDING"

SumOf(impacts, Amount(_), Test(_)) ==
  FoldLeft(LAMBDA sum, impact : sum + (IF Test(impact) THEN Amount(impact) ELSE 0), 0, impacts)

\* _project: one month; the residual of reconcile is over the same impacts.
ProjectedMonth(impacts, anchor, index, opening) ==
  LET active == SelectSeq(impacts, LAMBDA impact : IsActive(impact, anchor, index))
      within(bucket) == SumOf(active, MonthlyAmount, LAMBDA impact : Bucket(impact) = bucket)
      stated == SumOf(active, MonthlyAmount, LAMBDA impact : Bucket(impact) # "NOT_CASH")
      bucketed == SumOf(active, MonthlyAmount, LAMBDA impact : MonthlyAmount(impact) # 0)
  IN [anchor |-> anchor, opening |-> opening, income |-> within("INCOME"),
      spending |-> within("SPENDING"), oneTime |-> within("ONE_TIME"),
      closing |-> opening + within("INCOME") + within("SPENDING") + within("ONE_TIME"),
      residual |-> bucketed - stated]

Project(impacts, anchors) ==
  FoldLeft(LAMBDA months, anchor :
             Append(months, ProjectedMonth(impacts, anchor, Len(months) + 1,
                                           IF months = <<>> THEN 0 ELSE Last(months).closing)),
           <<>>, anchors)

Always(impact) == TRUE

ResultOf(side, impacts, months) ==
  [ok |-> /\ CategoriesPartitioned /\ CostsCanBeSplit(side)
          /\ \A i \in 1..Len(months) : months[i].residual = 0,
   impacts |-> impacts, months |-> months,
   cash |-> IF months = <<>> THEN 0 ELSE Last(months).closing,
   wealth |-> SumOf(impacts, LAMBDA impact : impact.wealth, Always),
   minutes |-> SumOf(impacts, LAMBDA impact : impact.hours, Always)]

\* ComparisonEngine.calculate.
Calculate(side) ==
  LET impacts == Impacts(side)
  IN ResultOf(side, impacts, Project(impacts, Anchors(side.start, side.end)))

-----------------------------------------------------------------------------
\* inherit_costs_until_move.
Recurring(item) == item.flow = "RECURRING_CASH"

CoveredBefore(items, move) ==
  {items[i].category : i \in {j \in 1..Len(items) :
     Recurring(items[j]) /\ Before(items[j].starts, move)}}

Inherited(current, candidate, move) ==
  LET kept == SelectSeq(current, LAMBDA item :
                /\ Recurring(item) /\ Before(item.starts, move)
                /\ item.category \notin CoveredBefore(candidate, move))
  IN [i \in 1..Len(kept) |-> [kept[i] EXCEPT !.ends = move, !.inherited = TRUE]]

\* compare, and _with_inherited_costs for the solvers.
Moving(current, candidate, move) ==
  IF move = Never THEN candidate
  ELSE [candidate EXCEPT !.items = @ \o Inherited(current.items, candidate.items, move)]

\* _annual_contribution, and _first_year_amount of the derivation.
Annualised(impact) ==
  IF impact.period = "MONTHLY" THEN impact.cash * MonthsPerYear
  ELSE IF impact.period = "HORIZON_CUMULATIVE" THEN 0 ELSE impact.cash

\* _component_deltas: a code on one side only is zero on the other.
CodesOf(result) == {result.impacts[i].code : i \in 1..Len(result.impacts)}
Component(result, code) == SumOf(result.impacts, Annualised, LAMBDA impact : impact.code = code)
ComponentDeltas(current, candidate) ==
  [code \in CodesOf(current) \cup CodesOf(candidate) |->
     Component(candidate, code) - Component(current, code)]

Difference(left, right, deltas) ==
  [ok |-> left.ok /\ right.ok, current |-> left, candidate |-> right, deltas |-> deltas,
   cash |-> right.cash - left.cash, annualised |-> SumFunction(deltas),
   wealth |-> right.wealth - left.wealth, minutes |-> right.minutes - left.minutes,
   cumulative |-> [i \in 1..Len(left.months) |->
                     right.months[i].closing - left.months[i].closing]]

Compare(current, candidate, move) ==
  LET left == Calculate(current)
      right == Calculate(Moving(current, candidate, move))
  IN Difference(left, right, ComponentDeltas(left, right))

\* build_derivation: leaves grouped under the calculator that produced them;
\* DerivationNode refuses a parent that is not the sum of its children.
Branch(result, name) ==
  SumOf(result.impacts, Annualised, LAMBDA impact : impact.by = name /\ impact.cash # 0)
DerivedTotal(result) == SumFunction([i \in 1..Len(Calculators) |-> Branch(result, Calculators[i])])

-----------------------------------------------------------------------------
MonthIndexes(result) == 1..Len(result.months)

\* Reference: what a recurring impact of a month owes, from its dates alone.
IsDue(impact, anchor) ==
  /\ ~Before(anchor, impact.starts)
  /\ impact.ends = Never \/ Before(anchor, impact.ends)

ChargedIn(result, i, Test(_)) ==
  SumOf(result.impacts, MonthlyAmount,
        LAMBDA impact : IsActive(impact, result.months[i].anchor, i) /\ Test(impact))

Rate(impact) == impact.period \in {"MONTHLY", "ANNUAL"}

(* The projection of a side (ComparisonEngine.calculate) charges, from the  *)
(* second month on, what is due by its dates and nothing else; an event is  *)
(* paid once if it falls before the horizon's last month ends and never     *)
(* otherwise; and every month opens with what the one before closed with.   *)
ProjectionIsDue(result) ==
  /\ \A i \in MonthIndexes(result) :
       /\ result.months[i].opening = (IF i = 1 THEN 0 ELSE result.months[i - 1].closing)
       /\ i > 1 => result.months[i].income + result.months[i].spending =
            SumOf(result.impacts, MonthlyAmount,
                  LAMBDA impact : Rate(impact) /\ IsDue(impact, result.months[i].anchor))
  /\ LET event(impact) == impact.period = "ONE_TIME"
         paid == SumFunction([i \in MonthIndexes(result) |-> result.months[i].oneTime])
     IN result.months # <<>> =>
          paid = SumOf(result.impacts, MonthlyAmount,
                       LAMBDA impact : event(impact) /\ impact.starts[1] <= Last(result.months).anchor[1])

(* The breakdown, the trees and the series of a comparison (component_     *)
(* deltas, build_derivation, _cumulative_delta) tell one story: the lines   *)
(* add up to the difference of the trees' roots, the series ends at the     *)
(* reported difference, and over one year in which nothing begins or ends   *)
(* the tree's root is the cash it explains.                                 *)
ExplanationMatches(comparison) ==
  /\ comparison.annualised = DerivedTotal(comparison.candidate) - DerivedTotal(comparison.current)
  /\ comparison.cumulative # <<>> => Last(comparison.cumulative) = comparison.cash
  /\ \A result \in {comparison.current, comparison.candidate} :
       (/\ Len(result.months) = MonthsPerYear
        /\ \A i \in 1..Len(result.impacts) :
             LET impact == result.impacts[i]
             IN IF impact.period = "ONE_TIME"
                THEN impact.starts[1] <= Last(result.months).anchor[1]
                ELSE impact.ends = Never /\ ~Before(result.months[1].anchor, impact.starts))
       => DerivedTotal(result) = result.cash

PaysFor(result, i, category, isInherited) ==
  ChargedIn(result, i, LAMBDA impact :
              Rate(impact) /\ Len(impact.code) = 3 /\ impact.code[1] = category
              /\ impact.code[2] = isInherited) # 0

(* A life goes on before a move (inherit_costs_until_move): where the       *)
(* current side pays for something up to the move and the candidate only    *)
(* from the move on, each month is charged to one of the two, the one that  *)
(* then applies; nothing is inherited after the move.                       *)
MoveIsCovered(comparison, current, candidate, move) ==
  move # Never =>
    \A i \in MonthIndexes(comparison.candidate) \ {1}, category \in DOMAIN Owner :
      LET result == comparison.candidate
          beforeMove == Before(result.months[i].anchor, move)
          runsBefore(items) == category \in CoveredBefore(items, move)
      IN /\ ~beforeMove => ~PaysFor(result, i, category, TRUE)
         /\ PaysFor(result, i, category, TRUE) => ~PaysFor(result, i, category, FALSE)
         /\ beforeMove /\ ~runsBefore(candidate.items) /\ PaysFor(comparison.current, i, category, FALSE)
              => PaysFor(result, i, category, TRUE)

(* A comparison with costs inherited up to a move never charges both of two *)
(* lives: in no month, the first included, does the candidate pay for a     *)
(* category both as inherited and on its own account.                       *)
NoMonthIsChargedTwice(comparison) ==
  \A i \in MonthIndexes(comparison.candidate), category \in DOMAIN Owner :
    PaysFor(comparison.candidate, i, category, TRUE)
      => ~PaysFor(comparison.candidate, i, category, FALSE)
=============================================================================
