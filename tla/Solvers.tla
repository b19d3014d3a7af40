------------------------------- MODULE Solvers -------------------------------
(***************************************************************************)
(* The questions asked of a comparison: when a move breaks even, which      *)
(* salary would match, and which single change would close the gap.  Days   *)
(* on site are counted in half days.                                        *)
(***************************************************************************)
EXTENDS Projection

CONSTANTS
  Commuting,  \* the categories named COMMUTE_...
  Samples     \* points of the monotonicity check: eight

NoMonth == 0

\* solve_break_even: the month after the last one that is behind.
StableMonth(series) ==
  LET behind == {i \in 1..Len(series) : series[i] < 0}
  IN IF behind = {} THEN 1
     ELSE IF Len(series) \in behind THEN NoMonth
     ELSE (CHOOSE i \in behind : \A j \in behind : j <= i) + 1

FirstCrossing(series) ==
  LET ahead == {i \in 1..Len(series) : series[i] >= 0}
  IN IF ahead = {} THEN NoMonth ELSE CHOOSE i \in ahead : \A j \in ahead : i <= j

BreakEven(series) == [first |-> FirstCrossing(series), stable |-> StableMonth(series)]

-----------------------------------------------------------------------------
\* _first_year_cash and with_base_salary.
FirstYearCash(side) == Calculate(side).cash
WithSalary(side, salary) == [side EXCEPT !.job.salary = salary]

\* gap: `target` is the current side's cash.
GapAt(target, candidate, salary) == FirstYearCash(WithSalary(candidate, salary)) - target

\* _verify_monotonic: equally spaced samples of the range.
IsMonotonic(sample) ==
  \/ \A step \in 1..Samples : sample[step] >= sample[step - 1]
  \/ \A step \in 1..Samples : sample[step] <= sample[step - 1]

LooksMonotonic(target, candidate, bounds) ==
  IsMonotonic([step \in 0..Samples |->
    GapAt(target, candidate, bounds.lower + ((bounds.upper - bounds.lower) * step) \div Samples)])

IsWide(bracket, bounds) == bracket.high - bracket.low > bounds.tolerance

Halved(target, candidate, bracket, lowAbove) ==
  LET midpoint == (bracket.low + bracket.high) \div 2
  IN IF (GapAt(target, candidate, midpoint) > 0) = lowAbove
     THEN [low |-> midpoint, high |-> bracket.high, iterations |-> bracket.iterations + 1]
     ELSE [low |-> bracket.low, high |-> midpoint, iterations |-> bracket.iterations + 1]

\* The bisection, as the bracket after n of its iterations.
Bisected(target, candidate, bounds, lowAbove) ==
  LET bracket[n \in 0..bounds.maxIterations] ==
        IF n = 0 THEN [low |-> bounds.lower, high |-> bounds.upper, iterations |-> 0]
        ELSE LET last == bracket[n - 1]
             IN IF IsWide(last, bounds) THEN Halved(target, candidate, last, lowAbove) ELSE last
  IN bracket[bounds.maxIterations]

NoSalary == [ok |-> FALSE, salary |-> 0, low |-> 0, high |-> 0, converged |-> FALSE]

Solved(found, bounds) ==
  [ok |-> TRUE, salary |-> (found.low + found.high) \div 2,
   low |-> found.low, high |-> found.high, converged |-> ~IsWide(found, bounds)]

SalaryFor(target, candidate, bounds) ==
  LET lowAbove == GapAt(target, candidate, bounds.lower) > 0
  IN IF \/ lowAbove = (GapAt(target, candidate, bounds.upper) > 0)
        \/ ~LooksMonotonic(target, candidate, bounds)
     THEN NoSalary
     ELSE Solved(Bisected(target, candidate, bounds, lowAbove), bounds)

\* solve_equivalent_salary.
EquivalentSalary(current, candidate, bounds) ==
  IF CostsCanBeSplit(current) /\ CostsCanBeSplit(candidate)
  THEN SalaryFor(FirstYearCash(current), candidate, bounds) ELSE NoSalary

-----------------------------------------------------------------------------
\* with_onsite_days: commuting costs scale with the days.
AtDays(item, days, onsite) ==
  IF item.category \notin Commuting THEN item
  ELSE [item EXCEPT !.amount = IF onsite = 0 THEN 0 ELSE (@ * days) \div onsite]

WithOnsiteDays(side, days) ==
  [side EXCEPT !.job.onsite = days,
               !.items = [i \in 1..Len(@) |-> AtDays(@[i], days, side.job.onsite)]]

Option(lever, feasible, amount, days) ==
  [lever |-> lever, feasible |-> feasible, amount |-> amount, days |-> days]
Unreachable(lever) == Option(lever, FALSE, 0, NotOffered)

\* _salary_option, from what solve_equivalent_salary answered.
SalaryOption(solved, candidate, gap) ==
  LET increase == solved.salary - candidate.job.salary
  IN IF gap = 0 THEN Option("BASE_SALARY", TRUE, 0, NotOffered)
     ELSE IF ~solved.ok THEN Unreachable("BASE_SALARY")
     ELSE Option("BASE_SALARY", increase > 0, increase, NotOffered)

\* Mutant: the gap itself is asked for, before tax.
SigningOptionNet(candidate, gap) == Option("SIGNING_BONUS", TRUE, gap, NotOffered)

\* _signing_bonus_option: grossed up by the share that is kept.
SigningOption(candidate, gap) ==
  LET kept == Kept(candidate.tax, Whole)
  IN IF gap = 0 THEN Option("SIGNING_BONUS", TRUE, 0, NotOffered)
     ELSE IF kept <= 0 THEN Unreachable("SIGNING_BONUS")
     ELSE Option("SIGNING_BONUS", TRUE, (gap * Whole) \div kept, NotOffered)

RelocationOption(gap) == Option("RELOCATION_REIMBURSEMENT", TRUE, gap, NotOffered)

\* The half-day patterns the search visits, down from today's, up to the one
\* that closes the gap; a cost that cannot be split at one of them ends it.
ClosesGap(target, candidate, days) == FirstYearCash(WithOnsiteDays(candidate, days)) >= target

Visited(target, candidate) ==
  {days \in 0..candidate.job.onsite :
     \A more \in (days + 1)..candidate.job.onsite : ~ClosesGap(target, candidate, more)}

RemoteSearchCompletes(target, candidate) ==
  \A days \in Visited(target, candidate) : CostsCanBeSplit(WithOnsiteDays(candidate, days))

Closing(target, candidate) ==
  {days \in Visited(target, candidate) : ClosesGap(target, candidate, days)}

RemoteOption(closing, candidate, gap) ==
  IF gap = 0 THEN Option("REMOTE_DAYS", TRUE, 0, candidate.job.onsite)
  ELSE IF closing = {} THEN Unreachable("REMOTE_DAYS")
  ELSE Option("REMOTE_DAYS", TRUE, 0, CHOOSE days \in closing : TRUE)

FeasibleFirst(options) ==
  SelectSeq(options, LAMBDA option : option.feasible)
  \o SelectSeq(options, LAMBDA option : ~option.feasible)

AsksFor(target, candidate, bounds, gap) ==
  [ok |-> gap # 0 => RemoteSearchCompletes(target, candidate), gap |-> gap,
   options |-> FeasibleFirst(<<SalaryOption(SalaryFor(target, candidate, bounds), candidate, gap),
                               SigningOption(candidate, gap), RelocationOption(gap),
                               RemoteOption(Closing(target, candidate), candidate, gap)>>)]

Shortfall(target, cash) == IF target < cash THEN 0 ELSE target - cash

\* solve_negotiation_gap.
NegotiationGap(current, candidate, bounds) ==
  LET target == FirstYearCash(current)
  IN IF CostsCanBeSplit(current) /\ CostsCanBeSplit(candidate)
     THEN AsksFor(target, candidate, bounds, Shortfall(target, FirstYearCash(candidate)))
     ELSE [ok |-> FALSE, gap |-> 0, options |-> <<>>]

-----------------------------------------------------------------------------
(* The break-even months (solve_break_even): the first month that is not    *)
(* behind, and the first after which none is; a series that ends behind has *)
(* no stable month, and one that is never ahead has neither.                *)
BreakEvenIsRight(series) ==
  LET answer == BreakEven(series)
      ahead(i) == series[i] >= 0
      stays(i) == \A j \in i..Len(series) : ahead(j)
  IN \A i \in 1..Len(series) :
       /\ answer.first = i <=> ahead(i) /\ \A j \in 1..(i - 1) : ~ahead(j)
       /\ answer.stable = i <=> stays(i) /\ \A j \in 1..(i - 1) : ~stays(j)

(* A salary that is found (solve_equivalent_salary) matches: it lies in the *)
(* range, and where the search converged the exact answer is within the     *)
(* tolerance around it.  Where none is found, no salary below the upper     *)
(* bound turns the gap from behind to ahead.                                *)
SalaryMatches(solved, target, candidate, bounds) ==
  IF solved.ok
  THEN /\ solved.salary \in bounds.lower..bounds.upper
       /\ solved.converged =>
            /\ solved.high - solved.low <= bounds.tolerance
            /\ GapAt(target, candidate, solved.low) <= 0
            /\ GapAt(target, candidate, solved.high) >= 0
  ELSE CostsCanBeSplit(candidate) =>
         ~(/\ GapAt(target, candidate, bounds.lower) <= 0
           /\ GapAt(target, candidate, bounds.upper) > 0)

Asked(candidate, option) ==
  LET added(offered) == (IF offered = NotOffered THEN 0 ELSE offered) + option.amount
  IN CASE option.lever = "SIGNING_BONUS" -> [candidate EXCEPT !.job.signing = added(@)]
       [] option.lever = "RELOCATION_REIMBURSEMENT" -> [candidate EXCEPT !.job.reimbursement = added(@)]
       [] option.lever = "REMOTE_DAYS" -> WithOnsiteDays(candidate, option.days)
       [] option.lever = "BASE_SALARY" -> WithSalary(candidate, candidate.job.salary + option.amount)

(* An ask that is called feasible (solve_negotiation_gap) closes the gap:   *)
(* granting that one change makes the candidate's cash reach the current    *)
(* side's, exactly so for a payment and within the salary search's          *)
(* tolerance for a raise whose search converged; no smaller change of days  *)
(* would, and where remote work is called out of reach no pattern would.    *)
AsksCloseTheGap(answer, solved, target, candidate, bounds) ==
  LET reached(option) == FirstYearCash(Asked(candidate, option))
  IN answer.ok /\ answer.gap > 0 =>
       \A i \in 1..Len(answer.options) :
         LET option == answer.options[i]
         IN /\ option.lever \in {"SIGNING_BONUS", "RELOCATION_REIMBURSEMENT"} /\ option.feasible
                 => reached(option) = target
            /\ option.lever = "BASE_SALARY" /\ option.feasible /\ solved.converged
                 => reached([option EXCEPT !.amount = @ + bounds.tolerance]) >= target
            /\ option.lever = "REMOTE_DAYS" =>
                 IF option.feasible
                 THEN /\ reached(option) >= target
                      /\ \A days \in (option.days + 1)..candidate.job.onsite :
                           ~ClosesGap(target, candidate, days)
                 ELSE \A days \in 0..candidate.job.onsite : ~ClosesGap(target, candidate, days)
            /\ \A j \in 1..(i - 1) : option.feasible => answer.options[j].feasible
=============================================================================
