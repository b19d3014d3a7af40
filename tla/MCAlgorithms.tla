----------------------------- MODULE MCAlgorithms -----------------------------
(***************************************************************************)
(* Small inputs for the pure algorithms: a question is asked once, and the  *)
(* properties say what its answer must be.  A year has two months of two to *)
(* four days, percentages go in quarters, and eight units make a cent.      *)
(***************************************************************************)
EXTENDS Solvers, Investigation, Recurrence, ImportPlanning

VARIABLE question

TwoMonths == [m \in 0..12 |-> <<3, 2, 4>>[(m % 3) + 1]]
MCCalculators == <<"LIVING", "COMMUTE", "RELOCATION", "HEALTH">>
MCOwner == [rent |-> "LIVING", train |-> "COMMUTE", van |-> "RELOCATION", gym |-> "HEALTH"]
MCFields == <<"date", "description", "merchant", "amount", "debit", "credit">>
MCAliases == [date |-> <<"Date", "Posted">>, description |-> <<"Details">>, merchant |-> <<"Payee">>,
              amount |-> <<"Amount">>, debit |-> <<"Debit">>, credit |-> <<"Credit">>]

-----------------------------------------------------------------------------
SeqsUpTo(S, n) == UNION {[1..k -> S] : k \in 0..n}

Bills == {0, 8, 24, 56, -24}
Weightings == {w \in SeqsUpTo(0..3, 3) : CanAllocate(8, w)}
Homes ==
  {home \in [size : 1..3, method : {"EVEN", "PERCENTAGE", "FIXED"}, weight : {0, 1, 3, 4}, fixed : {0, 20}] :
     HouseholdIsValid(home)}

BillQuestions == [about : {"bill"}, amount : Bills, weights : Weightings]
HomeQuestions == [about : {"home"}, home : Homes, cost : {0, 8, 24, 56, 12}]
HorizonQuestions ==
  {q \in [about : {"horizon"}, start : (0..3) \X (1..4), months : 0..6] :
     q.start[1]..(q.start[1] + q.months) \subseteq DOMAIN DaysIn /\ q.start[2] <= DaysIn[q.start[1]]}
SeriesQuestions == [about : {"series"}, series : SeqsUpTo({-8, 0, 8}, 5)]

-----------------------------------------------------------------------------
Job(salary, signing, onsite) ==
  [salary |-> salary, signing |-> signing, bonusRate |-> 1, bonusChance |-> 2, reimbursement |-> NotOffered,
   premium |-> 8, hsa |-> 16, matchRate |-> 2, matchLimit |-> 1, saves |-> 2,
   equity |-> 64, vesting |-> 4, cliff |-> 2, withholding |-> 1,
   onsite |-> onsite, weeks |-> 2, minutes |-> 3]
Home(size) == [size |-> size, method |-> "EVEN", weight |-> 0, fixed |-> 0]
Tax(net, marginal) == [gross |-> 320, net |-> net, marginal |-> marginal]

Rent(amount, starts) == [Item("rent", "RECURRING_CASH", "MONTHLY", amount, starts) EXCEPT !.shared = TRUE]
Train(amount, starts) == Item("train", "RECURRING_CASH", "MONTHLY", amount, starts)
Gym(starts) == Item("gym", "RECURRING_CASH", "ANNUAL", 32, starts)
Van(starts) == Item("van", "ONE_TIME_CASH", "ONE_TIME", 48, starts)

Side(job, items, size, tax, start, months) ==
  [job |-> job, items |-> items, home |-> Home(size), tax |-> tax,
   start |-> start, end |-> AddMonths(start, months)]

Starts == {<<2, 1>>, <<2, 4>>}
Moves == {Never} \cup ({1, 2, 3, 4} \X {1, 2})
OwnStart(move, start) == IF move = Never THEN start ELSE move

KeptCosts == {<<>>, <<Train(8, <<1, 2>>)>>, <<[Train(8, <<1, 2>>) EXCEPT !.ends = <<3, 1>>]>>}
NewCosts == {<<>>, <<Van(<<3, 2>>)>>, <<Train(16, <<3, 1>>), Van(<<1, 1>>)>>}

OfferQuestion(start, months, move, size, kept, new) ==
  [about |-> "offer", move |-> move,
   current |-> Side(Job(320, NotOffered, 2), <<Rent(24, start), Gym(<<1, 1>>)>> \o kept, size, Tax(240, 1), start, months),
   candidate |-> Side(Job(384, 32, 0), <<Rent(40, OwnStart(move, start))>> \o new, 1, Tax(240, 1), start, months)]

OfferQuestions ==
  {OfferQuestion(start, months, move, size, kept, new) :
     start \in Starts, months \in 1..4, move \in Moves, size \in 1..2, kept \in KeptCosts, new \in NewCosts}

Bounds == [lower |-> 0, upper |-> 512, tolerance |-> 32, maxIterations |-> 4]

SalaryQuestions ==
  {[about |-> "salary", bounds |-> [Bounds EXCEPT !.maxIterations = most],
    current |-> Side(Job(320, NotOffered, 2), <<Rent(rent, <<2, 1>>)>>, 1, Tax(net, 1), <<2, 1>>, 2),
    candidate |-> Side(Job(salary, NotOffered, onsite), <<Rent(24, <<2, 1>>), [Train(16, <<2, 1>>) EXCEPT !.shared = size > 1]>>,
                       size, Tax(240, marginal), <<2, 1>>, 2)]
   : rent \in {8, 24, 80}, net \in {160, 240}, salary \in {192, 320, 448}, marginal \in 0..4,
     onsite \in {0, 2, 4}, size \in 1..2, most \in {2, 4}}

-----------------------------------------------------------------------------
Charge(id, month, day, minute, merchant, amount) ==
  [id |-> id, month |-> month, day |-> day, minute |-> minute, merchant |-> merchant, amount |-> amount]

LedgerQuestions ==
  {[about |-> "ledger", rows |-> [i \in 1..n |-> Charge(IF twice THEN 1 ELSE i, rest[i][1], rest[i][2], rest[i][3], "cafe", rest[i][4])]
                                 \o <<Charge(9, 1, 1, 0, "cafe", 3), Charge(10, 2, 1, 4, "shop", 2)>>]
   : n \in {3}, twice \in BOOLEAN,
     rest \in [1..3 -> {<<2, 1, 0, 2>>, <<2, 1, 3, 2>>, <<2, 1, 9, 2>>, <<2, 2, 0, 2>>, <<1, 1, 3, 3>>, <<3, 1, 0, 2>>, <<2, 1, 3, 3>>}]}

-----------------------------------------------------------------------------
MCNominalDays == <<7, 14, 30, 91, 365>>
MCPerYear == <<52, 26, 12, 4, 1>>

Bill(merchant, day, amount, kind) == [merchant |-> merchant, day |-> day, amount |-> amount, kind |-> kind]
DayAfter(gaps, i) == 100 + SumFunction([k \in 1..(i - 1) |-> gaps[k]])

\* Bills at these gaps, listed in order or with the first two exchanged,
\* among a transfer to the same payee and a row of somebody else.
BillsAt(gaps, amounts, first) ==
  LET bill(i) == Bill("gym", DayAfter(gaps, i), amounts[i], IF amounts[i] > 0 THEN "REFUND" ELSE "SPENDING")
      n == Len(amounts)
  IN <<bill(first), bill(3 - first), Bill("gym", 103, -500, "TRANSFER"), Bill("shop", 104, -8, "SPENDING")>>
     \o [i \in 1..(n - 2) |-> bill(i + 2)]

RecurrenceQuestions ==
  {[about |-> "recurrence", rows |-> BillsAt(gaps, amounts, first)] :
     gaps \in [1..2 -> {0, 5, 7, 9, 14, 30}], amounts \in [1..3 -> {-8, -10, -11, 10}], first \in 1..2}
  \cup {[about |-> "recurrence", rows |-> BillsAt(gaps, amounts, first)] :
     gaps \in [1..3 -> {5, 7, 10}], amounts \in [1..4 -> {-8, -10}], first \in 1..2}

-----------------------------------------------------------------------------
Text(merchant, decoration) == Cell("text", merchant, decoration)
Amount(n) == Cell("amount", n, 0)
Signs == <<"Date", "Details", "Amount", "Id">>
Split == <<"Posted", "Payee", "Debit", "Credit">>

SignedLines ==
  {<<>>, <<Blank, Blank, Blank, Text(9, 1)>>, <<Blank, Blank>>,
   <<Cell("iso", 1, 2), Text(1, 1), Amount(-12), Text(5, 1)>>,
   <<Cell("iso", 1, 2), Text(1, 2), Amount(-13), Text(5, 2)>>,
   <<Cell("numeric", 1, 2), Text(1, 1), Amount(-20), Text(5, 2)>>,
   <<Cell("numeric", 3, 1), Text(1, 1), Amount(8), Blank>>,
   <<Cell("numeric", 1, 3), Text(2, 1), Amount(8), Text(5, 4)>>,
   <<Cell("iso", 1, 2), Text(1, 1), Amount(-12)>>,
   <<Cell("iso", 2, 1), Blank, Cell("reference", 16, 0), Text(5, 3)>>}

SplitLines ==
  {<<Cell("iso", 1, 2), Text(1, 1), Amount(16), Blank>>, <<Cell("iso", 1, 2), Text(1, 1), Amount(-16), Blank>>,
   <<Cell("iso", 1, 2), Text(1, 1), Blank, Amount(24)>>, <<Cell("iso", 1, 2), Text(1, 1), Amount(8), Amount(8)>>,
   <<Cell("iso", 1, 2), Text(2, 1), Blank, Blank>>}

Files == [headers : {Signs}, lines : UNION {[1..n -> SignedLines] : n \in 2..3}]
         \cup [headers : {Split}, lines : UNION {[1..n -> SplitLines] : n \in 2..3}]

WithIds == Mapping("Date", "Details", NoColumn, "Id", "Amount", NoColumn, NoColumn)
Wide == [start |-> <<1, 1>>, end |-> <<2, 3>>]
Requests ==
  {[mode |-> "snapshot", mapping |-> NoMapping, order |-> Unstated, sign |-> Unstated, window |-> Wide],
   [mode |-> "snapshot", mapping |-> NoMapping, order |-> "DAY_FIRST", sign |-> "OUTFLOW_POSITIVE",
    window |-> [start |-> <<1, 1>>, end |-> <<1, 2>>]],
   [mode |-> "snapshot", mapping |-> WithIds, order |-> Unstated, sign |-> Unstated, window |-> Wide],
   [mode |-> "incremental", mapping |-> WithIds, order |-> "MONTH_FIRST", sign |-> Unstated, window |-> NoWindow],
   [mode |-> "incremental", mapping |-> NoMapping, order |-> Unstated, sign |-> Unstated, window |-> NoWindow]}

Longer(file) == [file EXCEPT !.lines = Append(@, <<Cell("iso", 1, 1), Text(7, 1), Amount(8), Text(5, 9)>>)]

FileQuestions ==
  {[about |-> "file", request |-> request,
    versions |-> <<file, IF changed < 2 THEN Longer(file) ELSE file, IF changed < 3 THEN Longer(file) ELSE file>>]
   : file \in Files, request \in Requests, changed \in 1..3}

-----------------------------------------------------------------------------
NoQuestion == [about |-> "nothing"]
Init == question = NoQuestion

Ask(questions) == question = NoQuestion /\ question' \in questions

AskBill == Ask(BillQuestions)
AskHome == Ask(HomeQuestions)
AskHorizon == Ask(HorizonQuestions)
AskSeries == Ask(SeriesQuestions)
AskOffer == Ask(OfferQuestions)
AskSalary == Ask(SalaryQuestions)
AskLedger == Ask(LedgerQuestions)
AskRecurrence == Ask(RecurrenceQuestions)
AskFile == Ask(FileQuestions)

Next == AskBill \/ AskHome \/ AskHorizon \/ AskSeries \/ AskOffer \/ AskSalary \/ AskLedger \/ AskRecurrence \/ AskFile

Spec == Init /\ [][Next]_question

-----------------------------------------------------------------------------
(* Money.allocate and HouseholdProfile.share_of lose and invent no cent and *)
(* are fair to within one (see SplitsExactly and SplitsTheBill).            *)
BillsAreSplitExactly ==
  /\ question.about = "bill" => SplitsExactly(question.amount, question.weights)
  /\ question.about = "home" => SplitsTheBill(question.home, question.cost)

(* DateRange.months and solve_break_even agree with their definitions (see  *)
(* StepsThroughEveryMonth and BreakEvenIsRight).                            *)
MonthsAreCountedRight ==
  /\ question.about = "horizon" => StepsThroughEveryMonth(question.start, question.months)
  /\ question.about = "series" => BreakEvenIsRight(question.series)

Compared == Compare(question.current, question.candidate, question.move)

(* ComparisonEngine.compare charges what is due, explains all of what it    *)
(* reports, and covers the months before a move (see ProjectionIsDue,       *)
(* ExplanationMatches and MoveIsCovered).                                   *)
ComparisonsAddUp ==
  question.about = "offer" =>
    \A comparison \in {Compared} : comparison.ok =>
      /\ ProjectionIsDue(comparison.current) /\ ProjectionIsDue(comparison.candidate)
      /\ ExplanationMatches(comparison)
      /\ MoveIsCovered(comparison, question.current, question.candidate, question.move)

(* solve_equivalent_salary and solve_negotiation_gap answer what they were  *)
(* asked (see SalaryMatches and AsksCloseTheGap).                           *)
SolversAnswer ==
  question.about = "salary" =>
    \A solved \in {EquivalentSalary(question.current, question.candidate, question.bounds)},
       answer \in {NegotiationGap(question.current, question.candidate, question.bounds)},
       target \in {FirstYearCash(question.current)} :
         /\ SalaryMatches(solved, target, question.candidate, question.bounds)
         /\ AsksCloseTheGap(answer, solved, target, question.candidate, question.bounds)

(* What is claimed of a ledger, a duplicate by investigate_demo or a        *)
(* recurring charge by detect_recurring, is what its rows support (see      *)
(* InvestigationStands and RecurrencesStand).                               *)
InvestigationsStand ==
  /\ question.about = "ledger" => InvestigationStands(question.rows)
  /\ question.about = "recurrence" => RecurrencesStand(question.rows)

Imported == ImportCsv(question.versions, question.request)
Mapped == Resolved(question.versions[3], question.request)

(* import_csv plans whole files and only files that held still (see         *)
(* PlanIsWhole).                                                            *)
PlansAreWhole ==
  question.about = "file" => PlanIsWhole(Imported, Mapped, question.request)

(* The engine's comment on inherited costs says that otherwise the month    *)
(* before the move would be charged twice (see NoMonthIsChargedTwice).      *)
OneLifeAtATime ==
  question.about = "offer" =>
    \A comparison \in {Compared} : comparison.ok => NoMonthIsChargedTwice(comparison)

(* dates.py says the importer asks instead of picking (see NoDateIsGuessed). *)
DatesAreNeverGuessed ==
  question.about = "file" => NoDateIsGuessed(Imported, Mapped, question.request)
=============================================================================
