----------------------------- MODULE Investigation -----------------------------
(***************************************************************************)
(* The public demo: read-only tools over a synthetic ledger of two months,  *)
(* and the scripted investigation that calls them in order.  A row is       *)
(* [id, month, day, minute, merchant, amount]; receipts, categories and the *)
(* policy's text are left out.                                              *)
(***************************************************************************)
EXTENDS Integers, Sequences, FiniteSets, SequencesExt

CONSTANTS
  DuplicateWindow,  \* DUPLICATE_WINDOW_MINUTES
  MaxCharge,        \* no synthetic charge is larger
  MaxTransactions   \* nor is a ledger longer

ASSUME InvestigationAssumption == DuplicateWindow \in Nat

MonthsOf(rows) == {rows[i].month : i \in DOMAIN rows}
LatestMonth(rows) == CHOOSE m \in MonthsOf(rows) : \A other \in MonthsOf(rows) : other <= m

\* parse_synthetic_csv.
LedgerIsValid(rows) ==
  /\ Len(rows) <= MaxTransactions
  /\ Cardinality(MonthsOf(rows)) = 2
  /\ \A i \in DOMAIN rows : rows[i].amount \in 1..MaxCharge
  /\ \A i, j \in DOMAIN rows : rows[i].id = rows[j].id => i = j

InMonthOf(rows, month) == {i \in DOMAIN rows : rows[i].month = month}
Spend(rows, month) == SumFunction([i \in InMonthOf(rows, month) |-> rows[i].amount])

\* _search and _summarize; the month before is the one before in the ledger.
EarlierMonths(rows, month) == {m \in MonthsOf(rows) : m < month}
PriorMonth(rows, month) ==
  CHOOSE m \in EarlierMonths(rows, month) : \A other \in EarlierMonths(rows, month) : other <= m

ChangeSince(rows, month) == Spend(rows, month) - Spend(rows, PriorMonth(rows, month))

Apart(a, b) == IF a.minute > b.minute THEN a.minute - b.minute ELSE b.minute - a.minute

\* Mutant: two charges at the same minute count as a pair.
MayBeDuplicateAtOnce(a, b) ==
  a.merchant = b.merchant /\ a.amount = b.amount /\ a.day = b.day /\ Apart(a, b) <= DuplicateWindow

MayBeDuplicate(a, b) ==
  /\ a.merchant = b.merchant /\ a.amount = b.amount /\ a.day = b.day
  /\ 0 < Apart(a, b) /\ Apart(a, b) <= DuplicateWindow

\* _duplicates: the pairs of a month, and the first in the order they are found.
PairsOf(rows, month) ==
  {p \in InMonthOf(rows, month) \X InMonthOf(rows, month) :
     p[1] < p[2] /\ MayBeDuplicate(rows[p[1]], rows[p[2]])}

FirstPair(rows, month) ==
  CHOOSE p \in PairsOf(rows, month) :
    \A q \in PairsOf(rows, month) : p[1] < q[1] \/ (p[1] = q[1] /\ p[2] <= q[2])

HasRow(rows, id) == \E i \in DOMAIN rows : rows[i].id = id
RowOf(rows, id) == rows[CHOOSE i \in DOMAIN rows : rows[i].id = id]

\* _proposal succeeds: the latest month, and a candidate pair.
Proposal(rows, id) ==
  /\ HasRow(rows, id)
  /\ RowOf(rows, id).month = LatestMonth(rows)
  /\ \E p \in PairsOf(rows, RowOf(rows, id).month) : id \in {rows[p[1]].id, rows[p[2]].id}

\* investigate_demo: each merchant's total, and those that are a change.
Merchants(rows) == {rows[i].merchant : i \in DOMAIN rows}
TotalOf(rows, month, merchant) ==
  SumFunction([i \in {i \in DOMAIN rows : rows[i].merchant = merchant} |->
                 IF rows[i].month = month THEN rows[i].amount ELSE -rows[i].amount])
Totals(rows, month) == [merchant \in Merchants(rows) |-> TotalOf(rows, month, merchant)]
Drivers(rows, month) == Restrict(Totals(rows, month), {m \in Merchants(rows) : TotalOf(rows, month, m) # 0})

Investigate(rows) ==
  LET month == LatestMonth(rows)
      pairs == PairsOf(rows, month)
      proposed == IF pairs = {} THEN {} ELSE {rows[FirstPair(rows, month)[2]].id}
  IN [reconciles |-> SumFunction(Totals(rows, month)) = ChangeSince(rows, month),
      ok |-> \A id \in proposed : Proposal(rows, id),
      change |-> ChangeSince(rows, month), drivers |-> Drivers(rows, month), proposed |-> proposed]

-----------------------------------------------------------------------------
(* The scripted investigation (investigate_demo) completes on every ledger  *)
(* parse_synthetic_csv lets through: the drivers it lists are all of the    *)
(* change and none is nothing, no tool it calls fails, and what it proposes *)
(* is the later-listed of two rows of the latest month that are the same    *)
(* charge minutes apart; no other row of the ledger could be proposed for   *)
(* less.                                                                    *)
InvestigationStands(rows) ==
  LedgerIsValid(rows) =>
    LET answer == Investigate(rows)
    IN /\ answer.reconciles /\ answer.ok
       /\ SumFunction(answer.drivers) = answer.change
       /\ \A m \in DOMAIN answer.drivers : answer.drivers[m] # 0
       /\ \A i \in DOMAIN rows :
            Proposal(rows, rows[i].id) <=>
              \E j \in DOMAIN rows :
                /\ j # i /\ rows[j].month = rows[i].month
                /\ \A k \in DOMAIN rows : rows[k].month <= rows[i].month
                /\ rows[j].merchant = rows[i].merchant /\ rows[j].amount = rows[i].amount
                /\ rows[j].day = rows[i].day /\ rows[j].minute # rows[i].minute
                /\ rows[j].minute - rows[i].minute \in (-DuplicateWindow)..DuplicateWindow
=============================================================================
