----------------------------- MODULE ReportTree -----------------------------
(***************************************************************************)
(* What is computed from the rows of a month: the monthly tree, the         *)
(* explanation of a change in spending and the comparison of debits.  Rows  *)
(* are a function from row to [amount, merchant, label, confirmed]; amounts *)
(* are cents of the one currency parse_amount produces.  The children of a  *)
(* node are a function from their codes.  A ValidationError is a node or a  *)
(* result whose `ok` is FALSE.                                              *)
(***************************************************************************)
EXTENDS Integers, Sequences, FiniteSets, Functions

CONSTANT SpendingLabels  \* the CostCategory values

NoLabel == "NULL"
Abstain == "UNKNOWN"
Kinds == {"INCOME", "REFUND", "TRANSFER"}

ASSUME SpendingAssumption ==
  IsFiniteSet(SpendingLabels) /\ SpendingLabels \cap (Kinds \cup {NoLabel, Abstain}) = {}

\* Evidence, weakest first.
Levels == <<"ASSUMED", "DERIVED", "USER_CONFIRMED", "SOURCED">>

\* Of nodes and of rows alike.
Total(items) == SumFunction([k \in DOMAIN items |-> items[k].amount])

\* _weakest; a branch with nothing behind it is assumed.
Weakest(evidence) ==
  IF evidence = {} THEN "ASSUMED"
  ELSE Levels[CHOOSE i \in 1..4 : Levels[i] \in evidence /\ \A j \in 1..(i - 1) : Levels[j] \notin evidence]

EvidenceOf(nodes) == {nodes[k].evidence : k \in DOMAIN nodes}

\* DerivationNode.__post_init__: children, where there are any, sum to the
\* stated amount.
Node(amount, evidence, children) ==
  [amount |-> amount, evidence |-> evidence, children |-> children,
   ok |-> /\ DOMAIN children # {} => Total(children) = amount
          /\ \A k \in DOMAIN children : children[k].ok]

Confirmed(row) == row.label \notin {NoLabel, Abstain} /\ row.confirmed
Leaf(row) == Node(row.amount, IF Confirmed(row) THEN "USER_CONFIRMED" ELSE "ASSUMED", <<>>)

\* _group, and the branches that sum what they hold.
Group(nodes) == Node(Total(nodes), Weakest(EvidenceOf(nodes)), nodes)

Labelled(rows, labels) == {r \in DOMAIN rows : rows[r].label \in labels}

GroupUnder(rows, labels) == Group([r \in Labelled(rows, labels) |-> Leaf(rows[r])])

\* The children of a branch that only exist when they hold something.
NonEmpty(nodes) == Restrict(nodes, {k \in DOMAIN nodes : DOMAIN nodes[k].children # {}})

\* A branch with one group for each label.
Detailed(rows, labelOf) ==
  Group(NonEmpty([code \in DOMAIN labelOf |-> GroupUnder(rows, {labelOf[code]})]))

Categories == [category \in SpendingLabels |-> category]
Reasons == [reason \in {"never_examined", "examined_no_answer"} |->
              IF reason = "never_examined" THEN NoLabel ELSE Abstain]

Branch(rows, code) ==
  CASE code = "income"       -> GroupUnder(rows, {"INCOME"})
    [] code = "spending"     -> Detailed(rows, Categories)
    [] code = "refunds"      -> GroupUnder(rows, {"REFUND"})
    [] code = "transfers"    -> GroupUnder(rows, {"TRANSFER"})
    [] code = "unclassified" -> Detailed(rows, Reasons)

BranchCodes == {"income", "spending", "refunds", "transfers", "unclassified"}
Branches(rows) == [code \in BranchCodes |-> Branch(rows, code)]

\* The codes that are not a row's.
Codes == BranchCodes \cup SpendingLabels \cup {"never_examined", "examined_no_answer"}

\* An empty branch has no say in what the root rests on.
RootEvidence(branches) == Weakest(EvidenceOf(NonEmpty(branches)))

Recognised == SpendingLabels \cup Kinds \cup {NoLabel, Abstain}

\* Mutant: transfers left out of the tree and of its total.
BuildWithoutTransfers(rows) ==
  LET kept == Restrict(rows, {r \in DOMAIN rows : rows[r].label # "TRANSFER"})
  IN Node(Total(kept), RootEvidence(Branches(kept)), Branches(kept))

\* build_monthly_report: the root's amount comes straight from the rows.  Its
\* check that they are of the month asked for is left out: its caller takes
\* them from for_month, which selects that month alone, so it refuses none.
BuildMonthlyReport(rows) ==
  LET root == Node(Total(rows), RootEvidence(Branches(rows)), Branches(rows))
  IN [root EXCEPT !.ok = @ /\ \A r \in DOMAIN rows : rows[r].label \in Recognised]

\* DerivationNode.walk: every node with the codes that lead to it.  A report
\* is four levels deep.
Below(places) ==
  UNION {{[path |-> Append(p.path, code), node |-> p.node.children[code]] :
            code \in DOMAIN p.node.children} : p \in places}

Walk(node) ==
  LET root == {[path |-> <<>>, node |-> node]}
      branches == Below(root)
      groups == Below(branches)
  IN root \cup branches \cup groups \cup Below(groups)

Code(place) == place.path[Len(place.path)]

RowLeaves(node, rows) == {p \in Walk(node) : p.path # <<>> /\ Code(p) \in DOMAIN rows}

-----------------------------------------------------------------------------
\* _accumulate, row by row as its elif chain decides.
Debit(row) == IF row.amount < 0 THEN -row.amount ELSE 0

IsTransfer(row) == row.label = "TRANSFER"
IsUnclassified(row) == row.label \in {NoLabel, Abstain}
IsSpend(row) == row.label \in SpendingLabels /\ row.amount < 0
IsRefund(row) == row.label = "REFUND" /\ row.amount > 0
IsIncomeAnySign(row) == row.label = "INCOME"   \* Mutant: the guard on the sign dropped.
IsIncome(row) == row.label = "INCOME" /\ row.amount >= 0

\* A label whose sign contradicts it.
IsInconsistent(row) ==
  /\ row.label \in SpendingLabels \cup {"REFUND", "INCOME"}
  /\ ~IsSpend(row) /\ ~IsRefund(row) /\ ~IsIncome(row)

AmountOf(rows, Test(_), Value(_)) ==
  SumFunction([r \in DOMAIN rows |-> IF Test(rows[r]) THEN Value(rows[r]) ELSE 0])

Credit(row) == row.amount

\* The labels given to merchants: `contribution` is what a row adds to net
\* spending.
Drives(row) == IsSpend(row) \/ IsRefund(row)

MerchantNet(rows, name) ==
  AmountOf(rows, LAMBDA row : Drives(row) /\ row.merchant = name, LAMBDA row : -row.amount)

SpendPeriod(rows) ==
  [gross |-> AmountOf(rows, IsSpend, Debit), refunds |-> AmountOf(rows, IsRefund, Credit),
   unclassified |-> AmountOf(rows, IsUnclassified, Debit),
   transfers |-> AmountOf(rows, IsTransfer, Debit),
   inconsistent |-> AmountOf(rows, IsInconsistent, Debit),
   suggestedRows |-> Cardinality({r \in DOMAIN rows : ~IsUnclassified(rows[r]) /\ ~rows[r].confirmed})]

NetSpending(period) == period.gross - period.refunds

Drivers(rows) == {rows[r].merchant : r \in {x \in DOMAIN rows : Drives(rows[x])}}

\* build_spend_change: every merchant's delta, reconciled to the net.
SpendChange(previous, current) ==
  LET before == SpendPeriod(previous)
      after == SpendPeriod(current)
      delta == NetSpending(after) - NetSpending(before)
      names == Drivers(previous) \cup Drivers(current)
  IN [before |-> before, after |-> after, delta |-> delta,
      ok |-> SumFunction([n \in names |-> MerchantNet(current, n) - MerchantNet(previous, n)]) = delta]

\* build_observed_debit_comparison: debits whatever their label.
MerchantDebits(rows, name) == AmountOf(rows, LAMBDA row : row.merchant = name, Debit)

DebitMerchants(rows) == {rows[r].merchant : r \in {x \in DOMAIN rows : rows[x].amount < 0}}

ObservedDebits(rows) == SumFunction([n \in DebitMerchants(rows) |-> MerchantDebits(rows, n)])

-----------------------------------------------------------------------------
\* monthly.py, "a dropped or double-counted row makes the report impossible
\* to build": the tree builds, its leaves are the rows, each once, and as
\* many of them lie outside `unclassified` as coverage calls classified.
TreeAccountsForRows(rows, classified) ==
  LET root == BuildMonthlyReport(rows)
      leaves == RowLeaves(root, rows)
      unclassified == RowLeaves(root.children["unclassified"], rows)
  IN /\ root.ok
     /\ Cardinality(leaves) = Cardinality(DOMAIN rows)
     /\ \A r \in DOMAIN rows : \E p \in leaves : Code(p) = r /\ p.node.amount = rows[r].amount
     /\ Cardinality(leaves) - Cardinality(unclassified) = classified

\* _weakest at the root: a month claims confirmation exactly if a person
\* confirmed every row of it.
EvidenceIsHonestFor(rows) ==
  BuildMonthlyReport(rows).evidence = "USER_CONFIRMED" <=>
    DOMAIN rows # {} /\ \A r \in DOMAIN rows : Confirmed(rows[r])

\* spend_change.py against observed_debits.py and the tree: every observed
\* debit is in exactly one of the buckets the explanation discloses, the
\* merchants explain the whole delta, and spending and refunds of the tree
\* differ from net spending by the disclosed inconsistencies only.
DebitsAccountedFor(previous, current) ==
  LET change == SpendChange(previous, current)
      after == change.after
      root == BuildMonthlyReport(current)
      offside == AmountOf(current, LAMBDA row : IsInconsistent(row) /\ row.label # "INCOME", Credit)
  IN /\ change.ok
     /\ after.gross + after.unclassified + after.transfers + after.inconsistent
          = ObservedDebits(current)
     /\ root.children["spending"].amount + root.children["refunds"].amount
          = offside - NetSpending(after)
=============================================================================
