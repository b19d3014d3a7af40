----------------------------- MODULE ReportReads -----------------------------
(***************************************************************************)
(* How a tenant's reports are read.  A report is several SELECTs of one     *)
(* READ COMMITTED transaction, so imports, hand entries, suggestions and    *)
(* confirmations commit between them; each of those is one step here (what  *)
(* happens inside an import is TransactionStore's subject).                 *)
(***************************************************************************)
EXTENDS Integers, Sequences, FiniteSets

CONSTANTS
  RowIds,        \* the rows that may come to be stored
  PostedOn,      \* row -> day number
  Batches,       \* the imports that may happen
  BatchMode, BatchWindow, BatchRows,  \* batch -> mode, <<first, last>>, rows
  Labels,        \* the taxonomy, without the abstention
  LastYear,      \* bound: years 1..LastYear are asked for and hold rows
  MonthsPerYear, \* twelve
  DaysPerMonth,  \* every month of the model is equally long
  MaxWrites      \* bound: hand entries, suggestions and confirmations

ASSUME ReadsAssumption ==
  /\ MonthsPerYear \in Nat \ {0} /\ DaysPerMonth \in Nat \ {0}
  /\ LastYear \in Nat \ {0} /\ MaxWrites \in Nat
  /\ PostedOn \in [RowIds -> 0..(LastYear * MonthsPerYear * DaysPerMonth - 1)]
  /\ BatchMode \in [Batches -> {"snapshot", "incremental"}]
  /\ BatchWindow \in [Batches -> Nat \X Nat]
  /\ BatchRows \in [Batches -> SUBSET RowIds]

VARIABLES
  imported,  \* import_batches: the committed ones
  stored,    \* transactions: the committed rows
  verdict,   \* row -> its suggested and confirmed columns
  writes,    \* those so far
  query,     \* the request being served
  plan,      \* the SELECTs it has left
  seen,      \* what its SELECTs returned and later code still uses
  loaded     \* the months it has finished, in order

readsVars == <<imported, stored, verdict, writes, query, plan, seen, loaded>>

Null == "NULL"
Unknown == "UNKNOWN"
Blank == [suggested |-> Null, sure |-> FALSE, confirmed |-> Null]

-----------------------------------------------------------------------------
\* The calendar: days are numbered, day 0 opens month 1 of year 1.
FirstDay(year, month) == ((year - 1) * MonthsPerYear + month - 1) * DaysPerMonth
YearOf(day) == day \div (MonthsPerYear * DaysPerMonth) + 1
MonthOf(day) == ((day \div DaysPerMonth) % MonthsPerYear) + 1

\* Mutant: the last month of the year ends in the same year.
MonthBoundsSameYear(year, month) ==
  <<FirstDay(year, month),
    IF month = MonthsPerYear THEN FirstDay(year, 1) ELSE FirstDay(year, month + 1)>>

\* _month_bounds: half-open.
MonthBounds(year, month) ==
  <<FirstDay(year, month),
    IF month = MonthsPerYear THEN FirstDay(year + 1, 1) ELSE FirstDay(year, month + 1)>>

InMonth(day, year, month) ==
  MonthBounds(year, month)[1] <= day /\ day < MonthBounds(year, month)[2]

\* timedelta(days=-1) from the first of the month.
PreviousMonth(year, month) ==
  <<YearOf(FirstDay(year, month) - 1), MonthOf(FirstDay(year, month) - 1)>>

\* sorted, of pairs.
Earlier(a, b) == a[1] < b[1] \/ (a[1] = b[1] /\ a[2] < b[2])
Ascends(order, n) == \A i, j \in 1..n : i < j => Earlier(order[i], order[j])
Ascending(pairs) == CHOOSE order \in [1..Cardinality(pairs) -> pairs] : Ascends(order, Cardinality(pairs))

\* Mutant: the span ends where its latest window does, nested or not.
MergeNextLast(spans, window) ==
  IF spans # <<>> /\ window[1] <= spans[Len(spans)][2] + 1
  THEN [spans EXCEPT ![Len(spans)][2] = window[2]]
  ELSE Append(spans, window)

\* One turn of _merge_windows: overlapping or adjoining by a day.
MergeNext(spans, window) ==
  IF spans # <<>> /\ window[1] <= spans[Len(spans)][2] + 1
  THEN [spans EXCEPT ![Len(spans)][2] = IF @ > window[2] THEN @ ELSE window[2]]
  ELSE Append(spans, window)

MergeWindows(windows) ==
  LET n == Cardinality(windows)
      order == Ascending(windows)
      merged[k \in 0..n] == IF k = 0 THEN <<>> ELSE MergeNext(merged[k - 1], order[k])
  IN merged[n]

MonthIsCovered(year, month, windows) ==
  LET spans == MergeWindows(windows)
      bounds == MonthBounds(year, month)
  IN \E i \in 1..Len(spans) : spans[i][1] <= bounds[1] /\ spans[i][2] >= bounds[2] - 1

-----------------------------------------------------------------------------
\* What one SELECT returns, of the rows and batches committed by then.
ForMonth(year, month) == {r \in stored : InMonth(PostedOn[r], year, month)}

SnapshotBatches == {b \in imported : BatchMode[b] = "snapshot"}

\* effective_label
Effective(v) == IF v.confirmed # Null THEN v.confirmed ELSE v.suggested

Awaits(v) == v.confirmed = Null /\ (v.suggested \in {Null, Unknown} \/ ~v.sure)

AwaitingReview(year, month) == {r \in ForMonth(year, month) : Awaits(verdict[r])}

IsClassified(v) == Effective(v) \notin {Null, Unknown}

-----------------------------------------------------------------------------
\* Statements of a request, and the requests: load_month reads a month's
\* rows, then the windows; available_months reads the windows first and
\* plans the months it finds.
Statement(name, year, month) == [name |-> name, year |-> year, month |-> month]

LoadMonth(ym) ==
  <<Statement("rows", ym[1], ym[2]), Statement("windows", ym[1], ym[2]),
    Statement("awaiting", ym[1], ym[2])>>

\* Mutant: the months are found and read before the windows.
MonthsPlanLate(months) ==
  [i \in 1..(3 * Len(months)) |-> LoadMonth(months[(i + 2) \div 3])[((i - 1) % 3) + 1]]

\* available_months, once the dates are known: per month, rows and queue.
MonthsPlan(months) ==
  [i \in 1..(2 * Len(months)) |->
     LET ym == months[(i + 1) \div 2]
     IN Statement(IF i % 2 = 1 THEN "rows" ELSE "awaiting", ym[1], ym[2])]

Months == (1..LastYear) \X (1..MonthsPerYear)

PlanOf(kind, ym) ==
  CASE kind = "months"  -> <<Statement("windows", 1, 1), Statement("dates", 1, 1)>>
    [] kind = "report"  -> LoadMonth(ym)
    [] kind = "compare" -> LoadMonth(PreviousMonth(ym[1], ym[2])) \o LoadMonth(ym)

\* explain_spend_change and the observed-debits route refuse the first month.
Answerable(kind, ym) == kind = "compare" => ym # <<1, 1>>

NothingSeen == [rows |-> {}, batches |-> {}, dated |-> {}, verdicts |-> <<>>]

ReadsInit ==
  /\ imported = {} /\ stored = {}
  /\ verdict = [r \in RowIds |-> Blank]
  /\ writes = 0
  /\ query = "none" /\ plan = <<>> /\ seen = NothingSeen /\ loaded = <<>>

\* Bound: a behaviour ends with the request, so writers stop there too.
Idle ==
  /\ query = "none" \/ plan # <<>>
  /\ UNCHANGED <<query, plan, seen, loaded>>

\* The writers, each one committed transaction.
Import(b) ==
  /\ b \notin imported
  /\ imported' = imported \cup {b}
  /\ stored' = stored \cup BatchRows[b]
  /\ Idle /\ UNCHANGED <<verdict, writes>>

Enter(r) ==
  /\ r \notin stored /\ \A b \in Batches : r \notin BatchRows[b]
  /\ writes < MaxWrites
  /\ stored' = stored \cup {r}
  /\ writes' = writes + 1
  /\ Idle /\ UNCHANGED <<imported, verdict>>

Label(r, columns) ==
  /\ r \in stored /\ writes < MaxWrites
  /\ verdict' = [verdict EXCEPT ![r] = columns]
  /\ writes' = writes + 1
  /\ Idle /\ UNCHANGED <<imported, stored>>

\* record_suggestion; an abstention carries no confidence worth the name.
RecordSuggestion(r) ==
  \/ Label(r, [verdict[r] EXCEPT !.suggested = Unknown, !.sure = FALSE])
  \/ \E l \in Labels, sure \in BOOLEAN :
       Label(r, [verdict[r] EXCEPT !.suggested = l, !.sure = sure])

ConfirmLabel(r) ==
  \E l \in Labels \cup {Unknown} : Label(r, [verdict[r] EXCEPT !.confirmed = l])

\* The reader.
Ask(kind, ym) ==
  /\ query = "none" /\ Answerable(kind, ym)
  /\ query' = kind /\ plan' = PlanOf(kind, ym)
  /\ UNCHANGED <<imported, stored, verdict, writes, seen, loaded>>

Reads(name) == plan # <<>> /\ Head(plan).name = name
Data == UNCHANGED <<imported, stored, verdict, writes, query>>

SelectRows ==
  /\ Reads("rows")
  /\ seen' = [seen EXCEPT !.rows = ForMonth(Head(plan).year, Head(plan).month),
                          !.verdicts = verdict]
  /\ plan' = Tail(plan)
  /\ Data /\ UNCHANGED loaded

SelectWindows ==
  /\ Reads("windows")
  /\ seen' = [seen EXCEPT !.batches = SnapshotBatches]
  /\ plan' = Tail(plan)
  /\ Data /\ UNCHANGED loaded

SelectDates ==
  /\ Reads("dates")
  /\ seen' = [seen EXCEPT !.dated = stored]
  /\ plan' = Tail(plan) \o
       MonthsPlan(Ascending({<<YearOf(PostedOn[r]), MonthOf(PostedOn[r])>> : r \in stored}))
  /\ Data /\ UNCHANGED loaded

\* The last SELECT of a month; _coverage puts together what is in hand.
SelectAwaiting ==
  /\ Reads("awaiting")
  /\ LET year == Head(plan).year
         month == Head(plan).month
     IN loaded' = Append(loaded,
          [year |-> year, month |-> month, rows |-> seen.rows,
           verdicts |-> [r \in seen.rows |-> seen.verdicts[r]],
           batches |-> seen.batches,
           complete |-> MonthIsCovered(year, month, {BatchWindow[b] : b \in seen.batches}),
           classified |-> Cardinality({r \in seen.rows : IsClassified(seen.verdicts[r])}),
           awaiting |-> Cardinality(AwaitingReview(year, month))])
  /\ plan' = Tail(plan)
  /\ Data /\ UNCHANGED seen

WriterStep ==
  \/ \E b \in Batches : Import(b)
  \/ \E r \in RowIds : Enter(r) \/ RecordSuggestion(r) \/ ConfirmLabel(r)

ReaderStep == SelectRows \/ SelectWindows \/ SelectDates \/ SelectAwaiting

ReadsNext ==
  \/ WriterStep
  \/ \E kind \in {"months", "report", "compare"}, ym \in Months : Ask(kind, ym)
  \/ ReaderStep

ReadsSpec == ReadsInit /\ [][ReadsNext]_readsVars

-----------------------------------------------------------------------------
Verdicts == [suggested : Labels \cup {Null, Unknown}, sure : BOOLEAN,
             confirmed : Labels \cup {Null, Unknown}]

ReadsTypeOK ==
  /\ imported \subseteq Batches /\ stored \subseteq RowIds
  /\ verdict \in [RowIds -> Verdicts] /\ writes \in 0..MaxWrites
  /\ query \in {"none", "months", "report", "compare"}
  /\ \A i \in 1..Len(plan) : plan[i].name \in {"rows", "windows", "dates", "awaiting"}
  /\ \A b \in imported : BatchRows[b] \subseteq stored
  /\ seen.rows \subseteq stored /\ seen.batches \subseteq imported
  /\ seen.dated \subseteq stored
  /\ \A i \in 1..Len(loaded) :
       /\ loaded[i].rows \subseteq stored
       /\ loaded[i].classified \in 0..Cardinality(loaded[i].rows)
       /\ loaded[i].awaiting \in 0..Cardinality(RowIds)

\* _merge_windows, "is every day covered": a month is complete exactly if
\* each of its days lies in a window that a snapshot import declared.
CompleteMeansEveryDay ==
  \A i \in 1..Len(loaded) :
    loaded[i].complete <=>
      \A day \in {d \in 0..(LastYear * MonthsPerYear * DaysPerMonth) :
                    YearOf(d) = loaded[i].year /\ MonthOf(d) = loaded[i].month} :
        \E b \in loaded[i].batches : BatchWindow[b][1] <= day /\ day <= BatchWindow[b][2]

\* The batches a coverage figure rests on have their rows in the report.
HoldsItsImports(report) ==
  \A b \in report.batches : \A r \in BatchRows[b] :
    YearOf(PostedOn[r]) = report.year /\ MonthOf(PostedOn[r]) = report.month
      => r \in report.rows

\* available_months reads the windows before any row: a month it lists as
\* complete never lacks a row of an import that made it so, whatever is
\* imported meanwhile.
ListedCompleteIsWhole ==
  query = "months" =>
    \A i \in 1..Len(loaded) : loaded[i].complete => HoldsItsImports(loaded[i])

\* _month_bounds and _months_with_rows: the listing has every row that was
\* stored when the months were found, in one month and no other.
EveryRowInOneMonth ==
  query = "months" /\ plan = <<>> =>
    \A r \in seen.dated :
      Cardinality({i \in 1..Len(loaded) : r \in loaded[i].rows}) = 1
=============================================================================
