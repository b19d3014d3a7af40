----------------------------- MODULE ImportPlanning -----------------------------
(***************************************************************************)
(* From a bank's file to the rows it stands for: which column is which, how *)
(* the dates of a column are written, which lines are transactions, and the *)
(* records that are planned from them.  A file is [headers, lines], a line  *)
(* the sequence of its cells, a cell [kind, first, second]: a date that     *)
(* carries its own order, a numeric date, an amount, a reference number, a  *)
(* text (merchant, decoration) or nothing.  A date is <<month, day>> of one *)
(* year; rows and records are keyed by the index of their line.  Quoting,   *)
(* encodings and the wording of errors are left out.                        *)
(***************************************************************************)
EXTENDS Shares, SequencesExt

CONSTANTS
  Fields,       \* the canonical fields, in the order they are looked for
  Aliases,      \* field -> its header aliases, the preferred first
  SampleSize,   \* lines that detection looks at
  LastMonth,    \* twelve
  LastDay       \* of every month

ASSUME PlanningAssumption ==
  /\ SampleSize \in Nat \ {0} /\ LastMonth \in Nat /\ LastDay \in Nat
  /\ \A i \in DOMAIN Fields : Fields[i] \in DOMAIN Aliases

NoColumn == "none"
Cell(kind, first, second) == [kind |-> kind, first |-> first, second |-> second]
Blank == Cell("blank", 0, 0)
NoDate == <<0, 0>>
NoWindow == [start |-> NoDate, end |-> NoDate]
Unstated == "UNSTATED"

-----------------------------------------------------------------------------
\* looks_like_dates and looks_like_amounts: seven in ten that are not blank.
IsDateLike(cell) == cell.kind \in {"iso", "numeric"}
IsMoneyLike(cell) == cell.kind = "amount"

MostOf(cells, Test(_)) ==
  LET filled == {i \in DOMAIN cells : cells[i] # Blank}
  IN filled # {} /\ 10 * Cardinality({i \in filled : Test(cells[i])}) >= 7 * Cardinality(filled)

\* A cell of a line, blank where the line is too short (_sample_value).
ColumnAt(headers, column) == CHOOSE i \in DOMAIN headers : headers[i] = column
CellOf(headers, line, column) ==
  IF ColumnAt(headers, column) <= Len(line) THEN line[ColumnAt(headers, column)] ELSE Blank

\* preview_csv: lines with nothing in them are not rows, but keep their number.
Numbered(file) == {i \in DOMAIN file.lines : file.lines[i] # <<>>}

SampleOf(file, column) ==
  [i \in {i \in Numbered(file) : Cardinality(Numbered(file) \cap 1..i) <= SampleSize} |->
     CellOf(file.headers, file.lines[i], column)]

HoldsDates(file, column) == MostOf(SampleOf(file, column), IsDateLike)
HoldsAmounts(file, column) == MostOf(SampleOf(file, column), IsMoneyLike)

-----------------------------------------------------------------------------
\* detect_mapping: the preferred alias among the headers, unless the values of
\* the column contradict it; a date column nobody named is looked for.
Named(file, field) ==
  LET present == SelectSeq(Aliases[field], LAMBDA alias : \E i \in DOMAIN file.headers : file.headers[i] = alias)
  IN IF present = <<>> THEN NoColumn ELSE Head(present)

IsConfirmed(file, field, column) ==
  /\ field = "date" => HoldsDates(file, column)
  /\ field \in {"amount", "debit", "credit"} => HoldsAmounts(file, column)

Confirmed(file, field) ==
  LET column == Named(file, field)
  IN IF column # NoColumn /\ IsConfirmed(file, field, column) THEN column ELSE NoColumn

FoundDate(file) ==
  LET holders == SelectSeq(file.headers, LAMBDA header : HoldsDates(file, header))
  IN IF Confirmed(file, "date") # NoColumn THEN Confirmed(file, "date")
     ELSE IF holders = <<>> THEN NoColumn ELSE Head(holders)

Mapping(date, description, merchant, id, amount, debit, credit) ==
  [date |-> date, description |-> description, merchant |-> merchant, id |-> id,
   amount |-> amount, debit |-> debit, credit |-> credit, sign |-> "OUTFLOW_NEGATIVE"]

NoMapping == Mapping(NoColumn, NoColumn, NoColumn, NoColumn, NoColumn, NoColumn, NoColumn)

\* ColumnMapping.__post_init__: a signed column or a pair, never both.
MappingIsValid(mapping) ==
  /\ mapping.date # NoColumn /\ mapping.description # NoColumn
  /\ (mapping.amount # NoColumn) # (mapping.debit # NoColumn \/ mapping.credit # NoColumn)

ValidOrNone(mapping) == IF MappingIsValid(mapping) THEN mapping ELSE NoMapping

DetectMapping(file) ==
  LET description == Confirmed(file, "description")
      merchant == Confirmed(file, "merchant")
  IN ValidOrNone(Mapping(FoundDate(file), IF description = NoColumn THEN merchant ELSE description,
                         merchant, NoColumn, Confirmed(file, "amount"),
                         Confirmed(file, "debit"), Confirmed(file, "credit")))

SourceColumns(mapping) ==
  {mapping.date, mapping.description, mapping.merchant, mapping.id,
   mapping.amount, mapping.debit, mapping.credit} \ {NoColumn}

-----------------------------------------------------------------------------
\* detect_date_order: what the values of a column say together.
SaysDayFirst(cell) == cell.kind = "numeric" /\ cell.first > LastMonth
SaysMonthFirst(cell) == cell.kind = "numeric" /\ cell.second > LastMonth

DetectDateOrder(cells) ==
  LET Some(Test(_)) == \E i \in DOMAIN cells : Test(cells[i])
  IN IF Some(SaysDayFirst) /\ Some(SaysMonthFirst) THEN "AMBIGUOUS"
     ELSE IF Some(SaysDayFirst) THEN "DAY_FIRST"
     ELSE IF Some(SaysMonthFirst) THEN "MONTH_FIRST"
     ELSE IF Some(LAMBDA cell : cell.kind = "iso") THEN "ISO"
     ELSE "AMBIGUOUS"

\* parse_date.
Built(month, day) == IF month \in 1..LastMonth /\ day \in 1..LastDay THEN <<month, day>> ELSE NoDate

ParseDate(cell, order) ==
  IF cell.kind = "iso" THEN Built(cell.first, cell.second)
  ELSE IF cell.kind # "numeric" \/ order = "AMBIGUOUS" THEN NoDate
  ELSE IF order = "DAY_FIRST" THEN Built(cell.second, cell.first)
  ELSE Built(cell.first, cell.second)

-----------------------------------------------------------------------------
\* _is_not_a_transaction, _reject_ragged.
IsNotATransaction(headers, line, mapping) ==
  \A column \in SourceColumns(mapping) : CellOf(headers, line, column) = Blank

IsRagged(headers, line) == Len(line) # Len(headers)

\* parse_amount: a reference number is a number too.
IsAmount(cell) == cell.kind \in {"amount", "reference"}

ColumnOr(headers, line, column) == IF column = NoColumn THEN Blank ELSE CellOf(headers, line, column)

DescriptionOf(headers, line, mapping) ==
  LET description == CellOf(headers, line, mapping.description)
  IN IF description # Blank THEN description ELSE ColumnOr(headers, line, mapping.merchant)

\* normalise_description drops what varies from one charge to the next.
Merchant(description) ==
  IF description.kind = "text" THEN <<"text", description.first>>
  ELSE <<description.kind, description.first, description.second>>

\* _amount, FALSE where the line has no single amount.
HasAmount(headers, line, mapping) ==
  LET debit == ColumnOr(headers, line, mapping.debit)
      credit == ColumnOr(headers, line, mapping.credit)
  IN IF mapping.amount # NoColumn THEN IsAmount(CellOf(headers, line, mapping.amount))
     ELSE (debit = Blank) # (credit = Blank) /\ IsAmount(IF debit = Blank THEN credit ELSE debit)

AmountOf(headers, line, mapping) ==
  LET signed == CellOf(headers, line, mapping.amount).first
      debit == ColumnOr(headers, line, mapping.debit)
  IN IF mapping.amount # NoColumn THEN IF mapping.sign = "OUTFLOW_POSITIVE" THEN -signed ELSE signed
     ELSE IF debit = Blank THEN CellOf(headers, line, mapping.credit).first
     ELSE -Magnitude(debit.first)

\* _to_row.
Parses(headers, line, mapping, order) ==
  /\ ~IsRagged(headers, line)
  /\ ParseDate(CellOf(headers, line, mapping.date), order) # NoDate
  /\ DescriptionOf(headers, line, mapping) # Blank
  /\ HasAmount(headers, line, mapping)

Parsed(file, i, mapping, order) ==
  [line |-> i + 1,
   postedOn |-> ParseDate(CellOf(file.headers, file.lines[i], mapping.date), order),
   merchant |-> Merchant(DescriptionOf(file.headers, file.lines[i], mapping)),
   amount |-> AmountOf(file.headers, file.lines[i], mapping),
   id |-> ColumnOr(file.headers, file.lines[i], mapping.id)]

\* preview_csv.  `request` supplies a mapping, an order and a sign, or does not.
Resolved(file, request) ==
  [(IF request.mapping = NoMapping THEN DetectMapping(file) ELSE request.mapping)
    EXCEPT !.sign = IF request.sign = Unstated THEN @ ELSE request.sign]

NoPreview == [ok |-> FALSE, rows |-> <<>>, errors |-> 0, total |-> 0, blank |-> 0]

PreviewWith(file, mapping, order) ==
  LET rows == {i \in Numbered(file) : ~IsNotATransaction(file.headers, file.lines[i], mapping)}
      good == {i \in rows : Parses(file.headers, file.lines[i], mapping, order)}
  IN [ok |-> TRUE, rows |-> [i \in good |-> Parsed(file, i, mapping, order)],
      errors |-> Cardinality(rows \ good), total |-> Cardinality(rows),
      blank |-> Cardinality(Numbered(file) \ rows)]

PreviewCsv(file, mapping, order) ==
  IF \/ mapping.date = NoColumn
     \/ \E column \in SourceColumns(mapping) : ~\E i \in DOMAIN file.headers : file.headers[i] = column
  THEN NoPreview
  ELSE PreviewWith(file, mapping,
         IF order # Unstated THEN order ELSE DetectDateOrder(SampleOf(file, mapping.date)))

-----------------------------------------------------------------------------
\* Mutant: the amounts are grouped as they are written, not in cents.
RoundedAsWritten(amount) == amount

\* CURRENCY_DISPLAY: half a cent is rounded away from zero.
Rounded(amount) == Signed(amount, (2 * Magnitude(amount) + Cent) \div (2 * Cent))

\* compute_fingerprint, and plan_records' grouping key.
FingerprintOf(row) ==
  <<row.postedOn, row.merchant, Signed(row.amount, (2 * Magnitude(row.amount) + Cent) \div (2 * Cent))>>
KeyOf(row) == <<row.postedOn, row.merchant, Rounded(row.amount)>>

Ids(rows) == [i \in DOMAIN rows |-> rows[i].id]

Covers(window, day) ==
  /\ window.start[1] < day[1] \/ (window.start[1] = day[1] /\ window.start[2] <= day[2])
  /\ day[1] < window.end[1] \/ (day[1] = window.end[1] /\ day[2] <= window.end[2])

\* plan_records' refusals.
MayPlan(preview, mode, mapping, window) ==
  /\ preview.ok /\ preview.errors = 0 /\ DOMAIN preview.rows # {}
  /\ mode = "incremental" => /\ mapping.id # NoColumn
                             /\ \A i \in DOMAIN preview.rows : preview.rows[i].id # Blank
                             /\ IsInjective(Ids(preview.rows))
  /\ mode = "snapshot" => /\ window # NoWindow
                          /\ \A i \in DOMAIN preview.rows : Covers(window, preview.rows[i].postedOn)

Occurrences(rows) ==
  [i \in DOMAIN rows |-> Cardinality({j \in DOMAIN rows : j <= i /\ KeyOf(rows[j]) = KeyOf(rows[i])})]

PlanRecords(rows) ==
  [i \in DOMAIN rows |->
     [line |-> rows[i].line, postedOn |-> rows[i].postedOn, merchant |-> rows[i].merchant,
      amount |-> rows[i].amount, id |-> rows[i].id, occurrence |-> Occurrences(rows)[i]]]

\* import_csv up to the batch: the file as it was when the first digest was
\* taken, when it was read and when the digest was taken again.
DigestsAgree(versions) == versions[1] = versions[3]

Planned(versions, request, mapping, preview) ==
  IF \/ request.mode = "snapshot" /\ request.mapping.id # NoColumn
     \/ ~DigestsAgree(versions)
     \/ ~MayPlan(preview, request.mode, mapping, request.window)
  THEN [ok |-> FALSE, records |-> <<>>, checksum |-> versions[3]]
  ELSE [ok |-> TRUE, records |-> PlanRecords(preview.rows), checksum |-> versions[3]]

ImportCsv(versions, request) ==
  LET mapping == Resolved(versions[2], request)
  IN Planned(versions, request, mapping, PreviewCsv(versions[2], mapping, request.order))

-----------------------------------------------------------------------------
HasContent(file, mapping, i) ==
  \E column \in SourceColumns(mapping) : CellOf(file.headers, file.lines[i], column) # Blank

(* What import_csv plans is the file whose digest it records, all of it:    *)
(* every line that holds anything in a mapped column becomes one record,    *)
(* under its own line number, and none of them was ragged; debits are money *)
(* out however they are signed; and no two records of the plan share what   *)
(* the table's unique keys compare.  (A file that changes does not change   *)
(* back between the two digests.)                                           *)
PlanIsWhole(answer, mapping, request) ==
  LET file == answer.checksum
      records == answer.records
      Earlier(i) == {j \in DOMAIN records : j < i}
  IN answer.ok =>
       /\ DOMAIN records = {i \in DOMAIN file.lines : HasContent(file, mapping, i)}
       /\ \A i \in DOMAIN records :
            /\ records[i].line = i + 1
            /\ Len(file.lines[i]) = Len(file.headers)
            /\ mapping.debit # NoColumn /\ CellOf(file.headers, file.lines[i], mapping.debit) # Blank
                 => records[i].amount <= 0
            /\ records[i].occurrence > 1 =>
                 \E j \in Earlier(i) :
                   /\ FingerprintOf(records[j]) = FingerprintOf(records[i])
                   /\ records[j].occurrence = records[i].occurrence - 1
            /\ \A j \in Earlier(i) :
                 IF request.mode = "incremental" THEN records[j].id # records[i].id
                 ELSE \/ FingerprintOf(records[j]) # FingerprintOf(records[i])
                      \/ records[j].occurrence # records[i].occurrence

ReadsBothWays(cell) ==
  /\ cell.kind = "numeric" /\ cell.first # cell.second
  /\ Built(cell.first, cell.second) # NoDate /\ Built(cell.second, cell.first) # NoDate

(* The importer asks instead of picking (detect_date_order, parse_date): a  *)
(* date that reads both ways is planned, with no order stated, only if some *)
(* date of its column can be read one way alone and so settles the order.   *)
NoDateIsGuessed(answer, mapping, request) ==
  LET file == answer.checksum
      dates == [i \in DOMAIN file.lines |-> CellOf(file.headers, file.lines[i], mapping.date)]
  IN answer.ok /\ request.order = Unstated =>
       \A i \in DOMAIN dates : ReadsBothWays(dates[i]) =>
         \E j \in DOMAIN dates : SaysDayFirst(dates[j]) \/ SaysMonthFirst(dates[j])
=============================================================================
