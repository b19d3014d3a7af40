------------------------------ MODULE MCReports ------------------------------
(***************************************************************************)
(* The reader of reports and what it computes, over two years of two months *)
(* of three days: a month boundary inside a year and one across it.         *)
(***************************************************************************)
EXTENDS ReportReads, ReportTree

CONSTANTS
  Amount,        \* row -> cents
  Merchant       \* row -> normalised_merchant

ASSUME LedgerAssumption ==
  /\ IsFiniteSet(RowIds) /\ RowIds \cap Codes = {}
  /\ Amount \in [RowIds -> Int]
  /\ Labels \subseteq SpendingLabels \cup Kinds

MCPostedOn == [r \in RowIds |-> CASE r = "r1" -> 3 [] r = "r2" -> 5 [] r = "r3" -> 7 [] r = "r4" -> 4]

MCAmount == [r \in RowIds |-> CASE r = "r1" -> -2 [] r = "r2" -> 1 [] r = "r3" -> -1 [] r = "r4" -> 0]

MCMerchant == [r \in RowIds |-> IF r \in {"r1", "r3"} THEN "grocer" ELSE "bank"]

\* Two snapshots with a day between them, one that overlaps and outlasts
\* the second, and an incremental file whose window says nothing.
MCMode == [b \in Batches |-> IF b = "b4" THEN "incremental" ELSE "snapshot"]
MCWindow == [b \in Batches |->
  CASE b = "b1" -> <<3, 3>> [] b = "b2" -> <<5, 7>> [] b = "b3" -> <<4, 9>> [] b = "b4" -> <<4, 4>>]
MCBatchRows == [b \in Batches |->
  CASE b = "b1" -> {"r1"} [] b \in {"b2", "b3"} -> {"r3"} [] b = "b4" -> {"r4"}]

\* A behaviour begins with nothing stored, or with everything imported and
\* the rows in any state that categorising and reviewing can leave.
Settled ==
  {[suggested |-> l, sure |-> l \in Labels, confirmed |-> Null] :
     l \in Labels \cup {Null, Unknown}} \cup
  {[suggested |-> Unknown, sure |-> FALSE, confirmed |-> c] : c \in Labels \cup {Unknown}}

MCInit ==
  \/ ReadsInit
  \/ /\ imported = Batches /\ stored = RowIds
     /\ verdict \in {v \in [RowIds -> Settled] : v["r4"] = Blank}
     /\ writes = MaxWrites
     /\ query = "none" /\ plan = <<>> /\ seen = NothingSeen /\ loaded = <<>>

MCSpec == MCInit /\ [][ReadsNext]_readsVars

\* The rows a report was built from, as load_month hands them on.
EntriesOf(report) ==
  [r \in report.rows |->
     [amount |-> Amount[r], merchant |-> Merchant[r],
      label |-> Effective(report.verdicts[r]), confirmed |-> report.verdicts[r].confirmed # Null]]

\* Every report that is read builds, accounts for every row of it and claims
\* no more evidence than its rows have.
ReportsBuild ==
  \A i \in 1..Len(loaded) :
    LET rows == EntriesOf(loaded[i])
    IN TreeAccountsForRows(rows, loaded[i].classified) /\ EvidenceIsHonestFor(rows)

\* Every comparison that is read reconciles.
DebitsAreAccountedFor ==
  query = "compare" /\ Len(loaded) = 2 =>
    DebitsAccountedFor(EntriesOf(loaded[1]), EntriesOf(loaded[2]))
=============================================================================
