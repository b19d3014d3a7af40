SPECIFICATION MCSpec
CONSTANTS
  RowIds = {"r1", "r2", "r3", "r4"}
  PostedOn <- MCPostedOn
  Batches = {"b1", "b2", "b3", "b4"}
  BatchMode <- MCMode
  BatchWindow <- MCWindow
  BatchRows <- MCBatchRows
  Labels = {"INCOME", "REFUND", "TRANSFER", "GROCERIES"}
  SpendingLabels = {"GROCERIES"}
  Amount <- MCAmount
  Merchant <- MCMerchant
  LastYear = 2
  MonthsPerYear = 2
  DaysPerMonth = 3
  MaxWrites = 1
INVARIANTS
  CompleteMeansEveryDay
  ListedCompleteIsWhole
  EveryRowInOneMonth
  ReportsBuild
  DebitsAreAccountedFor
CHECK_DEADLOCK FALSE
