SPECIFICATION Spec
CONSTANTS
  Cent = 8
  Whole = 4
  DaysIn <- TwoMonths
  MonthsPerYear = 2
  Calculators <- MCCalculators
  Owner <- MCOwner
  Commuting = {"train"}
  Samples = 8
  DuplicateWindow = 5
  MaxCharge = 10
  MaxTransactions = 6
  MinOccurrences = 3
  CadenceTolerance = 25
  RegularityTolerance = 35
  AmountTolerance = 25
  ConfidenceCeiling = 12
  NominalDays <- MCNominalDays
  PerYear <- MCPerYear
  Fields <- MCFields
  Aliases <- MCAliases
  SampleSize = 2
  LastMonth = 2
  LastDay = 3
INVARIANT OneLifeAtATime
CHECK_DEADLOCK FALSE
