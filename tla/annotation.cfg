SPECIFICATION FairSpec
CONSTANTS
  RowIds = {"june-2", "june-3", "july-2"}
  MerchantNames = {"cafe", "cafe bar"}
  Merchant <- MCMerchant
  Statements = {"june", "july"}
  RowsOf <- MCRowsOf
  Labels = {"DINING", "DRINKS"}
  CutLabels = {"D"}
  CutTo <- MCCutTo
  Texts = {"l1", "l2", "zz"}
  Meaning <- MCMeaning
  Alphabet <- MCAlphabet
  Abstain = "UNKNOWN"
  Bucket <- MCBucket
  HoldoutBelow = 3
  Thresholds <- MCThresholds
  SaveEvery = 2
  NoInputLimit = 2
  MaxPasses = 3
  MaxDetours = 2
CHECK_DEADLOCK FALSE
INVARIANTS
  SuggestionsAreOnesOwn
  CrashCostsLittle
  FinishedLeavesOnlySkipped
  EvaluationStands
PROPERTY
  DeadTerminalEnds
