CONSTANTS
  MaxAttempts = 3
  BaseDelay = 1
  MaxDelay = 2
  Deadline = 4
  MaxHonoured = 3
  LongestAttempt = 1
  Hints = {1, 5}
  MaxTurns = 2
  Tools = {"compare", "explain"}
  UseBlocks <- MCUseBlocks
  Gold <- MCGold
  Labels = {"FOOD"}
  Foreign = "MARS"
  Abstain = "ABSTAIN"
  Confidences = {60, 90}
  Threshold = 75
  MaxRows = 2
SPECIFICATION MCSpec
INVARIANTS RetriesKeepTheBudget EveryCallAnsweredOnce FiguresAddUp
PROPERTIES EveryRunEnds
CHECK_DEADLOCK FALSE
