SPECIFICATION MCSpec
CONSTANTS
  Threads = {"t1", "t2"}
  Spellings = {"ann", "ann ", "bob"}
  Address <- MCAddress
  MaxAttempts = 2
  Window = 2
  MaxTime = 2
  MaxCalls = 4
  Users = {"ann", "bob"}
  Passwords = {"secret"}
  AccountKeys = {"checking"}
  Requests = {"r1"}
  Operators = {"o1", "o2"}
  TTL = 1
  MaxNow = 1
  MaxCommands = 2
  MaxRequests = 2
INVARIANTS
  SequentialBudget
  NoFalseRefusal
  DeactivationTakesEffect
  RegistrationIsDecided
  TenantsAreSeparate
PROPERTY
  DeactivationStands
CHECK_DEADLOCK FALSE
