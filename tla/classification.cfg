SPECIFICATION FairSpec
CONSTANTS
    A = A
    B = B
    Other = Other
    shop = shop
    payroll = payroll
    Rows = {1, 2, 3, 4}
    Posted <- MCPosted
    Merchant <- MCMerchant
    Labels = {A, B}
    Abstain = UNKNOWN
    Null = NULL
    RuleSays <- MCRuleSays
    Rules = rules
    Models = {m1}
    ModelSays <- MCModelSays
    Runs = {c1}
    People = {p1}
    ChunkSize = 1
    Limits = {4}
    Choices = {B}
    Nothing = Nothing
INVARIANTS
    ResumeAsksOnlyTheRest
PROPERTIES
    DecisionsStand
    FinishedMeansExamined
    RunsEndUnlessAtPrompt
