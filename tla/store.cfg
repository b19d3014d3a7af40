SPECIFICATION FairSpec
CONSTANTS
    Sessions = {s1, s2}
    a = a
    b = b
    i1 = i1
    i2 = i2
    i3 = i3
    f1 = f1
    f2 = f2
    NoId = NoId
    Nothing = Nothing
    Fingerprints = {a, b}
    ExternalIds = {i1, i2, i3}
    Files = {f1, f2}
    FileRows <- MCFileRows
    Modes = {"snapshot", "incremental"}
    Entered = {a}
    MaxOccurrence = 2
INVARIANTS
    OccurrencesContiguous
    BatchIsComplete
PROPERTIES
    AnswersAreTrue
    SoloNeverConflicts
    ModesMixOnlyByOverlap
    ImplementsLedger
    EveryOperationEnds
