SPECIFICATION FairSpec
CONSTANTS
    MaxRuns = 3
    MaxTroubled = 1
    MaxEvents = 3
INVARIANTS
    AnswerIsTruth
    NoInvisibleRun
PROPERTIES
    PublicationsSettle
    RunsEnd
CHECK_DEADLOCK FALSE
