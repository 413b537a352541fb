SPECIFICATION FairSpec
CONSTANTS
    j1 = j1
    w1 = w1
    w2 = w2
    Jobs = {j1}
    Owned = {j1}
    Workers = {w1, w2}
    NoWorker = NoWorker
    MaxAttempts = 2
    MaxSemantic = 1
    MaxRows = 1
    MaxPolls = 1
INVARIANTS
    ReadyReportOpens
    AtMostOneCreate
PROPERTIES
    LocalReportsEnd
    AmbiguityIsReviewed
CHECK_DEADLOCK FALSE
