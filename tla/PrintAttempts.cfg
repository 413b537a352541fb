SPECIFICATION Spec
CONSTANTS
    j1 = j1
    k1 = k1
    a1 = a1
    a2 = a2
    Jobs = {j1}
    Kms = {k1}
    Agents = {a1, a2}
    MaxAttempts = 2
    MaxIssue = 2
    MaxKeys = 2
    Faults = {"crash", "lose", "lapse", "corrupt", "printer", "disable", "rekey"}
SYMMETRY PrintSymmetry
INVARIANTS
    OneLabelPerItem
    VerdictsMatchSpooler
    DisclosureStaysSafe
    LedgerLeadsSpooler
PROPERTY
    ConcludedIsFinal
CHECK_DEADLOCK FALSE
