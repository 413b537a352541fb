SPECIFICATION Spec
CONSTANTS
    j1 = j1
    j2 = j2
    k1 = k1
    k2 = k2
    a1 = a1
    Jobs = {j1, j2}
    Kms = {k1, k2}
    Agents = {a1}
    MaxAttempts = 1
    MaxIssue = 1
    MaxKeys = 1
    Faults = {"crash", "lose", "printer", "disable"}
SYMMETRY PrintSymmetry
INVARIANT
    CompletedJobIsPrinted
CHECK_DEADLOCK FALSE
