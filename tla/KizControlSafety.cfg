SPECIFICATION Spec
CONSTANTS
    Kizzes = {1, 2}
    Events = {1, 2, 3}
    KizOf <- MCKizOf
    FactsOf <- MCFactsOf
    Assemblable = {1, 2}
    Files <- TwoFiles
    MaxControls = 3
    Txns = {t1, t2}
    NoTxn = NoTxn
SYMMETRY TxnSymmetry
INVARIANTS
    ImportsNeverCollide
    BatchesNeverCollide
PROPERTIES
    WritesFollowHistory
