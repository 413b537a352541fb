CONSTANTS
    None = None
    u1 = u1
    u2 = u2
    o1 = o1
    o2 = o2
    Units = {u1, u2}
    Pack = pack
    Ops = {o1, o2}
    Batches <- MCBatches
    Kinds <- MCKinds
    Insides <- MCInsides
    Emissions = {"LOCAL", "FOREIGN", "REMARK"}
    Causes = {"REMOTE_SALE_RETURN", "DESTRUCTION"}
    Quantity = 2
    CallerRereads = TRUE
    Orgs = {"org"}
    Txns = {t1, cli}
    Cli = cli
    Keys <- MCKeys
    Types <- MCTypes
    Def <- MCDef
    Roles = {"OWNER"}
    NoRole = "NONE"
    MaxRows = 5
    MaxDay = 1
SPECIFICATION Spec
INVARIANTS ReconciledMeansVisible OneDocument ChainIntact VerdictsSound
CHECK_DEADLOCK FALSE
