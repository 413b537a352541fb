SPECIFICATION CycleSpec
CONSTANT Times = {0, 1}
INVARIANTS
    EffectIsConfirmed
    ConfirmationIsEvidence
    OppositesExclude
CHECK_DEADLOCK FALSE
