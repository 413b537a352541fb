SPECIFICATION Spec
CONSTANTS
    Ops = {o1}
    Agents = {a1, a2}
    NoJob = NoJob
    MaxPoll = 2
    MaxFaults = 2
    MaxInFlight = 2
SYMMETRY AgentSymmetry
INVARIANTS
    AtMostOneCreate
    VerdictsAreTrue
    
PROPERTIES
    EvidenceIsFinal
    ImplementsContract
CHECK_DEADLOCK FALSE
