SPECIFICATION FairSpec
CONSTANTS
    Ops = {o1}
    Agents = {a1}
    NoJob = NoJob
    MaxPoll = 2
    MaxFaults = 2
    MaxInFlight = 2
PROPERTIES
    JobsComplete
    ProcessingEnds
CHECK_DEADLOCK FALSE
