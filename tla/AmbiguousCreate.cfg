SPECIFICATION Spec
CONSTANTS
    Ops = {o1}
    Agents = {a1}
    NoJob = NoJob
    MaxPoll = 2
    MaxFaults = 0
    MaxInFlight = 1
INVARIANT AmbiguousCreateGoesToReview
CHECK_DEADLOCK FALSE
