CONSTANTS
    Cpu = {c1, c2}
    Skb = {s1, s2, s3}
    MaxHops = 2
    EntryIdp = {0, 1, 2}
    TimerCpus <- RoamingTimers
    Threshold = 1
    NULL = NULL
SPECIFICATION Spec
SYMMETRY SafetySymmetry
INVARIANTS TypeOK OneContextInEngine ActiveExact SingleOwner NoBug
PROPERTY ImplementsFlow
CHECK_DEADLOCK FALSE
