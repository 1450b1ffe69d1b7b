CONSTANTS
    Cpu = {c1, c2}
    Skb = {s1, s2, s3}
    MaxHops = 1
    EntryIdp = {1}
    TimerCpus <- TimersOfInitCpu
    Threshold = 1
    NULL = NULL
SPECIFICATION FairSpec
PROPERTY BacklogServed
CHECK_DEADLOCK FALSE
