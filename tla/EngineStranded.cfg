CONSTANTS
    Cpu = {c1, c2}
    Skb = {s1, s2}
    MaxHops = 1
    EntryIdp = {1}
    TimerCpus <- TimersOfInitCpu
    Threshold = 2
    NULL = NULL
SPECIFICATION FairSpec
PROPERTY NeverStranded

