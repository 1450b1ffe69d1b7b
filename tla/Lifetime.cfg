CONSTANTS
    Cpu = {c1, c2}
    Fblock <- Slots
    Sock = {k}
    Skb <- Packets
    MaxIdp = 2
    RcvBuf = 1
    Failures = {"radix", "name"}
    NULL = NULL
SPECIFICATION Spec
INVARIANTS NoFreedBlock RefsExact StaleOutOfReach PacketsOwned
PROPERTIES  RemovedFreed
CHECK_DEADLOCK FALSE
