CONSTANTS
    Subsys = {eth, ethvlink}
    EthVlink = ethvlink
    Type <- SameType
    MaxSubsys = 2
    Vname = {v1, v2}
    Carrier = {c1, c2}
    Tag = {t1, t2}
    StrayStop = FALSE
    MaxRefs = 5
    NULL = NULL
SPECIFICATION Spec
SYMMETRY VlinkSymmetry
INVARIANTS TagsUnique HookExact  FrameMeetsBlock
PROPERTY LastClientUnhooks
CHECK_DEADLOCK FALSE
