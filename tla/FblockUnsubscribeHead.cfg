CONSTANTS
    Fblock = {o1, o2, o3}
    FbName = {a, b, c}
    Device = {}
    Type = {"dummy"}
    MaxIdp = 3
    Nb = {1, 2, 3, 4}
    Commands = {"ADD", "SUBSCRIBE", "UNSUBSCRIBE"}
    Failures = {}
    MaxRef = 12
    NULL = NULL
SPECIFICATION SpecAny
SYMMETRY Symmetry
INVARIANT ChainsSubscribed
CHECK_DEADLOCK FALSE
