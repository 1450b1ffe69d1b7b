CONSTANTS
    Fb = {a, b}
    NCpu = 2
    Ctl = {p}
    CtlCpu <- LastCpu
    RxCpu = {1}
    Kinds <- AllKinds
    NULL = NULL
SPECIFICATION Spec
SYMMETRY FbSymmetry
INVARIANTS  ConnectionsSymmetric  SuccessHasNext
CHECK_DEADLOCK FALSE
