CONSTANTS
    Fb = {a}
    NCpu = 2
    Ctl = {p}
    CtlCpu <- LastCpu
    RxCpu = {1, 2}
    Kinds <- OneKind
    NULL = NULL
SPECIFICATION FairSpec
PROPERTY Responsive
CHECK_DEADLOCK FALSE
