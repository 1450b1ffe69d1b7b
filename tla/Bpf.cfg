CONSTANTS
    NCpu = 2
    Proc = {p1, p2}
    Prog = {g1, g2, bad}
    Bad = {bad}
    Sf = {f1, f2, f3, f4}
    RacingRemoval = FALSE
    NULL = NULL
SPECIFICATION Spec
SYMMETRY BpfSymmetry
INVARIANTS NoFreedFilter OneOwner AllOrNothing
