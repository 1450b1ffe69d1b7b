CONSTANTS
    e1 = e1
    e2 = e2
    e3 = e3
    e4 = e4
    Key <- Names
    Width = 2
    Elem = {e1, e2, e3, e4}
    KeyOf <- NameOf
    Node = {n1, n2, n3}
    Reader = {r1}
    NULL = NULL
SPECIFICATION Spec
SYMMETRY NodeSymmetry
INVARIANTS TreeIsSet NodesExact NoFreedMemory LookupLinearizable
CHECK_DEADLOCK FALSE
