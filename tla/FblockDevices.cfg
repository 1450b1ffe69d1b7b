CONSTANTS
    Fblock = {o1, o2, o3}
    FbName = {a}
    Device = {eth0, eth1}
    Type = {"dummy", "tee"}
    MaxIdp = 4
    Nb = {1, 2, 3, 4}
    Commands <- Devices
    Failures = {"radix"}
    MaxRef = 12
    NULL = NULL
SPECIFICATION Spec
SYMMETRY Symmetry
INVARIANTS  RefcountExact
  
CHECK_DEADLOCK FALSE
