CONSTANTS
    Fblock = {o1, o2, o3}
    FbName = {a, b, c}
    Device = {}
    Type = {"dummy"}
    MaxIdp = 3
    Nb = {1, 2, 3, 4}
    Commands <- Stack
    Failures = {}
    MaxRef = 12
    NULL = NULL
SPECIFICATION Spec
SYMMETRY Symmetry
INVARIANTS TypeOK TablesConsistent RefcountExact PortsPaired FreedWithoutNotifiers SubscriptionsDelivered
 
CHECK_DEADLOCK FALSE
