SPECIFICATION Spec
CONSTANTS
    p = p
    q = q
    None = None
    Empty = Empty
    Torn = Torn
    Instances = {p, q}
    Faults = {"write", "crash", "damage"}
    MaxFaults = 3
INVARIANTS
    TypeOK
    RunningRoleIsStored
PROPERTIES
    LockHolds
    RoleGetsLocked
