CONSTANTS
    r1 = r1
    r2 = r2
    r3 = r3
    r4 = r4
    clean = clean
    hostile = hostile
    u1 = u1
    Requests = {r1, r2}
    Bodies = {clean, hostile}
    Body <- AllButOneClean
    Empty = {}
    Hostile = {hostile}
    Forged = {r4}
    Modes = {"PASS"}
    Targets = {u1}
    NoTarget = NoTarget
    Limit <- OneFault
    Budget = 1
SPECIFICATION Spec
SYMMETRY TwinSymmetry
INVARIANT DuplicateWasProcessed
