CONSTANTS
    r1 = r1
    r2 = r2
    r3 = r3
    r4 = r4
    clean = clean
    hostile = hostile
    u1 = u1
    Requests = {r1, r2, r3, r4}
    Bodies = {clean, hostile}
    Body <- AllButOneClean
    Empty = {}
    Hostile = {hostile}
    Forged = {r4}
    Modes = {"PASS", "BLOCK", "MOCK"}
    Targets = {u1}
    NoTarget = NoTarget
    Limit <- EachOnce
    Budget = 1
SPECIFICATION Spec
SYMMETRY TwinSymmetry
INVARIANTS
    TypeOK
    OneJobPerBody
    OutboxComplete
    AnsweredIsStored
    TurnedAwayNeverQueued
