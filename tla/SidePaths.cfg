SPECIFICATION SideSpec
CONSTANTS
    Hosts = {hook, post}
    Threshold = 3
    MostFailures = 4
    Tasks = {hit}
    Severity <- MCSeverity
    Rooms = {chat1, chat2}
    Enabled = {chat1}
    MinSeverity <- MCMinSeverity
    Tries = 2
    hook = hook
    post = post
    hit = hit
    chat1 = chat1
    chat2 = chat2

    r1 = r1
    r2 = r2
    r3 = r3
    r4 = r4
    Callers = {r1, r2, r3, r4}
    Limits = {1, 2}
    Window = 2
    Latest = 3

    Webhooks = {hit}
    Retriers = {f1, f2}
    Retries = {0, 1}
    Upstream = TRUE
    f1 = f1
    f2 = f2

    Suites = {suite}
    Direct = {single}
    Length = 2
    Targeted = {1, 2}
    suite = suite
    single = single
SYMMETRY SideSymmetry
INVARIANTS
    SideTypeOK
    AlertsToldOnce
    LimitHolds
    OutcomesTrue
CHECK_DEADLOCK FALSE
