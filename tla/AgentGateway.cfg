CONSTANTS
    a1 = a1
    x1 = x1
    x3 = x3
    c1 = c1
    f1 = f1
    f2 = f2
    Agents = {a1}
    Streams = {s1, s2}
    AgentOf <- OneAgent
    NoStream = NoStream
    Scans = {x1, x2, x3}
    Commits = {c1}
    CommitOf <- CommitTwice
    NoCommit = NoCommit
    Findings = {f1, f2}
    FindingsOf <- TwoOneNone
    Limit <- EachOnce
    Budget = 1
SPECIFICATION FairSpec
INVARIANTS
    TypeOK
    SessionsLive
    ListedUnlessShared
    OneScanPerCommit
    AcceptedScanStored
    FindingsComplete
PROPERTIES
    StopEnds
