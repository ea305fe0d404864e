CONSTANTS
    a1 = a1
    x1 = x1
    x3 = x3
    c1 = c1
    f1 = f1
    f2 = f2
    Agents = {a1}
    Streams = {s1}
    AgentOf <- OneAgent
    NoStream = NoStream
    Scans = {x1}
    Commits = {c1}
    CommitOf <- CommitTwice
    NoCommit = NoCommit
    Findings = {f1, f2}
    FindingsOf <- TwoOneNone
    Limit <- EachOnce
    Budget = 0
SPECIFICATION FairSpec
PROPERTY ShutdownProceeds
