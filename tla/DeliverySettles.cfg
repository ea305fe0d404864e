CONSTANTS
    j1 = j1
    j2 = j2
    w1 = w1
    w2 = w2
    e1 = e1
    Endpoint <- OneEndpoint
    NoTask = NoTask
    MaxRetries = 2
    Bonus = 1
    QueueCap = 1
    SemCap = 1
    TriggerCap = 1
    Jobs = {j1}
    Workers = {w1, w2}
    Blockable = {}
    Codes = {200}
    BatchSize = 1
    Limit <- EachOnce
    Budget = 2
SPECIFICATION FairSpec
PROPERTIES
    EverySettled
