CONSTANTS
    j1 = j1
    j2 = j2
    w1 = w1
    w2 = w2
    e1 = e1
    Endpoint <- OneEndpoint
    NoTask = NoTask
    MaxRetries = 2
    Bonus = 1
    QueueCap = 1
    SemCap = 2
    TriggerCap = 1
    Jobs = {j1}
    Workers = {w1, w2}
    Blockable = {}
    Codes = {200}
    BatchSize = 1
    Limit <- OnlyExpiry
    Budget = 1
SPECIFICATION Spec
SYMMETRY WorkerSymmetry
INVARIANT NoDoubleDelivery
