CONSTANTS
    Tasks = {t1, t2, t3}
    Workers = {w1, w2}
    Stoppers = {s1, s2}
    QueueCap = 1
    NoTask = NoTask
SPECIFICATION Spec
SYMMETRY PoolSymmetry
PROPERTY SubmitNeverPanics
