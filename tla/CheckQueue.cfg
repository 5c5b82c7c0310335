SPECIFICATION LiveSpec
CONSTANTS
    Workers = {w1, w2}
    Masters = {m1}
    Checks = {c1, c2, c3, c4}
    Failing = {c4}
    nBatchSize = 2
    NoThread = NoThread
INVARIANTS
    TodoExact
    WaitSound
    QueueReusable
PROPERTY
    WaitReturns
CHECK_DEADLOCK FALSE
