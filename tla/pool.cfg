CONSTANTS
    Workers = {w1, w2}
    Callers = {c1, c2}
    Tasks = {t1, t2}
    NoTask = NoTask
SPECIFICATION FairSpec
INVARIANTS TypeOK FifoNoLoss OneStopper NoLostWakeups
PROPERTIES WaitIdleSound ImplementsTaskPool WaitIdleEnds StopEnds
