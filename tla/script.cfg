CONSTANTS
    w1 = w1
    w2 = w2
    Workers = {w1, w2}
    NoWorker = NoWorker
    Scripts <- TheScripts
    CallsOf <- TheCalls
    MaxCount = 4
    ScriptTime = 1
    Timeout = 2
    PipeSize = 2
    MaxOutput = 1
    MaxWrites = 2
    Endless = FALSE
SPECIFICATION FairSpec
INVARIANTS OutputComplete NothingLeft OwnRun
PROPERTIES CallsReturn
CHECK_DEADLOCK FALSE
