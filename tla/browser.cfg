CONSTANTS
    c1 = c1
    c2 = c2
    Callers = {c1, c2}
    ToolsOf <- SomeToolAndNavigate
    Limit = 1
    WaitLimit = 1
    MaxFrames = 1
    Launchable = TRUE
SPECIFICATION FairSpec
INVARIANTS OwnAnswer StepsAsPlanned
PROPERTIES CallsEnd
CHECK_DEADLOCK FALSE
