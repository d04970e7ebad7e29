CONSTANTS
    Lines = {l1, l2, l3}
    Ids = {l1, l2, l3}
    IdOf <- OwnId
    Kinds = {"initialize", "call"}
    Workers = {w1}
    Reader = Reader
    Stoppers = {s1}
    KillSwitch = FALSE
    NoLine = NoLine
SPECIFICATION FairSpec
PROPERTIES StopEndsRun
CHECK_DEADLOCK FALSE
