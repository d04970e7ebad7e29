CONSTANTS
    Lines = {l1, l2, l3}
    Ids = {l1, l2, l3}
    IdOf <- OwnId
    Kinds = {"initialize", "call", "ping", "unprintable"}
    Workers = {w1}
    Reader = Reader
    Stoppers = {}
    KillSwitch = TRUE
    NoLine = NoLine
SPECIFICATION FairSpec
PROPERTIES EveryRequestAnswered RunEnds ReaderNeverBlocks
CHECK_DEADLOCK FALSE
