CONSTANTS
    Lines = {l1, l2, l3}
    Ids = {i1}
    IdOf <- OneId
    Kinds = {"initialize", "call", "cancel"}
    Workers = {w1}
    Reader = Reader
    Stoppers = {s1}
    KillSwitch = FALSE
    NoLine = NoLine
SPECIFICATION Spec
SYMMETRY Symmetry
INVARIANTS ActiveUnlessShared
PROPERTIES QuietAfterRun
CHECK_DEADLOCK FALSE
