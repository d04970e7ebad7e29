CONSTANTS
    Lines = {l1, l2, l3, l4}
    Ids = {l1, l2, l3, l4}
    IdOf <- OwnId
    Kinds = {"initialize", "call", "cancel", "list", "garbled", "unprintable", "ignored"}
    Workers = {w1, w2}
    Reader = Reader
    Stoppers = {}
    KillSwitch = FALSE
    NoLine = NoLine
SPECIFICATION Spec
SYMMETRY Symmetry
INVARIANTS OneReply CancelHonoured ActiveExact DrainAnswersAll
CHECK_DEADLOCK FALSE
