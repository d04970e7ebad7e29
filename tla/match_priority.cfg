CONSTANTS
    Callers = {"script", "tool"}
    NoOne = "none"
    Places = {"p", "q"}
    Buttons = {"left"}
    Keys = {"ctrl", "shift", "s"}
    Words <- TheWords
    NoId = 0
    AnyType = "any"
    Script = "script"
    Desktops <- TheDesktops
    Queries <- TheQueries
    Types <- TheTypes
    InputCalls <- TheCalls
SPECIFICATION Spec
INVARIANTS PriorityKept
