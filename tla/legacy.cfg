CONSTANTS
    MaxLines = 3
    Inputs <- AllInputs
    Calls <- AllCalls
    MaxCalls = 2
    Expansion <- OneVariable
    Location <- OneFileEach
    Hotkeys <- OneHotkey
    Letters = {"X"}
    Keys = {"X"}
    AllowedPaths <- OneAllowed
    BlockedPaths <- OneBlocked
    BlockedProcesses <- OneProcess
    Dangerous = {"format"}
    ConfirmDelete = TRUE
    ConfirmKill = TRUE
    ConfirmShell = FALSE
    McpMode = FALSE
    LowerOf <- Lower
SPECIFICATION FairSpec
INVARIANTS GrantedOnly OneUseEach AuditFirst OneLate QuitHeard
PROPERTIES SessionEnds
CHECK_DEADLOCK FALSE
