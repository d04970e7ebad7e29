CONSTANTS
    Names = {"a", "ping", "run_command"}
    Files = {f1, f2}
    Builtin = Builtin
    Builtins = {"ping", "run_command"}
    Disabled = {"run_command"}
    Contents <- ManyContents
    MaxTime = 3
    NoFile = NoFile
SPECIFICATION Spec
SYMMETRY Symmetry
INVARIANTS LoaderOwnsTools UpToDate CaughtUp
