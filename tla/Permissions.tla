----------------------------- MODULE Permissions -----------------------------
(***************************************************************************)
(* security/PermissionSystem.cpp: what a tool asks before it acts.  A      *)
(* check is the sequence of the obstacles it meets, in order: "deny" ends  *)
(* the call with an error, "ask" is a promptUser that must be answered     *)
(* with yes, and the empty sequence is ok("").                             *)
(*                                                                         *)
(* A call names a file.  Where a name leads, Location, is the business of   *)
(* the file system (current directory, "..", links), which must not change *)
(* between the check and the act; it is a sequence of characters, absolute *)
(* and in the form that weakly_canonical gives it.  The check judges what  *)
(* the name leads to once expandEnv has replaced %VAR% in it, Expansion;   *)
(* the tools act on the name as it is.  Paths of a share (\\server\share) *)
(* are not modelled.                                                       *)
(***************************************************************************)
EXTENDS Naturals, Sequences, SequencesExt, Functions

CONSTANTS
    Expansion, Location,         \* of the names in the calls, see above
    AllowedPaths, BlockedPaths,  \* allowed_paths, blocked_paths: where the
                                 \* expanded names lead
    BlockedProcesses,            \* blocked_processes, in lower case
    Dangerous,                   \* the commands that match a pattern
    ConfirmDelete, ConfirmKill, ConfirmShell,  \* confirm_...
    McpMode,                     \* g_mcpMode
    LowerOf                      \* towlower, on the characters of paths

\* promptUser is not available in the MCP mode.
Ask == IF McpMode THEN "deny" ELSE "ask"

-----------------------------------------------------------------------------
(* Paths.                                                                  *)

Backslash == "\\"
Separators == {"/", Backslash}

\* A path on a drive in the form that weakly_canonical gives it: the drive, and
\* then no two separators in a row.
IsCanonical(p) ==
    /\ p \in Seq(DOMAIN LowerOf)
    /\ Len(p) >= 2
    /\ p[1] \notin Separators
    /\ p[2] = ":"
    /\ Len(p) >= 3 => p[3] \in Separators
    /\ \A i \in 1 .. Len(p) - 1 : p[i] \notin Separators \/ p[i + 1] \notin Separators

IsPath(p) == p = <<>> \/ IsCanonical(p)

ProcessNames == [stem : STRING, exe : BOOLEAN]

ASSUME PermissionAssumption ==
    /\ Backslash \in DOMAIN LowerOf
    /\ \A c \in DOMAIN LowerOf : LowerOf[c] = Backslash <=> c = Backslash
    /\ \A p \in AllowedPaths \cup BlockedPaths : IsPath(p)
    /\ DOMAIN Expansion = DOMAIN Location
    /\ \A n \in DOMAIN Location :
          /\ Expansion[n] \in DOMAIN Location
          /\ IsPath(Location[n])
          /\ n = "" <=> Location[n] = <<>>
    /\ BlockedProcesses \subseteq ProcessNames

\* A path without trailing separators, but for the three characters c:\.
Trim(s) ==
    LET kept == {n \in 1 .. Len(s) :
                    \/ n <= 3
                    \/ s[n] # Backslash}
    IN  IF kept = {} THEN s ELSE SubSeq(s, 1, Max(kept))

Normal(p) ==
    LET lower == [i \in 1 .. Len(p) |->
                     IF p[i] = "/" THEN Backslash ELSE LowerOf[p[i]]]
        drive == IF Len(p) = 2 /\ p[2] = ":" THEN Append(lower, Backslash)
                 ELSE lower
    IN  Trim(drive)

IsSubpathOrEqual(base, target) ==
    LET b == Normal(base)
        t == Normal(target)
    IN  /\ base # <<>> /\ target # <<>>
        /\ IsPrefix(b, t)
        /\ \/ Len(t) = Len(b)
           \/ Last(b) = Backslash
           \/ t[Len(b) + 1] = Backslash

Covers(paths, p) == \E q \in paths : IsSubpathOrEqual(q, p)

\* What checkPath takes a name for.
Judged(name) == Location[Expansion[name]]

CheckPath(name) ==
    IF name = "" \/ Covers(BlockedPaths, Judged(name)) THEN <<"deny">>
    ELSE IF AllowedPaths = {} \/ Covers(AllowedPaths, Judged(name)) THEN <<>>
    ELSE <<Ask>>

CheckFileDelete(name) ==
    CheckPath(name) \o (IF ConfirmDelete THEN <<Ask>> ELSE <<>>)

-----------------------------------------------------------------------------
(* Processes and commands.  The executable of a process is a stem in lower *)
(* case (with no .exe of its own) and whether .exe follows it; proc.names  *)
(* has the name a call gives and, when that is a number, the one a         *)
(* snapshot finds for it, if any.                                          *)

NoName == [stem |-> "", exe |-> FALSE]

MatchesProcess(name, blocked) ==
    /\ name # NoName /\ blocked # NoName
    /\ \/ name = blocked
       \/ ~name.exe /\ [name EXCEPT !.exe = TRUE] = blocked
       \/ name.exe /\ [name EXCEPT !.exe = FALSE] = blocked

CheckProcess(proc) ==
    IF \/ proc.critical   \* PID 0 or 4, or no name at all
       \/ \E n \in proc.names, b \in BlockedProcesses : MatchesProcess(n, b)
    THEN <<"deny">>
    ELSE IF ConfirmKill THEN <<Ask>> ELSE <<>>

CheckShellCommand(cmd) ==
    IF cmd # "" /\ (cmd \in Dangerous \/ ConfirmShell) THEN <<Ask>> ELSE <<>>

-----------------------------------------------------------------------------
(* Operations: the calls of tools, and what a script does through winbot.  *)

\* Operations on the file with one name: of the file tools, and those that run
\* a script (lua_run; the tool of a script; the loader, for its definitions).
ScriptFiles == {"lua_run", "lua_tool", "load_script"}
PathTools == {"read_file", "write_file", "append_file", "list_directory",
              "delete_file"} \cup ScriptFiles

\* What is checked before an operation; lua_exec and reload_lua_tools check
\* nothing themselves.
ToolChecks(req) ==
    CASE req.tool = "delete_file" -> CheckFileDelete(req.path)
      [] req.tool \in PathTools \ {"delete_file"} -> CheckPath(req.path)
      [] req.tool = "copy_file" -> CheckPath(req.src) \o CheckPath(req.dst)
      [] req.tool = "kill_process" -> CheckProcess(req.proc)
      [] req.tool = "run_command" -> CheckShellCommand(req.cmd)
      [] OTHER -> <<>>
=============================================================================
