---------------------------- MODULE LegacySession ----------------------------
(***************************************************************************)
(* The process in its legacy mode: main() (main.cpp), the loop of          *)
(* core/ToolServer.cpp, the permission prompts of its tools and the audit  *)
(* log, with the kill switch in a thread beside them.                      *)
(*                                                                         *)
(* Everything but the hook runs in one thread.  Requests and the answers   *)
(* to prompts come through the same stdin, so a prompt takes whatever line *)
(* comes next.  A line is its place in the input, and stands for the       *)
(* request or the word it carries.  What it carries is chosen when it is   *)
(* read: nothing looks at it before.                                       *)
(*                                                                         *)
(* A tool that runs a Lua script (services/LuaRuntime.cpp) does one thing  *)
(* after another through winbot.shell, readFile and writeFile, each with   *)
(* its own check and prompts in the middle of the call; what is refused    *)
(* there is an error that the script may catch.  The scripts of the tools  *)
(* directory also run while main() or reload_lua_tools loads them.         *)
(***************************************************************************)
EXTENDS Permissions, FiniteSets

CONSTANTS
    MaxLines,  \* bound on the lines the client sends
    Inputs,    \* what a line may carry: [tool: a tool, its arguments], or a
               \* word: [tool: "yes", "no", "blank" or "malformed"]
    Calls,     \* what a script may do, and the scripts the loader may find,
               \* with the tool "load_script"
    MaxCalls,  \* bound on these in one request, or in the loading at startup
    Hotkeys, Letters, Keys

VARIABLES
    triggered, need, vk, hook, tid, stopTok, queue, hpc, kpc,
    sent,      \* how many lines the client has written to stdin
    eof,       \* the client has closed its end
    says,      \* what the lines read so far are: "request" or a word
    pc,        \* where the thread of main is
    cur,       \* the line of the request being served, or 0
    op,        \* the operation being checked: the request, or one of a script
    todo,      \* the obstacles that are left before it
    asked,     \* the lines its prompts have read
    script,    \* a script is running
    loader,    \* LuaToolLoader::reload is running
    calls,     \* how much scripts have done in this request
    result,    \* what the tool returned
    auditOn,   \* m_enabled of the audit log
    log,       \* the lines whose call has a record in audit.log
    out,       \* the lines that have a response on stdout
    answers,   \* history: the lines read by the prompts of each request, and
               \* at 0 those of the startup
    acted,     \* history: the requests for which something was done
    late       \* history: the requests read while the flag was set

killVars == <<triggered, need, vk, hook, tid, stopTok, queue, hpc, kpc>>
stdin == <<sent, eof, says>>
check == <<op, todo, asked>>
lua == <<script, loader, calls>>
call == <<cur, check, lua, result>>
files == <<auditOn, log, out>>
history == <<answers, acted, late>>
vars == <<killVars, stdin, pc, call, files, history>>

Kill == INSTANCE KillSwitch

Words == {"yes", "no", "blank", "malformed"}
Lines == 1 .. MaxLines
Requests == {x \in Inputs : x.tool \notin Words}
Operations == Requests \cup Calls

ASSUME SessionAssumption ==
    /\ MaxLines \in Nat
    /\ ~McpMode
    /\ \A h \in Hotkeys : h.mods \subseteq Kill!Modifiers
    /\ MaxCalls \in Nat
    /\ \A x \in Operations :
          /\ x.tool \in PathTools => x.path \in DOMAIN Location
          /\ x.tool = "copy_file" => {x.src, x.dst} \subseteq DOMAIN Location
          /\ x.tool = "kill_process" => x.proc.names \subseteq ProcessNames
    /\ \A o \in Calls :
          o.tool \in {"read_file", "write_file", "run_command", "load_script"}

\* A text is fit for JSON or not (not UTF-8); that of an ok may be fit whole but
\* not when it is cut to 256 bytes (the cut splits a character), or the other
\* way round.
Results == {"ok", "okCut", "okBad", "okBadLate", "error", "errorBad"}

Nothing == [tool |-> "nothing"]
ChecksOf == [x \in Operations |-> ToolChecks(x)]
NextLine == Len(says) + 1

Init ==
    /\ Kill!Init
    /\ sent = 0
    /\ eof = FALSE
    /\ says = <<>>
    /\ pc = "begin"
    /\ cur = 0
    /\ op = Nothing
    /\ todo = <<>>
    /\ asked = <<>>
    /\ script = FALSE
    /\ loader = FALSE
    /\ calls = 0
    /\ result = "ok"
    /\ auditOn = FALSE
    /\ log = <<>>
    /\ out = <<>>
    /\ answers = [l \in Lines \cup {0} |-> <<>>]
    /\ acted = {}
    /\ late = {}

-----------------------------------------------------------------------------
(* The client.                                                             *)

SendLine ==
    /\ ~eof
    /\ sent < MaxLines
    /\ sent' = sent + 1
    /\ UNCHANGED <<killVars, eof, says, pc, call, files, history>>

CloseInput ==
    /\ ~eof
    /\ eof' = TRUE
    /\ UNCHANGED <<killVars, sent, says, pc, call, files, history>>

-----------------------------------------------------------------------------
(* main(), from the kill switch to the server.                             *)

Goto(from, to) ==
    /\ pc = from
    /\ pc' = to

BeginInstall ==
    /\ Goto("begin", "installing")
    /\ \E h \in Hotkeys : Kill!Install(h)
    /\ UNCHANGED <<stdin, call, files, history>>

EndInstall ==
    /\ Goto("installing", "startup")
    /\ Kill!Installed
    /\ UNCHANGED <<stdin, call, files, history>>

\* AuditLog, which may find no file to write to, the services, and the scripts
\* of the tools directory.
Startup ==
    /\ Goto("startup", "load")
    /\ auditOn' \in BOOLEAN
    /\ loader' = TRUE
    /\ UNCHANGED <<killVars, stdin, cur, check, script, calls, result, log, out,
                   history>>

\* A value of config.json has the wrong type: json throws, before the scripts
\* are loaded or after.
StartupThrows ==
    /\ pc \in {"startup", "load"}
    /\ cur = 0
    /\ pc' = "catch"
    /\ UNCHANGED <<killVars, stdin, call, files, history>>

-----------------------------------------------------------------------------
(* ToolServer::run.                                                        *)

\* Mutant of LoopTest: the flag is not looked at.
LoopOn ==
    /\ Goto("loop", "getline")
    /\ UNCHANGED <<killVars, stdin, call, files, history>>

\* while (!KillSwitch::isTriggered() && ...
LoopTest ==
    /\ Goto("loop", IF triggered THEN "ended" ELSE "getline")
    /\ UNCHANGED <<killVars, stdin, call, files, history>>

\* getline gets a line that carries x.
GetLine(x) ==
    /\ Len(says) < sent
    /\ says' = Append(says, IF x \in Requests THEN "request" ELSE x.tool)
    /\ UNCHANGED <<sent, eof>>

\* A blank line, a comment, or what parseRequest does not accept.
SkipLine(x) ==
    /\ Goto("getline", "loop")
    /\ x \notin Requests
    /\ GetLine(x)
    /\ UNCHANGED <<killVars, call, files, history>>

\* An operation is checked before it is done.
Check(o) ==
    /\ op' = o
    /\ todo' = ChecksOf[o]
    /\ asked' = <<>>

ReadRequest(x) ==
    /\ Goto("getline", "check")
    /\ x \in Requests
    /\ GetLine(x)
    /\ cur' = NextLine
    /\ Check(x)
    /\ late' = IF triggered THEN late \cup {NextLine} ELSE late
    /\ UNCHANGED <<killVars, lua, result, files, answers, acted>>

AtEof == Len(says) = sent /\ eof

EndOfInput ==
    /\ AtEof
    /\ Goto("getline", "ended")
    /\ UNCHANGED <<killVars, stdin, call, files, history>>

-----------------------------------------------------------------------------
(* One operation.                                                          *)

Forget ==
    /\ op' = Nothing
    /\ todo' = <<>>
    /\ asked' = <<>>

\* Who called goes on: the script, the loader, or run() with what returned.
GoOn(returned) ==
    /\ pc' = IF script THEN "script" ELSE IF loader THEN "load" ELSE "audit"
    /\ result' = IF script \/ loader THEN result ELSE returned
    /\ Forget

Acting == pc = "check" /\ todo = <<>>

\* It is done, or fails in any way: dispatch catches what it throws.
Act ==
    /\ Acting
    /\ op.tool \notin ScriptFiles \cup {"lua_exec", "reload_lua_tools"}
    /\ acted' = acted \cup {cur}
    /\ \E r \in Results : GoOn(r)
    /\ UNCHANGED <<killVars, stdin, cur, lua, files, answers, late>>

StartScript ==
    /\ Acting
    /\ op.tool \in ScriptFiles \cup {"lua_exec"}
    /\ Goto("check", "script")
    /\ script' = TRUE
    /\ acted' = acted \cup {cur}
    /\ Forget
    /\ UNCHANGED <<killVars, stdin, cur, loader, calls, result, files, answers,
                   late>>

StartReload ==
    /\ Acting
    /\ op.tool = "reload_lua_tools"
    /\ Goto("check", "load")
    /\ loader' = TRUE
    /\ acted' = acted \cup {cur}
    /\ Forget
    /\ UNCHANGED <<killVars, stdin, cur, script, calls, result, files, answers,
                   late>>

Deny ==
    /\ pc = "check"
    /\ todo # <<>>
    /\ Head(todo) = "deny"
    /\ GoOn("error")
    /\ UNCHANGED <<killVars, stdin, cur, lua, files, history>>

\* promptUser writes its question and waits for a line.
Prompt ==
    /\ todo # <<>>
    /\ Head(todo) = "ask"
    /\ Goto("check", "prompt")
    /\ UNCHANGED <<killVars, stdin, call, files, history>>

\* Mutant of ReadAnswer: one yes answers the questions that are left, too.
OneYesForAll(x) ==
    /\ pc = "prompt"
    /\ GetLine(x)
    /\ answers' = [answers EXCEPT ![cur] = Append(@, NextLine)]
    /\ IF x.tool = "yes"
       THEN /\ pc' = "check"
            /\ todo' = <<>>
            /\ asked' = Append(asked, NextLine)
            /\ UNCHANGED <<op, result>>
       ELSE GoOn("error")
    /\ UNCHANGED <<killVars, cur, lua, files, acted, late>>

\* The next line is taken for the answer, whatever it is.
ReadAnswer(x) ==
    /\ pc = "prompt"
    /\ GetLine(x)
    /\ answers' = [answers EXCEPT ![cur] = Append(@, NextLine)]
    /\ IF x.tool = "yes"
       THEN /\ pc' = "check"
            /\ todo' = Tail(todo)
            /\ asked' = Append(asked, NextLine)
            /\ UNCHANGED <<op, result>>
       ELSE GoOn("error")
    /\ UNCHANGED <<killVars, cur, lua, files, acted, late>>

\* Mutant of AnswerAtEof: the question is repeated.
AskAgain ==
    /\ AtEof
    /\ Goto("prompt", "check")
    /\ UNCHANGED <<killVars, stdin, call, files, history>>

\* getline fails and leaves an empty answer.
AnswerAtEof ==
    /\ AtEof
    /\ pc = "prompt"
    /\ GoOn("error")
    /\ UNCHANGED <<killVars, stdin, cur, lua, files, history>>

-----------------------------------------------------------------------------
(* Scripts.                                                                *)

\* winbot.shell refuses once the hotkey was pressed; that only the script sees.
ScriptCall(o) ==
    /\ Goto("script", "check")
    /\ o.tool # "load_script"
    /\ o.tool = "run_command" => ~triggered
    /\ calls < MaxCalls
    /\ calls' = calls + 1
    /\ Check(o)
    /\ UNCHANGED <<killVars, stdin, cur, script, loader, result, files, history>>

\* By itself, with an error it does not catch, or by the instruction hook.
ScriptEnds ==
    /\ Goto("script", IF loader THEN "load" ELSE "audit")
    /\ script' = FALSE
    /\ result' \in IF loader THEN {result} ELSE Results
    /\ UNCHANGED <<killVars, stdin, cur, check, loader, calls, files, history>>

\* The next file of the tools directory; one that is refused is passed over.
LoadScript(o) ==
    /\ Goto("load", "check")
    /\ o.tool = "load_script"
    /\ calls < MaxCalls
    /\ calls' = calls + 1
    /\ Check(o)
    /\ UNCHANGED <<killVars, stdin, cur, script, loader, result, files, history>>

\* main() registers the built-in tools and starts the server; reload_lua_tools
\* returns.
LoadEnds ==
    /\ Goto("load", IF cur = 0 THEN "loop" ELSE "audit")
    /\ loader' = FALSE
    /\ calls' = 0
    /\ result' \in IF cur = 0 THEN {result} ELSE Results
    /\ UNCHANGED <<killVars, stdin, cur, check, script, files, history>>

-----------------------------------------------------------------------------
(* The end of a request.                                                   *)

\* The record has the first 256 bytes of what an ok returns, and all of an error.
AuditThrows == auditOn /\ result \in {"okCut", "okBad", "errorBad"}

\* Mutant of Record: a denied call leaves no record.
RecordActs ==
    /\ ~AuditThrows
    /\ Goto("audit", "reply")
    /\ log' = IF auditOn /\ cur \in acted THEN Append(log, cur) ELSE log
    /\ UNCHANGED <<killVars, stdin, call, auditOn, out, history>>

Record ==
    /\ ~AuditThrows
    /\ Goto("audit", "reply")
    /\ log' = IF auditOn THEN Append(log, cur) ELSE log
    /\ UNCHANGED <<killVars, stdin, call, auditOn, out, history>>

\* record.dump() refuses the detail; nothing in run() catches it.
RecordThrows ==
    /\ AuditThrows
    /\ Goto("audit", "catch")
    /\ UNCHANGED <<killVars, stdin, call, files, history>>

ReplyThrows == result \in {"okBad", "okBadLate", "errorBad"}

\* Mutant of Reply: a call that failed is not answered.
ReplyIfOk ==
    /\ ~ReplyThrows
    /\ Goto("reply", "loop")
    /\ out' = IF result = "error" THEN out ELSE Append(out, cur)
    /\ cur' = 0
    /\ calls' = 0
    /\ result' = "ok"
    /\ UNCHANGED <<killVars, stdin, check, script, loader, auditOn, log, history>>

\* makeOk or makeErr, sendResponse, and the delay; the variables of this turn
\* of the loop go out of scope.
Reply ==
    /\ ~ReplyThrows
    /\ Goto("reply", "loop")
    /\ out' = Append(out, cur)
    /\ cur' = 0
    /\ calls' = 0
    /\ result' = "ok"
    /\ UNCHANGED <<killVars, stdin, check, script, loader, auditOn, log, history>>

ResponseThrows ==
    /\ ReplyThrows
    /\ Goto("reply", "catch")
    /\ UNCHANGED <<killVars, stdin, call, files, history>>

-----------------------------------------------------------------------------
(* The two ends of main().                                                 *)

\* The note of the end of the session, then uninstall().
BeginUninstall ==
    /\ Goto("ended", "uninstalling")
    /\ Kill!Uninstall
    /\ UNCHANGED <<stdin, call, files, history>>

PostQuit ==
    /\ pc = "uninstalling"
    /\ Kill!PostQuit
    /\ UNCHANGED <<stdin, pc, call, files, history>>

EndUninstall ==
    /\ Goto("uninstalling", "returned")
    /\ Kill!Join
    /\ UNCHANGED <<stdin, call, files, history>>

\* The handler prints and returns 1; then the static s_thread is destroyed.
BeginDestroy ==
    /\ Goto("catch", "destroying")
    /\ Kill!Destroy
    /\ UNCHANGED <<stdin, call, files, history>>

EndDestroy ==
    /\ Goto("destroying", "returned")
    /\ Kill!Join
    /\ UNCHANGED <<stdin, call, files, history>>

-----------------------------------------------------------------------------
MainStep ==
    \/ BeginInstall \/ EndInstall \/ Startup \/ StartupThrows
    \/ \E x \in Inputs : SkipLine(x) \/ ReadRequest(x) \/ ReadAnswer(x)
    \/ LoopTest \/ EndOfInput
    \/ Act \/ StartScript \/ StartReload
    \/ Deny \/ Prompt \/ AnswerAtEof
    \/ \E o \in Calls : ScriptCall(o) \/ LoadScript(o)
    \/ ScriptEnds \/ LoadEnds
    \/ Record \/ RecordThrows \/ Reply \/ ResponseThrows
    \/ BeginUninstall \/ PostQuit \/ EndUninstall
    \/ BeginDestroy \/ EndDestroy

HookStep == Kill!HookStep /\ UNCHANGED <<stdin, pc, call, files, history>>
HookEvent == Kill!HookEvent /\ UNCHANGED <<stdin, pc, call, files, history>>

Next ==
    \/ SendLine \/ CloseInput
    \/ MainStep
    \/ HookStep \/ HookEvent

Spec == Init /\ [][Next]_vars

\* Both threads go on; a key need never be pressed, a message never come.
ThreadFairness == WF_vars(MainStep) /\ WF_vars(HookStep)

\* The client closes its end at last.
ClientFairness == WF_vars(CloseInput)

FairSpec == Spec /\ ThreadFairness /\ ClientFairness

-----------------------------------------------------------------------------
(* Properties.                                                             *)

Controls == {"begin", "installing", "startup", "load", "script", "loop",
             "getline", "check", "prompt", "audit", "reply", "ended", "catch",
             "uninstalling", "destroying", "returned"}

TypeOK ==
    /\ Kill!TypeOK
    /\ sent \in 0 .. MaxLines
    /\ eof \in BOOLEAN
    /\ says \in Seq(Words \cup {"request"}) /\ Len(says) <= sent
    /\ pc \in Controls
    /\ cur \in Lines \cup {0}
    /\ op \in Operations \cup {Nothing}
    /\ todo \in Seq({"deny", "ask"})
    /\ asked \in Seq(Lines)
    /\ script \in BOOLEAN /\ loader \in BOOLEAN
    /\ calls \in 0 .. MaxCalls
    /\ result \in Results
    /\ auditOn \in BOOLEAN
    /\ log \in Seq(Lines)
    /\ out \in Seq(Lines)
    /\ answers \in [Lines \cup {0} -> Seq(Lines)]
    /\ acted \in SUBSET (Lines \cup {0})
    /\ late \in SUBSET Lines

\* The components of a path, between its separators: where each begins, which
\* one it is, and its characters in lower case.
Begins(p) ==
    {i \in DOMAIN p : p[i] \notin Separators /\ (i = 1 \/ p[i - 1] \in Separators)}
Place(p, i) == Cardinality({j \in Begins(p) : j <= i})
Component(p, i) ==
    [k \in {k \in 0 .. Len(p) - i : \A j \in i .. i + k : p[j] \notin Separators}
        |-> LowerOf[p[i + k]]]

\* The components of r are the first components of p.
LiesIn(p, r) ==
    \A i \in Begins(r) : \E j \in Begins(p) :
        Place(p, j) = Place(r, i) /\ Component(p, j) = Component(r, i)

Within(p, roots) == \E r \in roots \ {<<>>} : LiesIn(p, r)

NamesOf(req) ==
    IF req.tool \in PathTools THEN <<req.path>>
    ELSE IF req.tool = "copy_file" THEN <<req.src, req.dst>>
    ELSE <<>>

\* The paths on which an operation acts.
PathsOf(req) == [i \in DOMAIN NamesOf(req) |-> Location[NamesOf(req)[i]]]

\* expandEnv leaves its names as they are.
IsPlain(req) ==
    \A i \in DOMAIN NamesOf(req) : Expansion[NamesOf(req)[i]] = NamesOf(req)[i]

SameStem(n, b) == n # NoName /\ b # NoName /\ n.stem = b.stem

IsForbidden(req) ==
    \/ \E i \in DOMAIN PathsOf(req) :
          PathsOf(req)[i] = <<>> \/ Within(PathsOf(req)[i], BlockedPaths)
    \/ /\ req.tool = "kill_process"
       /\ \/ req.proc.critical
          \/ \E n \in req.proc.names, b \in BlockedProcesses : SameStem(n, b)

MustConfirm(req) ==
    \/ req.tool = "delete_file" /\ ConfirmDelete
    \/ req.tool = "kill_process" /\ ConfirmKill
    \/ req.tool = "run_command" /\ req.cmd # "" /\ (ConfirmShell \/ req.cmd \in Dangerous)

\* The paths for which a person must be asked.
Outside(req) ==
    {i \in DOMAIN PathsOf(req) :
        AllowedPaths # {} /\ ~Within(PathsOf(req)[i], AllowedPaths)}

\* How often a person must say yes before it may be done.
CountQuestions(req) ==
    Cardinality(Outside(req)) + (IF MustConfirm(req) THEN 1 ELSE 0)

Forbidden == {x \in Operations : IsForbidden(x)}
Questions == [x \in Operations |-> CountQuestions(x)]

\* What is done to a file, by a tool or from a script, is done only if, component
\* by component, the path acted on lies in an allowed directory and in no
\* blocked one, and what must be confirmed only after one yes for each question,
\* given to this operation and to no earlier one, whatever lines the client has
\* sent ahead: checkPath compares characters, and the prompts read the stdin of
\* the requests.  Names in which expandEnv replaces a variable are left out: the
\* check judges another path than the one acted on.
GrantedOnly ==
    Acting =>
        /\ \A i \in 1 .. Len(asked) : says[asked[i]] = "yes"
        /\ IsPlain(op) => op \notin Forbidden /\ Len(asked) = Questions[op]

\* What the checks of an operation must be for that: among them one that denies
\* it if it is forbidden, and else one question for each confirmation.
ChecksAsMeant ==
    \A x \in Operations :
        IsPlain(x) =>
            IF x \in Forbidden
            THEN \E i \in 1 .. Len(ChecksOf[x]) : ChecksOf[x][i] = "deny"
            ELSE Len(ChecksOf[x]) = Questions[x]

Answers == UNION {Range(answers[l]) : l \in Lines \cup {0}}

\* A line that was read has one use: as a request, which has one response, in
\* the order of the requests, or as the answer to one prompt, be it of a script
\* in the middle of its call.  A request that was read has its response unless it
\* is being served or main() has caught an exception.
OneUseEach ==
    /\ \A i, j \in 1 .. Len(out) : i < j => out[i] < out[j]
    /\ Answers \cap (Range(out) \cup Range(log) \cup {cur}) = {}
    /\ \A k, l \in Lines \cup {0} :
          k # l => Range(answers[k]) \cap Range(answers[l]) = {}
    /\ \A l \in 1 .. Len(says) :
          says[l] = "request" => l \in Answers \cup Range(out) \cup {cur}

\* The audit log is never behind the responses, and at most the call being
\* served is ahead of them; nothing was done for a request that is not in it
\* then, even when its response was never made.
AuditFirst ==
    auditOn =>
        /\ IsPrefix(out, log)
        /\ Len(log) <= Len(out) + 1
        /\ acted \subseteq Range(log) \cup {cur, 0}

\* After the hotkey, at most one more request starts: the one for which the
\* loop had entered getline before.
OneLate == Cardinality(late) <= 1

\* The WM_QUIT of uninstall() is never posted to a hook thread that has no queue
\* for it, and is in that queue until the thread has left its wait, however
\* quickly the session ends after install(): uninstall() joins a thread that
\* nothing else would wake.
QuitHeard == Kill!QuitDelivered

\* The process ends with its input, also in a prompt, of a request or of a script
\* being loaded: main() returns, unless an exception has taken it past
\* uninstall(), to a static destructor that joins the hook thread.
SessionEnds == <>(pc \in {"returned", "destroying"})

=============================================================================
