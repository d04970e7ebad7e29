----------------------------- MODULE ScriptRun ------------------------------
(***************************************************************************)
(* The execution of Lua scripts by services/LuaRuntime.cpp: one interpreter *)
(* for all callers, under m_luaMutex, and a hook that ends a script on the   *)
(* kill switch, after too many events or after too long.  A script may call  *)
(* winbot.shell, which is ShellCommand without a stop token; run_command is   *)
(* ShellCommand with one.                                                   *)
(*                                                                         *)
(* A script is a sequence of instructions: "line" (a line is reached, or 500 *)
(* instructions have run: the hook is called), "jump" (a jump back, which     *)
(* reaches a line too), "try" and "end" (pcall is entered and left), "sleep"  *)
(* and "shell" (bindings that take time; the hook is not called in them).     *)
(***************************************************************************)
EXTENDS ShellCommand, FiniteSets

CONSTANTS Workers, NoWorker,
          Scripts,     \* the instructions of each script
          CallsOf,     \* what each worker may call: scripts, or "run_command"
          MaxCount,    \* maxInstructions, in calls of the hook
          ScriptTime   \* m_timeout, in slices

Instructions == [op : {"line", "end", "sleep", "shell"}]
                   \cup [op : {"jump", "try"}, to : Nat \ {0}]

ASSUME ScriptAssumption ==
    /\ NoWorker \notin Workers
    /\ \A s \in DOMAIN Scripts : Scripts[s] \in Seq(Instructions)
    /\ CallsOf \in [Workers -> SUBSET (DOMAIN Scripts \cup {"run_command"})]
    /\ MaxCount \in Nat /\ ScriptTime \in Nat

VARIABLES lpc,      \* where a worker is
          call,     \* what it calls
          asked,    \* its call has been cancelled
          outcome,  \* what its call has returned
          mutex,    \* the owner of m_luaMutex
          args,     \* whose arguments the global args holds
          ip, tries,  \* the instruction, and where each open pcall goes on
          count, time,  \* the HookContext: events counted, slices spent
          killed    \* KillSwitch::isTriggered()

luaVars == <<args, ip, tries, count, time>>
callVars == <<call, asked>>
vars == <<shellVars, lpc, outcome, mutex, luaVars, callVars, killed>>

Init ==
    /\ ShellInit
    /\ lpc = [w \in Workers |-> "idle"]
    /\ call \in {f \in [Workers -> UNION {CallsOf[w] : w \in Workers}] :
                    \A w \in Workers : f[w] \in CallsOf[w]}
    /\ asked = [w \in Workers |-> FALSE]
    /\ outcome = [w \in Workers |-> "none"]
    /\ mutex = NoWorker /\ args = NoWorker
    /\ ip = 1 /\ tries = <<>> /\ count = 0 /\ time = 0
    /\ killed = FALSE

IsScript(w) == call[w] # "run_command"
Script(w) == Scripts[call[w]]
To(w, from, to) == lpc[w] = from /\ lpc' = [lpc EXCEPT ![w] = to]
Ends(w, what) ==
    /\ lpc' = [lpc EXCEPT ![w] = "done"]
    /\ outcome' = [outcome EXCEPT ![w] = what]

(***************************************************************************)
(* The call.                                                               *)
(***************************************************************************)
RunCommandTool(w) ==
    /\ ~IsScript(w) /\ To(w, "idle", "shell")
    /\ UNCHANGED <<shellVars, outcome, mutex, luaVars, callVars, killed>>

\* LuaScriptTool::execute looks at the stop token once.
TestStop(w) ==
    /\ IsScript(w) /\ lpc[w] = "idle"
    /\ IF asked[w] THEN Ends(w, "cancelled")
       ELSE lpc' = [lpc EXCEPT ![w] = "lock"] /\ UNCHANGED outcome
    /\ UNCHANGED <<shellVars, mutex, luaVars, callVars, killed>>

\* A script that is not permitted or gone ends under the mutex, too.
NotRun(w) ==
    /\ lpc[w] = "lock" /\ mutex = NoWorker
    /\ Ends(w, "error")
    /\ UNCHANGED <<shellVars, mutex, luaVars, callVars, killed>>

\* Mutant of Enter: the context is that of the script before.
EnterOldContext(w) ==
    /\ To(w, "lock", "script") /\ mutex = NoWorker
    /\ mutex' = w /\ args' = w
    /\ ip' = 1 /\ tries' = <<>>
    /\ UNCHANGED <<shellVars, outcome, count, time, callVars, killed>>

\* A fresh HookContext and the arguments of this call.
Enter(w) ==
    /\ To(w, "lock", "script") /\ mutex = NoWorker
    /\ mutex' = w /\ args' = w
    /\ count' = 0 /\ time' = 0
    /\ ip' = 1 /\ tries' = <<>>
    /\ UNCHANGED <<shellVars, outcome, callVars, killed>>

\* The hook is removed, the stack cleared, the mutex released.
Leave(w, what) ==
    /\ Ends(w, what) /\ mutex' = NoWorker
    /\ UNCHANGED <<ip, tries>>

(***************************************************************************)
(* The script.                                                             *)
(***************************************************************************)
In(w) == lpc[w] = "script" /\ ip <= Len(Script(w))
At(w, op) == In(w) /\ Script(w)[ip].op = op

\* An error unwinds to the innermost pcall, or ends the script.
Raise(w, what) ==
    IF tries = <<>> THEN Leave(w, what)
    ELSE /\ ip' = tries[Len(tries)]
         /\ tries' = SubSeq(tries, 1, Len(tries) - 1)
         /\ lpc' = [lpc EXCEPT ![w] = "script"]
         /\ UNCHANGED <<outcome, mutex>>

\* Mutant of OverLimit: only the event that reaches the limit is over it.
AtLimit == killed \/ count = MaxCount \/ time > ScriptTime

OverLimit == killed \/ count + 1 > MaxCount \/ time > ScriptTime

\* The count stays just above its limit, where it makes no difference.
CountEvent == IF killed \/ count > MaxCount THEN count ELSE count + 1

Hook(w) ==
    /\ At(w, "line") \/ At(w, "jump")
    /\ count' = CountEvent
    /\ IF OverLimit THEN Raise(w, "aborted")
       ELSE /\ ip' = IF At(w, "jump") THEN Script(w)[ip].to ELSE ip + 1
            /\ UNCHANGED <<tries, lpc, outcome, mutex>>
    /\ UNCHANGED <<shellVars, args, time, callVars, killed>>

Try(w) ==
    /\ At(w, "try")
    /\ tries' = Append(tries, Script(w)[ip].to) /\ ip' = ip + 1
    /\ UNCHANGED <<shellVars, lpc, outcome, mutex, args, count, time, callVars, killed>>

EndTry(w) ==
    /\ At(w, "end")
    /\ tries' = SubSeq(tries, 1, Len(tries) - 1) /\ ip' = ip + 1
    /\ UNCHANGED <<shellVars, lpc, outcome, mutex, args, count, time, callVars, killed>>

\* Time spent in a binding, as far as the hook can tell.
Spend(slices) ==
    time' = IF time + slices > ScriptTime THEN ScriptTime + 1 ELSE time + slices

Sleep(w) ==
    /\ At(w, "sleep")
    /\ To(w, "script", "sleep")
    /\ UNCHANGED <<shellVars, outcome, mutex, luaVars, callVars, killed>>

\* A sleep takes as long as the script wants.
Awake(w) ==
    /\ To(w, "sleep", "script")
    /\ \E slices \in 0 .. ScriptTime + 1 : Spend(slices)
    /\ ip' = ip + 1
    /\ UNCHANGED <<shellVars, outcome, mutex, args, tries, count, callVars, killed>>

\* winbot.shell throws when the kill switch is triggered, and when the command is
\* not permitted.
CallShell(w) ==
    /\ At(w, "shell")
    /\ \/ Raise(w, "error")
       \/ /\ ~killed /\ lpc' = [lpc EXCEPT ![w] = "shell"]
          /\ UNCHANGED <<outcome, mutex, ip, tries>>
    /\ UNCHANGED <<shellVars, args, count, time, callVars, killed>>

Return(w) ==
    /\ lpc[w] = "script" /\ ip > Len(Script(w))
    /\ Leave(w, "ok")
    /\ UNCHANGED <<shellVars, args, count, time, callVars, killed>>

(***************************************************************************)
(* The command.                                                            *)
(***************************************************************************)
\* The slices a command waits are time of the script that waits for it.
ShellStep(w) ==
    /\ lpc[w] = "shell" /\ RunCommand
    /\ IF IsScript(w) THEN Spend(elapsed' - elapsed) ELSE UNCHANGED time
    /\ UNCHANGED <<lpc, outcome, mutex, args, ip, tries, count, callVars, killed>>

\* A command that failed, timed out or was cancelled is an error in the script.
ShellReturns(w) ==
    /\ lpc[w] = "shell" /\ cpc = "done"
    /\ IF ~IsScript(w) THEN Ends(w, verdict) /\ UNCHANGED <<mutex, ip, tries>>
       ELSE IF verdict # "finished" THEN Raise(w, "error")
       ELSE /\ lpc' = [lpc EXCEPT ![w] = "script"] /\ ip' = ip + 1
            /\ UNCHANGED <<outcome, mutex, tries>>
    /\ UNCHANGED <<shellVars, args, count, time, callVars, killed>>

ProcessStep ==
    /\ Processes
    /\ UNCHANGED <<lpc, outcome, mutex, luaVars, callVars, killed>>

(***************************************************************************)
(* Cancellation and the kill switch.                                       *)
(***************************************************************************)
\* Only run_command hands its stop token to the command; a script that has
\* begun does not notice a cancellation.
Cancel(w) ==
    /\ ~asked[w] /\ lpc[w] # "done" /\ (IsScript(w) => lpc[w] = "idle")
    /\ asked' = [asked EXCEPT ![w] = TRUE]
    /\ IF IsScript(w) THEN UNCHANGED shellVars ELSE RequestStop
    /\ UNCHANGED <<lpc, outcome, mutex, luaVars, call, killed>>

PressKill ==
    /\ ~killed /\ killed' = TRUE
    /\ UNCHANGED <<shellVars, lpc, outcome, mutex, luaVars, callVars>>

\* executeTool; execString and execFile take the same steps without the arguments.
WorkerStep(w) ==
    \/ RunCommandTool(w) \/ TestStop(w) \/ NotRun(w) \/ Enter(w)
    \/ Hook(w) \/ Try(w) \/ EndTry(w) \/ Sleep(w) \/ Awake(w) \/ CallShell(w)
    \/ Return(w) \/ ShellStep(w) \/ ShellReturns(w)

Next ==
    \/ \E w \in Workers : WorkerStep(w) \/ Cancel(w)
    \/ ProcessStep \/ PressKill

Spec == Init /\ [][Next]_vars

\* Threads go on, a sleep ends, and what is terminated dies; nothing else is bound
\* to happen.
FairSpec ==
    /\ Spec
    /\ \A w \in Workers : WF_vars(WorkerStep(w))
    /\ WF_vars(proc = "dying" /\ ProcessStep /\ CommandExits)

(***************************************************************************)
(* Properties.                                                             *)
(***************************************************************************)
\* A script without loop or binding and with few lines.
Short(script) ==
    /\ Len(script) <= MaxCount
    /\ \A n \in DOMAIN script : script[n].op \in {"line", "try", "end"}

\* Scripts do not feel each other, although they share the interpreter: each
\* sees its own arguments, and is charged for its own events and time only, so
\* that a short one is not ended for what another did (LuaRuntime.cpp:503-523).
OwnRun ==
    \A w \in Workers :
        /\ lpc[w] = "script" => args = w
        /\ (IsScript(w) /\ Short(Script(w)) /\ outcome[w] = "aborted") => killed

\* Every call returns, also that of a script that loops and catches the errors
\* the hook raises, and that of a command that never ends by itself.
CallsReturn == \A w \in Workers : <>(lpc[w] = "done")
=============================================================================
