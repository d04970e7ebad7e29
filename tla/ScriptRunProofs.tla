--------------------------- MODULE ScriptRunProofs ---------------------------
(***************************************************************************)
(* For any workers and scripts: the command that a script or a tool runs is  *)
(* ShellCommand, with all that is proved of it, and scripts are run one by   *)
(* one, so that none feels another.                                        *)
(***************************************************************************)
EXTENDS ScriptRun, TLAPS

(***************************************************************************)
(* The command: what runCommand leaves behind and what it has read when it   *)
(* returns, for every timeout, pipe and output limit.                        *)
(***************************************************************************)
\* Before CreateProcess there is nothing, and before the assignment no job.
NotStarted ==
    /\ cpc = "none" => proc = "none" /\ bg = "none" /\ ~signalled
    /\ cpc \in {"none", "created"} => job = "none"

\* A background process that the command started is in the job, or "free".
InJob == bg = "running" => Holds

\* Only what is cancelled or late is terminated, and what then goes on was never
\* in the job; after the end of the loop the command does not run otherwise.
Stopped == verdict \in {"cancelled", "timedOut"}
Ended ==
    /\ cpc \in {"kill", "lastWait", "lastDrain"} => Stopped
    /\ cpc \in {"close", "done"} => Stopped \/ verdict \in {"failed", "finished"}
    /\ cpc \in {"lastWait", "lastDrain", "close", "done"} =>
            /\ proc = "running" => job = "empty" /\ Stopped
            /\ bg = "running" => verdict = "finished"
    /\ cpc = "done" /\ bg = "running" => job = "noLimit"

\* The end of the command is seen once, before the drain that empties the pipe.
EndSeen ==
    /\ signalled => proc = "exited"
    /\ verdict = "finished" => signalled

NoneOf(by) == \A n \in DOMAIN pipe : pipe[n] # by
Emptied == (signalled /\ cpc \in {"judge", "close", "done"}) => NoneOf("cmd")

ShellInv == ShellTypeOK /\ NotStarted /\ InJob /\ Ended /\ EndSeen /\ Emptied

LEMMA ShellInvInit == ShellInit => ShellInv
<1> SUFFICES ASSUME ShellInit PROVE ShellInv
    OBVIOUS
<1>1. ShellTypeOK
  <2>1. output \in 0 .. MaxOutput /\ elapsed \in 0 .. Timeout
      BY ShellAssumption DEF ShellInit
  <2>2. pipe \in Seq({"cmd", "bg"}) /\ writes \in Nat
      BY DEF ShellInit
  <2> QED  BY <2>1, <2>2 DEF ShellInit, ShellTypeOK
<1>2. NotStarted /\ InJob /\ Ended /\ EndSeen /\ Emptied
    BY DEF ShellInit, NotStarted, InJob, Ended, Stopped, EndSeen, Emptied
<1> QED  BY <1>1, <1>2 DEF ShellInv

\* A chunk appended to the pipe keeps it a pipe, without a chunk of the command if
\* it is the background's.
LEMMA Appended ==
  ASSUME NEW s \in Seq({"cmd", "bg"}), NEW by \in {"cmd", "bg"}
  PROVE  /\ Append(s, by) \in Seq({"cmd", "bg"})
         /\ (by = "bg" /\ \A n \in DOMAIN s : s[n] # "cmd") =>
                \A n \in DOMAIN Append(s, by) : Append(s, by)[n] # "cmd"
  OBVIOUS

LEMMA TypeStep == ShellTypeOK /\ [ShellNext]_shellVars => ShellTypeOK'
<1> SUFFICES ASSUME ShellTypeOK, [ShellNext]_shellVars PROVE ShellTypeOK'
    OBVIOUS
<1> USE ShellAssumption DEF ShellTypeOK, Now, readVars, osVars, pipeVars, loopVars
<1>1. CASE CreateFails \/ Create \/ AssignJob
    BY <1>1 DEF CreateFails, Create, AssignJob
<1>2. CASE TestToken
    BY <1>2 DEF TestToken
<1>3. CASE WaitSeesEnd
    BY <1>3 DEF WaitSeesEnd
<1>4. CASE Drained
    BY <1>4 DEF Drained
<1>5. CASE Judge
    BY <1>5 DEF Judge
<1>6. CASE WaitTimesOut
    BY <1>6 DEF WaitTimesOut
<1>7. CASE DrainChunk
  <2>1. Tail(pipe) \in Seq({"cmd", "bg"})
      BY <1>7 DEF DrainChunk
  <2>2. output' \in 0 .. MaxOutput
      BY <1>7 DEF DrainChunk
  <2>3. truncated' \in BOOLEAN
      BY <1>7, Zenon DEF DrainChunk
  <2> QED  BY <1>7, <2>1, <2>2, <2>3 DEF DrainChunk
<1>8. CASE Terminate \/ LastWait \/ Close
    BY <1>8 DEF Terminate, LastWait, Close, Dying
<1>9. CASE CommandWrites \/ BackgroundWrites
  <2>1. PICK by \in {"cmd", "bg"} : Write(by)
      BY <1>9 DEF CommandWrites, BackgroundWrites
  <2>2. pipe' \in Seq({"cmd", "bg"})
      BY <2>1, Appended DEF Write
  <2>3. writes' \in Nat
      BY <2>1 DEF Write
  <2> QED  BY <2>1, <2>2, <2>3 DEF Write
<1>10. CASE StartBackground \/ CommandExits \/ BackgroundDies
    BY <1>10 DEF StartBackground, CommandExits, BackgroundDies
<1>11. CASE RequestStop
    BY <1>11 DEF RequestStop
<1>12. CASE UNCHANGED shellVars
    BY <1>12 DEF shellVars
<1> QED
    BY <1>1, <1>2, <1>3, <1>4, <1>5, <1>6, <1>7, <1>8, <1>9, <1>10, <1>11, <1>12
       DEF ShellNext, RunCommand, Processes

LEMMA ShellInvStep == ShellInv /\ [ShellNext]_shellVars => ShellInv'
<1> SUFFICES ASSUME ShellInv, [ShellNext]_shellVars PROVE ShellInv'
    OBVIOUS
<1>1. ShellTypeOK'
    BY TypeStep DEF ShellInv
<1>2. NotStarted' /\ InJob' /\ Ended' /\ EndSeen' /\ Emptied'
  <2> USE DEF ShellInv, NotStarted, InJob, Holds, Ended, Stopped, EndSeen, Now, readVars, osVars, pipeVars, loopVars
  <2>1. CASE CreateFails \/ Create \/ AssignJob
      BY <2>1 DEF CreateFails, Create, AssignJob, Emptied, NoneOf
  <2>2. CASE TestToken \/ WaitSeesEnd \/ WaitTimesOut
      BY <2>2 DEF TestToken, WaitSeesEnd, WaitTimesOut, Emptied
  <2>3. CASE DrainChunk
      BY <2>3 DEF DrainChunk, Draining, Emptied
  <2>4. CASE Drained
    <3>1. DOMAIN pipe' = {}
        BY <2>4 DEF Drained
    <3> QED  BY <2>4, <3>1 DEF Drained, Emptied, NoneOf
  <2>5. CASE Judge
      BY <2>5 DEF Judge, Emptied, NoneOf
  <2>6. CASE Terminate \/ LastWait
      BY <2>6 DEF Terminate, LastWait, Dying, Emptied
  <2>7. CASE Close
      BY <2>7 DEF Close, Dying, Emptied, NoneOf
  <2>8. CASE CommandWrites
      BY <2>8 DEF CommandWrites, Write, Alive, Emptied
  <2>9. CASE BackgroundWrites
    <3>1. NoneOf("cmd") => NoneOf("cmd")'
        BY <2>9, Appended DEF BackgroundWrites, Write, NoneOf, ShellTypeOK
    <3> QED  BY <2>9, <3>1 DEF BackgroundWrites, Write, Emptied
  <2>10. CASE StartBackground \/ CommandExits \/ BackgroundDies \/ RequestStop
      BY <2>10 DEF StartBackground, CommandExits, BackgroundDies, RequestStop, Emptied, NoneOf
  <2>11. CASE UNCHANGED shellVars
      BY <2>11 DEF shellVars, Emptied, NoneOf
  <2> QED
      BY <2>1, <2>2, <2>3, <2>4, <2>5, <2>6, <2>7, <2>8, <2>9, <2>10, <2>11
         DEF ShellNext, RunCommand, Processes
<1> QED  BY <1>1, <1>2 DEF ShellInv

LEMMA ShellInvAlways == ShellSpec => []ShellInv
  BY ShellInvInit, ShellInvStep, PTL DEF ShellSpec

\* runCommand is always in one of its steps, within its time and output limits.
THEOREM ShellTyped == ShellSpec => []ShellTypeOK
<1>1. ShellInv => ShellTypeOK
    BY DEF ShellInv
<1> QED  BY <1>1, ShellInvAlways, PTL

\* When runCommand returns, however it came to that, neither the command nor a
\* process of its job runs on, but for a command the job did not take and that was
\* to be terminated, and for a process of a job without its limit.
THEOREM CommandGone == ShellSpec => []NothingLeft
<1>1. ShellInv => NothingLeft
    BY DEF ShellInv, InJob, Ended, Stopped, NothingLeft
<1> QED  BY <1>1, ShellInvAlways, PTL

\* What a command that ended by itself has written is read to the last chunk.
THEOREM OutputRead == ShellSpec => []OutputComplete
<1>1. ShellInv => OutputComplete
    BY DEF ShellInv, EndSeen, Emptied, NoneOf, OutputComplete
<1> QED  BY <1>1, ShellInvAlways, PTL

-----------------------------------------------------------------------------

(***************************************************************************)
(* The command: each step is one of the command's, or changes nothing of it. *)
(***************************************************************************)
LEMMA StepOfCommand == [Next]_vars => [ShellNext]_shellVars
<1> SUFFICES ASSUME [Next]_vars PROVE [ShellNext]_shellVars
    OBVIOUS
<1>1. CASE UNCHANGED vars
    BY <1>1 DEF vars
<1>2. CASE ProcessStep \/ PressKill
    BY <1>2 DEF ProcessStep, PressKill, ShellNext
<1>3. ASSUME NEW w \in Workers, Cancel(w) PROVE [ShellNext]_shellVars
    BY <1>3 DEF Cancel, ShellNext
<1>4. ASSUME NEW w \in Workers, WorkerStep(w) PROVE [ShellNext]_shellVars
  <2>1. CASE ShellStep(w)
      BY <2>1 DEF ShellStep, ShellNext
  <2>2. CASE ~ShellStep(w)
      BY <1>4, <2>2 DEF WorkerStep, RunCommandTool, TestStop, NotRun, Enter, Hook, Try, EndTry,
           Sleep, Awake, CallShell, Return, ShellReturns
  <2> QED  BY <2>1, <2>2
<1> QED  BY <1>1, <1>2, <1>3, <1>4 DEF Next

\* The command of a script or of run_command behaves as ShellCommand, whatever
\* other scripts, cancellations and the kill switch do.
THEOREM RunsShellCommand == Spec => ShellSpec
<1>1. Init => ShellInit
    BY DEF Init
<1> QED  BY <1>1, StepOfCommand, PTL DEF Spec, ShellSpec

\* The output of a command that ended by itself is complete.
THEOREM ScriptOutputRead == Spec => []OutputComplete
  BY RunsShellCommand, OutputRead, PTL

\* Nor does a script leave more behind.
THEOREM ScriptCommandGone == Spec => []NothingLeft
  BY RunsShellCommand, CommandGone, PTL

(***************************************************************************)
(* The interpreter.                                                        *)
(***************************************************************************)
Types ==
    /\ lpc \in [Workers -> {"idle", "lock", "script", "sleep", "shell", "done"}]
    /\ call \in [Workers -> DOMAIN Scripts \cup {"run_command"}]
    /\ DOMAIN outcome = Workers /\ DOMAIN asked = Workers
    /\ count \in Nat
    /\ \A w \in Workers : lpc[w] \in {"lock", "script", "sleep"} => IsScript(w)

Places ==
    /\ ip \in Nat \ {0}
    /\ tries \in Seq(Nat \ {0})

\* Who is in a script has the mutex, and the arguments are its own.
Inside(w) == lpc[w] \in {"script", "sleep"} \/ (lpc[w] = "shell" /\ IsScript(w))
OneInside == \A w \in Workers : Inside(w) => mutex = w /\ args = w

\* A short script has had one event at most for each instruction, and no time.
IsShort(w) == IsScript(w) /\ Short(Script(w))
Charged ==
    \A w \in Workers : IsShort(w) =>
        /\ lpc[w] \notin {"sleep", "shell"}
        /\ (lpc[w] = "script" /\ ~killed) => count < ip /\ time = 0
        /\ outcome[w] = "aborted" => killed

RunInv == ShellTypeOK /\ Types /\ Places /\ OneInside /\ Charged

\* The instruction a script is at.
LEMMA Instruction ==
  ASSUME Types, Places, NEW w \in Workers, IsScript(w), In(w)
  PROVE  /\ Script(w)[ip] \in Instructions
         /\ ip \in DOMAIN Script(w)
<1>1. Script(w) \in Seq(Instructions)
    BY ScriptAssumption DEF Types, IsScript, Script
<1>2. ip \in DOMAIN Script(w)
    BY <1>1 DEF Places, In
<1> QED  BY <1>1, <1>2

\* A short script comes to no binding and no jump, and not over the limit.
LEMMA ShortInstruction ==
  ASSUME Types, Places, NEW w \in Workers, IsShort(w), In(w)
  PROVE  /\ ~At(w, "sleep") /\ ~At(w, "shell") /\ ~At(w, "jump")
         /\ ip <= MaxCount
<1>1. Script(w) \in Seq(Instructions)
    BY ScriptAssumption DEF Types, IsShort, IsScript, Script
<1>2. ip \in DOMAIN Script(w)
    BY Instruction DEF IsShort
<1>3. Script(w)[ip].op \in {"line", "try", "end"}
    BY <1>2 DEF IsShort, Short
<1>4. ip <= Len(Script(w)) /\ Len(Script(w)) <= MaxCount
    BY DEF In, IsShort, Short
<1>5. Len(Script(w)) \in Nat /\ MaxCount \in Nat
    BY <1>1, ScriptAssumption
<1>6. ip <= MaxCount
    BY <1>4, <1>5 DEF Places
<1> QED  BY <1>3, <1>6 DEF At

LEMMA RunInvInit == Init => RunInv
<1> SUFFICES ASSUME Init PROVE RunInv
    OBVIOUS
<1>1. ShellTypeOK
    BY ShellInvInit DEF Init, ShellInv
<1>2. call \in [Workers -> DOMAIN Scripts \cup {"run_command"}]
    BY ScriptAssumption DEF Init
<1>3. Types
    BY <1>2 DEF Init, Types
<1>4. Places
    BY DEF Init, Places
<1>5. OneInside /\ Charged
    BY DEF Init, OneInside, Inside, Charged
<1> QED  BY <1>1, <1>3, <1>4, <1>5 DEF RunInv

(***************************************************************************)
(* The places of a script, after an error too.                             *)
(***************************************************************************)
LEMMA PlacesAfterRaise ==
  ASSUME Places, NEW w, NEW what, Raise(w, what)
  PROVE  Places'
<1>1. CASE tries = <<>>
    BY <1>1 DEF Raise, Leave, Places
<1>2. CASE tries # <<>>
  <2>1. tries[Len(tries)] \in Nat \ {0}
      BY <1>2 DEF Places
  <2>2. SubSeq(tries, 1, Len(tries) - 1) \in Seq(Nat \ {0})
      BY <1>2 DEF Places
  <2> QED  BY <1>2, <2>1, <2>2 DEF Raise, Places
<1> QED  BY <1>1, <1>2

LEMMA PlacesStep ==
  ASSUME RunInv, NEW w \in Workers, WorkerStep(w)
  PROVE  Places'
<1> USE DEF RunInv
<1>1. CASE RunCommandTool(w) \/ TestStop(w) \/ NotRun(w) \/ Sleep(w) \/ Return(w) \/ ShellStep(w)
    BY <1>1 DEF RunCommandTool, TestStop, NotRun, Sleep, Return, ShellStep, Leave, luaVars, Places
<1>2. CASE Enter(w)
    BY <1>2 DEF Enter, Places
<1>3. CASE Hook(w)
  <2>1. CASE OverLimit
      BY <1>3, <2>1, PlacesAfterRaise DEF Hook
  <2>2. CASE ~OverLimit /\ At(w, "jump")
    <3>1. Script(w)[ip] \in Instructions /\ Script(w)[ip].op = "jump"
        BY <2>2, Instruction DEF At, In, Types
    <3>2. Script(w)[ip].to \in Nat \ {0}
        BY <3>1 DEF Instructions
    <3> QED  BY <1>3, <2>2, <3>2 DEF Hook, Places
  <2>3. CASE ~OverLimit /\ ~At(w, "jump")
      BY <1>3, <2>3 DEF Hook, Places
  <2> QED  BY <2>1, <2>2, <2>3
<1>4. CASE Try(w)
  <2>1. Script(w)[ip] \in Instructions /\ Script(w)[ip].op = "try"
      BY <1>4, Instruction DEF Try, At, In, Types
  <2>2. Script(w)[ip].to \in Nat \ {0}
      BY <2>1 DEF Instructions
  <2> QED  BY <1>4, <2>2 DEF Try, Places
<1>5. CASE EndTry(w)
  <2>1. SubSeq(tries, 1, Len(tries) - 1) \in Seq(Nat \ {0})
      BY DEF Places
  <2> QED  BY <1>5, <2>1 DEF EndTry, Places
<1>6. CASE Awake(w)
    BY <1>6 DEF Awake, Places
<1>7. CASE CallShell(w)
    BY <1>7, PlacesAfterRaise DEF CallShell, Places
<1>8. CASE ShellReturns(w)
    BY <1>8, PlacesAfterRaise DEF ShellReturns, Places
<1> QED  BY <1>1, <1>2, <1>3, <1>4, <1>5, <1>6, <1>7, <1>8 DEF WorkerStep

(***************************************************************************)
(* Steps of a worker.                                                      *)
(***************************************************************************)
\* What a step may do to lpc and the rest: a worker moves itself only.
LEMMA TypesAfterRaise ==
  ASSUME Types, NEW w \in Workers, IsScript(w), NEW what, Raise(w, what), call' = call
  PROVE  /\ lpc' \in [Workers -> {"idle", "lock", "script", "sleep", "shell", "done"}]
         /\ DOMAIN outcome' = Workers
         /\ \A v \in Workers : lpc'[v] \in {"lock", "script", "sleep"} => IsScript(v)
  BY DEF Types, Raise, Leave, Ends

LEMMA TypesStep ==
  ASSUME RunInv, NEW w \in Workers, WorkerStep(w)
  PROVE  Types'
<1> USE DEF RunInv
<1>1. call' = call /\ asked' = asked
    BY DEF WorkerStep, RunCommandTool, TestStop, NotRun, Enter, Hook, Try, EndTry, Sleep, Awake,
           CallShell, Return, ShellStep, ShellReturns, callVars
<1>2. \A v \in Workers : IsScript(v)' = IsScript(v)
    BY <1>1 DEF IsScript
<1>3. count' \in Nat
  <2>1. CASE Hook(w)
      BY <2>1 DEF Hook, CountEvent, Types
  <2>2. CASE Enter(w)
      BY <2>2 DEF Enter
  <2>3. CASE ~Hook(w) /\ ~Enter(w)
      BY <2>3 DEF WorkerStep, RunCommandTool, TestStop, NotRun, Try, EndTry, Sleep, Awake,
                  CallShell, Return, ShellStep, ShellReturns, luaVars, Types
  <2> QED  BY <2>1, <2>2, <2>3
<1>4. /\ lpc' \in [Workers -> {"idle", "lock", "script", "sleep", "shell", "done"}]
      /\ DOMAIN outcome' = Workers
      /\ \A v \in Workers : lpc'[v] \in {"lock", "script", "sleep"} => IsScript(v)
  <2>1. CASE RunCommandTool(w) \/ TestStop(w) \/ NotRun(w) \/ Return(w)
      BY <2>1 DEF RunCommandTool, TestStop, NotRun, Return, Leave, Ends, To, Types
  <2>2. CASE Enter(w) \/ Try(w) \/ EndTry(w) \/ Sleep(w) \/ Awake(w) \/ ShellStep(w)
      BY <2>2 DEF Enter, Try, EndTry, Sleep, Awake, ShellStep, To, Types
  <2>3. CASE Hook(w)
    <3>1. IsScript(w)
        BY <2>3 DEF Hook, At, In, Types
    <3> QED  BY <2>3, <3>1, <1>1, TypesAfterRaise DEF Hook, Types, callVars
  <2>4. CASE CallShell(w)
    <3>1. IsScript(w)
        BY <2>4 DEF CallShell, At, In, Types
    <3> QED  BY <2>4, <3>1, <1>1, TypesAfterRaise DEF CallShell, Types
  <2>5. CASE ShellReturns(w)
      BY <2>5, <1>1, TypesAfterRaise DEF ShellReturns, Ends, Types
  <2> QED  BY <2>1, <2>2, <2>3, <2>4, <2>5 DEF WorkerStep
<1> QED  BY <1>1, <1>2, <1>3, <1>4 DEF Types

\* A worker that is in no script does not disturb the one that is, and the one
\* that is disturbs nobody.
LEMMA OneInsideStep ==
  ASSUME RunInv, NEW w \in Workers, WorkerStep(w)
  PROVE  OneInside'
<1> USE DEF RunInv
<1>1. SUFFICES ASSUME NEW v \in Workers, Inside(v)' PROVE mutex' = v /\ args' = v
    BY DEF OneInside
<1>2. call' = call
    BY DEF WorkerStep, RunCommandTool, TestStop, NotRun, Enter, Hook, Try, EndTry, Sleep, Awake,
           CallShell, Return, ShellStep, ShellReturns, callVars
<1>3. IsScript(v)' = IsScript(v)
    BY <1>2 DEF IsScript
<1>4. CASE RunCommandTool(w) \/ TestStop(w) \/ NotRun(w)
    BY <1>1, <1>3, <1>4 DEF RunCommandTool, TestStop, NotRun, Ends, To, Inside, OneInside, Types, luaVars
<1>5. CASE Enter(w)
    BY <1>1, <1>3, <1>5, ScriptAssumption DEF Enter, To, Inside, OneInside, Types
<1>6. CASE Try(w) \/ EndTry(w) \/ Sleep(w) \/ Awake(w) \/ ShellStep(w)
    BY <1>1, <1>3, <1>6 DEF Try, EndTry, Sleep, Awake, ShellStep, At, In, To, Inside, OneInside, Types, luaVars
<1>7. CASE Return(w)
    BY <1>1, <1>3, <1>7 DEF Return, Leave, Ends, Inside, OneInside, Types
<1>8. CASE Hook(w)
    BY <1>1, <1>3, <1>8 DEF Hook, At, In, Raise, Leave, Ends, Inside, OneInside, Types
<1>9. CASE CallShell(w)
    BY <1>1, <1>3, <1>9 DEF CallShell, At, In, Raise, Leave, Ends, Inside, OneInside, Types
<1>10. CASE ShellReturns(w)
    BY <1>1, <1>3, <1>10 DEF ShellReturns, Raise, Leave, Ends, Inside, OneInside, Types
<1> QED  BY <1>4, <1>5, <1>6, <1>7, <1>8, <1>9, <1>10 DEF WorkerStep

\* A step of another worker leaves a script's place, count and time alone.
LEMMA OthersUncharged ==
  ASSUME RunInv, NEW w \in Workers, WorkerStep(w), NEW v \in Workers, v # w
  PROVE  /\ lpc'[v] = lpc[v] /\ outcome'[v] = outcome[v]
         /\ Inside(v) => ip' = ip /\ count' = count /\ time' = time
<1> USE DEF RunInv, Types
<1>1. lpc'[v] = lpc[v] /\ outcome'[v] = outcome[v]
    BY DEF WorkerStep, RunCommandTool, TestStop, NotRun, Enter, Hook, Raise, Leave, Ends, To, Try,
           EndTry, Sleep, Awake, CallShell, Return, ShellStep, ShellReturns
<1>2. ASSUME Inside(v) PROVE ip' = ip /\ count' = count /\ time' = time
  <2>1. mutex = v /\ mutex # NoWorker /\ ~Inside(w)
      BY <1>2, ScriptAssumption DEF OneInside
  <2>2. RunCommandTool(w) \/ TestStop(w) \/ NotRun(w) \/ ShellStep(w) \/ ShellReturns(w)
      BY <2>1 DEF WorkerStep, Enter, Hook, Try, EndTry, Sleep, Awake, CallShell, Return, At, In, To,
                  Inside
  <2>3. (ShellStep(w) \/ ShellReturns(w)) => ~IsScript(w)
      BY <2>1 DEF ShellStep, ShellReturns, Inside
  <2> QED  BY <2>2, <2>3 DEF RunCommandTool, TestStop, NotRun, ShellStep, ShellReturns, luaVars
<1> QED  BY <1>1, <1>2

\* A short script is charged one event for one instruction.
LEMMA OwnCharge ==
  ASSUME RunInv, NEW w \in Workers, WorkerStep(w), IsShort(w)
  PROVE  /\ lpc'[w] \notin {"sleep", "shell"}
         /\ (lpc'[w] = "script" /\ ~killed') => count' < ip' /\ time' = 0
         /\ outcome'[w] = "aborted" => killed'
<1> USE DEF RunInv, Types
<1>1. /\ lpc[w] \notin {"sleep", "shell"}
      /\ (lpc[w] = "script" /\ ~killed) => count < ip /\ time = 0
      /\ outcome[w] = "aborted" => killed
    BY DEF Charged
<1>2. IsScript(w) /\ killed' = killed
    BY DEF IsShort, WorkerStep, RunCommandTool, TestStop, NotRun, Enter, Hook, Try, EndTry, Sleep,
           Awake, CallShell, Return, ShellStep, ShellReturns
<1>3. CASE TestStop(w) \/ NotRun(w)
    BY <1>1, <1>2, <1>3 DEF TestStop, NotRun, Ends
<1>4. CASE Enter(w)
    BY <1>1, <1>2, <1>4 DEF Enter, To
<1>5. CASE Hook(w)
  <2>1. lpc[w] = "script" /\ In(w)
      BY <1>5 DEF Hook, At, In
  <2>2. CASE killed
      BY <1>1, <1>2, <1>5, <2>1, <2>2 DEF Hook, Raise, Leave, Ends
  <2>3. CASE ~killed
    <3>1. count < ip /\ time = 0 /\ ip <= MaxCount /\ ip \in Nat
        BY <1>1, <2>1, <2>3, ShortInstruction DEF Places
    <3>2. ~OverLimit /\ count' = count + 1
        BY <1>5, <2>3, <3>1, ScriptAssumption DEF Hook, OverLimit, CountEvent
    <3>3. ip' = ip + 1 /\ lpc' = lpc /\ outcome' = outcome /\ time' = time
        BY <1>5, <2>1, <3>2, ShortInstruction DEF Hook
    <3> QED  BY <1>1, <1>2, <3>1, <3>2, <3>3
  <2> QED  BY <2>2, <2>3
<1>6. CASE Try(w) \/ EndTry(w)
    BY <1>1, <1>2, <1>6 DEF Try, EndTry, At, In, Places
<1>7. CASE Return(w)
    BY <1>1, <1>2, <1>7 DEF Return, Leave, Ends
<1>8. CASE Sleep(w) \/ CallShell(w)
    BY <1>8, ShortInstruction DEF Sleep, CallShell, At
<1>9. CASE RunCommandTool(w) \/ Awake(w) \/ ShellStep(w) \/ ShellReturns(w)
    BY <1>1, <1>2, <1>9 DEF RunCommandTool, Awake, To, ShellStep, ShellReturns
<1> QED  BY <1>3, <1>4, <1>5, <1>6, <1>7, <1>8, <1>9 DEF WorkerStep

LEMMA ChargedStep ==
  ASSUME RunInv, NEW w \in Workers, WorkerStep(w)
  PROVE  Charged'
<1>1. call' = call /\ killed' = killed
    BY DEF WorkerStep, RunCommandTool, TestStop, NotRun, Enter, Hook, Try, EndTry, Sleep, Awake,
           CallShell, Return, ShellStep, ShellReturns, callVars
<1>2. SUFFICES ASSUME NEW v \in Workers, IsShort(v)
               PROVE  /\ lpc'[v] \notin {"sleep", "shell"}
                      /\ (lpc'[v] = "script" /\ ~killed') => count' < ip' /\ time' = 0
                      /\ outcome'[v] = "aborted" => killed'
    BY <1>1 DEF Charged, IsShort, IsScript, Script
<1>3. CASE v = w
    BY <1>2, <1>3, OwnCharge
<1>4. CASE v # w
    BY <1>1, <1>2, <1>4, OthersUncharged DEF RunInv, Charged, Inside
<1> QED  BY <1>3, <1>4

LEMMA RunInvStep == RunInv /\ [Next]_vars => RunInv'
<1> SUFFICES ASSUME RunInv, [Next]_vars PROVE RunInv'
    OBVIOUS
<1>1. ShellTypeOK'
    BY StepOfCommand, TypeStep DEF RunInv
<1>2. ASSUME NEW w \in Workers, WorkerStep(w) PROVE RunInv'
    BY <1>1, <1>2, TypesStep, PlacesStep, OneInsideStep, ChargedStep DEF RunInv
<1>3. ASSUME NEW w \in Workers, Cancel(w) PROVE RunInv'
    BY <1>1, <1>3 DEF Cancel, luaVars, RunInv, Types, Places, OneInside, Inside, Charged, IsShort,
                      IsScript, Script
<1>4. CASE ProcessStep \/ PressKill
    BY <1>1, <1>4 DEF ProcessStep, PressKill, luaVars, callVars, RunInv, Types, Places, OneInside, Inside,
                      Charged, IsShort, IsScript, Script
<1>5. CASE UNCHANGED vars
    BY <1>1, <1>5 DEF vars, luaVars, callVars, RunInv, Types, Places, OneInside, Inside, Charged, IsShort,
                      IsScript, Script
<1> QED  BY <1>2, <1>3, <1>4, <1>5 DEF Next

\* Whatever scripts there are, each sees its own arguments while it runs, and a
\* short one is aborted on the kill switch only, not for the events and the
\* time of another.
THEOREM ScriptsApart == Spec => []OwnRun
<1>1. RunInv => OwnRun
    BY DEF RunInv, OneInside, Inside, Charged, IsShort, OwnRun
<1> QED  BY <1>1, RunInvInit, RunInvStep, PTL DEF Spec
=============================================================================
