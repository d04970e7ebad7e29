---------------------------- MODULE ShellCommand ----------------------------
(***************************************************************************)
(* tools::runCommand of tools/ShellTools.cpp: one command, started with its *)
(* output in a pipe, drained in slices until it ends, its time is up or its  *)
(* caller is cancelled.  The operating system is external: the command       *)
(* writes while there is room in the pipe, may start a background process    *)
(* that holds the pipe too, and may end at any time or never.               *)
(*                                                                         *)
(* Time is counted in slices of kSliceMs, output in chunks, each the work of *)
(* the command ("cmd") or of the background process ("bg").                  *)
(***************************************************************************)
EXTENDS Integers, Sequences

CONSTANTS Timeout,     \* timeoutMs, in slices
          PipeSize,    \* chunks a pipe holds
          MaxOutput,   \* kMaxOutputBytes, in chunks
          MaxWrites,   \* bound on the chunks written
          Endless      \* the command may write without end

ASSUME ShellAssumption ==
    /\ Timeout \in Nat /\ MaxOutput \in Nat /\ MaxWrites \in Nat
    /\ PipeSize \in Nat \ {0} /\ Endless \in BOOLEAN

VARIABLES cpc,         \* where runCommand is
          stopAsked,   \* stopToken.stop_requested()
          job,         \* hJob: "none" yet, "null", "set"; "noLimit" when the limit
                       \* and "empty" when the command could not be put on it
          proc,        \* the command: "none", "running", "dying", "exited"
          bg,          \* the background process: also "free", outside the job
          pipe, writes,
          output,      \* chunks kept
          truncated,
          elapsed,     \* slices since the start
          signalled,   \* WaitForSingleObject returned WAIT_OBJECT_0
          verdict      \* why the loop ended

readVars == <<output, truncated>>
osVars == <<job, proc, bg>>
pipeVars == <<pipe, writes>>
loopVars == <<elapsed, signalled, verdict>>
shellVars == <<cpc, stopAsked, osVars, pipeVars, readVars, loopVars>>

ShellInit ==
    /\ cpc = "none" /\ stopAsked = FALSE
    /\ job = "none" /\ proc = "none" /\ bg = "none"
    /\ pipe = <<>> /\ writes = 0
    /\ output = 0 /\ truncated = FALSE
    /\ elapsed = 0 /\ signalled = FALSE /\ verdict = "none"

Now(from, to) == cpc = from /\ cpc' = to

\* The pipe and the process; either may fail, and nothing is left behind.
CreateFails ==
    /\ Now("none", "done") /\ verdict' = "failed"
    /\ UNCHANGED <<stopAsked, osVars, pipeVars, readVars, elapsed, signalled>>

Create ==
    /\ Now("none", "created") /\ proc' = "running"
    /\ UNCHANGED <<stopAsked, job, bg, pipeVars, readVars, loopVars>>

\* The command runs already when it is put into the job.  That the limit or the
\* command itself is refused is not looked at.
AssignJob ==
    /\ Now("created", "loop")
    /\ job' \in {"null", "set", "noLimit", "empty"}
    /\ UNCHANGED <<stopAsked, proc, bg, pipeVars, readVars, loopVars>>

(***************************************************************************)
(* The loop: token, wait, drain, judgement.                                *)
(***************************************************************************)
TestToken ==
    /\ cpc = "loop"
    /\ IF stopAsked
       THEN cpc' = "kill" /\ verdict' = "cancelled"
       ELSE cpc' = "wait" /\ UNCHANGED verdict
    /\ UNCHANGED <<stopAsked, osVars, pipeVars, readVars, elapsed, signalled>>

\* Mutant of WaitSeesEnd: the loop ends without a last look at the pipe.
EndUndrained ==
    /\ Now("wait", "close")
    /\ proc = "exited" /\ signalled' = TRUE /\ verdict' = "finished"
    /\ UNCHANGED <<stopAsked, osVars, pipeVars, readVars, elapsed>>

WaitSeesEnd ==
    /\ Now("wait", "drain")
    /\ proc = "exited" /\ signalled' = TRUE
    /\ UNCHANGED <<stopAsked, osVars, pipeVars, readVars, elapsed, verdict>>

\* The last slice is cut at the deadline, and empty after it.
WaitTimesOut ==
    /\ Now("wait", "drain")
    /\ proc # "exited"
    /\ elapsed' = IF elapsed < Timeout THEN elapsed + 1 ELSE elapsed
    /\ UNCHANGED <<stopAsked, osVars, pipeVars, readVars, signalled, verdict>>

Draining == cpc \in {"drain", "lastDrain"}

\* Beyond kMaxOutputBytes the output is read and dropped.
DrainChunk ==
    /\ Draining /\ pipe # <<>>
    /\ pipe' = Tail(pipe)
    /\ IF output < MaxOutput
       THEN output' = output + 1 /\ UNCHANGED truncated
       ELSE truncated' = TRUE /\ UNCHANGED output
    /\ UNCHANGED <<cpc, stopAsked, osVars, writes, loopVars>>

\* PeekNamedPipe finds nothing.
Drained ==
    /\ pipe = <<>>
    /\ \/ Now("drain", "judge")
       \/ Now("lastDrain", "close")
    /\ UNCHANGED <<stopAsked, osVars, pipeVars, readVars, loopVars>>

Judge ==
    /\ cpc = "judge"
    /\ IF signalled THEN cpc' = "close" /\ verdict' = "finished"
       ELSE IF elapsed >= Timeout THEN cpc' = "kill" /\ verdict' = "timedOut"
       ELSE cpc' = "loop" /\ UNCHANGED verdict
    /\ UNCHANGED <<stopAsked, osVars, pipeVars, readVars, elapsed, signalled>>

(***************************************************************************)
(* The end.                                                                *)
(***************************************************************************)
Dying(p) == IF p = "running" THEN "dying" ELSE p

\* The job holds the command and what it starts.
Holds == job \in {"set", "noLimit"}

\* With a job all of it is terminated, be it nothing, without one the command only.
Terminate ==
    /\ Now("kill", "lastWait")
    /\ proc' = IF job = "empty" THEN proc ELSE Dying(proc)
    /\ bg' = IF Holds THEN Dying(bg) ELSE bg
    /\ UNCHANGED <<stopAsked, job, pipeVars, readVars, loopVars>>

\* For a second at most.
LastWait ==
    /\ Now("lastWait", "lastDrain")
    /\ UNCHANGED <<stopAsked, osVars, pipeVars, readVars, loopVars>>

\* Mutant of Close: the job does not end with its handle.
CloseHandleOnly ==
    /\ Now("close", "done")
    /\ UNCHANGED <<stopAsked, osVars, pipeVars, readVars, loopVars>>

\* Closing the job terminates what is still in it, if it has the limit.
Close ==
    /\ Now("close", "done")
    /\ bg' = IF job = "set" THEN Dying(bg) ELSE bg
    /\ UNCHANGED <<stopAsked, job, proc, pipeVars, readVars, loopVars>>

RunCommand ==
    \/ CreateFails \/ Create \/ AssignJob
    \/ TestToken \/ WaitSeesEnd \/ WaitTimesOut \/ DrainChunk \/ Drained \/ Judge
    \/ Terminate \/ LastWait \/ Close

(***************************************************************************)
(* The processes.                                                          *)
(***************************************************************************)
Alive(p) == p \in {"running", "free"}

Write(by) ==
    /\ Len(pipe) < PipeSize
    /\ pipe' = Append(pipe, by)
    /\ IF Endless THEN UNCHANGED writes
       ELSE writes < MaxWrites /\ writes' = writes + 1
    /\ UNCHANGED <<cpc, stopAsked, osVars, readVars, loopVars>>

CommandWrites == Alive(proc) /\ Write("cmd")
BackgroundWrites == Alive(bg) /\ Write("bg")

\* What the command starts is in its job, once it has one.
StartBackground ==
    /\ proc = "running" /\ bg = "none"
    /\ bg' = IF Holds THEN "running" ELSE "free"
    /\ UNCHANGED <<cpc, stopAsked, job, proc, pipeVars, readVars, loopVars>>

CommandExits ==
    /\ proc \in {"running", "dying"} /\ proc' = "exited"
    /\ UNCHANGED <<cpc, stopAsked, job, bg, pipeVars, readVars, loopVars>>

BackgroundDies ==
    /\ bg = "dying" /\ bg' = "exited"
    /\ UNCHANGED <<cpc, stopAsked, job, proc, pipeVars, readVars, loopVars>>

Processes == CommandWrites \/ BackgroundWrites \/ StartBackground \/ CommandExits
                \/ BackgroundDies

RequestStop ==
    /\ ~stopAsked /\ stopAsked' = TRUE
    /\ UNCHANGED <<cpc, osVars, pipeVars, readVars, loopVars>>

ShellNext == RunCommand \/ Processes \/ RequestStop
ShellSpec == ShellInit /\ [][ShellNext]_shellVars

(***************************************************************************)
(* Properties.                                                             *)
(***************************************************************************)
ShellTypeOK ==
    /\ cpc \in {"none", "created", "loop", "wait", "drain", "judge",
                "kill", "lastWait", "lastDrain", "close", "done"}
    /\ stopAsked \in BOOLEAN /\ signalled \in BOOLEAN /\ truncated \in BOOLEAN
    /\ job \in {"none", "null", "set", "noLimit", "empty"}
    /\ proc \in {"none", "running", "dying", "exited"}
    /\ bg \in {"none", "running", "free", "dying", "exited"}
    /\ pipe \in Seq({"cmd", "bg"}) /\ writes \in Nat
    /\ output \in 0 .. MaxOutput /\ elapsed \in 0 .. Timeout
    /\ verdict \in {"none", "failed", "cancelled", "timedOut", "finished"}

\* A command that ended by itself, whatever raced with its end, has all its
\* output read: the loop drains after it has seen the end, and a command that
\* has ended writes no more (ShellTools.cpp:125-128).
OutputComplete ==
    (cpc = "done" /\ verdict = "finished") =>
        proc = "exited" /\ \A n \in DOMAIN pipe : pipe[n] # "cmd"

\* What runCommand leaves behind when it returns: no command, unless the job did
\* not take it and it was to be terminated, or it does not die within the second;
\* and no background process of the job, unless the job has no limit and the
\* command ended by itself.  A process that was started before the job was
\* assigned, or outside of it, is not reached (ShellTools.cpp:67-73, 135-149).
NothingLeft ==
    cpc = "done" =>
        /\ proc = "running" => job = "empty" /\ verdict \in {"cancelled", "timedOut"}
        /\ bg = "running" => job = "noLimit" /\ verdict = "finished"

=============================================================================
