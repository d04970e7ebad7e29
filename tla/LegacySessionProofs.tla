------------------------- MODULE LegacySessionProofs -------------------------
(***************************************************************************)
(* Theorems about LegacySession: how main() meets the hook thread, what    *)
(* the session does after the hotkey, what was asked before anything is    *)
(* done, by a tool or from a script, and what becomes of each line that is *)
(* read.  The last part is about the checks of PermissionSystem: that what *)
(* they ask is what they must, which for paths means that a comparison by  *)
(* characters is one by components.                                        *)
(***************************************************************************)
EXTENDS LegacySession, FiniteSetTheorems, SequenceTheorems,
        WellFoundedInduction, TLAPS

\* Where main() is tells what it has done with the kill switch.
OwnerOf(place) ==
    CASE place = "begin" -> {"off"}
      [] place = "installing" -> {"waitTid"}
      [] place = "uninstalling" -> {"posting", "joining"}
      [] place = "destroying" -> {"destroying"}
      [] place = "returned" -> {"removed"}
      [] OTHER -> {"installed"}

PlaceInv == pc \in Controls /\ kpc \in OwnerOf(pc)

\* The hook is set exactly between SetHook and Unhook, there is a queue from
\* before the id is published, and the owner goes on only after that.
HookInv ==
    /\ hpc \in Kill!HookStates
    /\ hook <=> hpc \in {"loop", "getMessage", "unhook"}
    /\ hpc \in {"none", "start"} \/ queue # "none"
    /\ tid => hpc \notin {"none", "start", "queued"}
    /\ kpc = "off" => hpc = "none"
    /\ kpc \notin {"off", "waitTid"} => hpc \notin {"none", "start", "queued"}
    /\ kpc = "removed" => hpc = "exited"
    /\ kpc = "joining" => queue = "quit" \/ hpc \in {"unhook", "exited"}

\* After a late request the loop is not entered again.
LateInv ==
    late = {} \/ /\ triggered
                 /\ pc \notin {"begin", "installing", "startup", "getline"}
                 /\ \E l : late = {l}

SessionInv == PlaceInv /\ HookInv /\ LateInv

-----------------------------------------------------------------------------
LEMMA InitSession == Init => SessionInv
BY DEF Init, SessionInv, PlaceInv, HookInv, LateInv, OwnerOf, Controls,
       Kill!Init, Kill!HookStates

\* Steps of main() that do nothing with the kill switch: those that serve
\* requests and those of the scripts.
ServeStep ==
    \/ \E x \in Inputs : SkipLine(x) \/ ReadRequest(x) \/ ReadAnswer(x)
    \/ LoopTest \/ EndOfInput
    \/ Act \/ Deny \/ Prompt \/ AnswerAtEof
    \/ Record \/ RecordThrows \/ Reply \/ ResponseThrows

ScriptStep ==
    \/ Startup \/ StartupThrows
    \/ StartScript \/ StartReload
    \/ \E o \in Calls : ScriptCall(o) \/ LoadScript(o)
    \/ ScriptEnds \/ LoadEnds

ServerStep == ServeStep \/ ScriptStep

\* Where they lead.
Served == {"load", "script", "loop", "getline", "check", "prompt", "audit",
           "reply", "ended", "catch"}

LEMMA ServerKeepsPlace ==
    ASSUME PlaceInv, ServerStep
    PROVE  PlaceInv' /\ UNCHANGED killVars /\ pc' \in Served
<1>1. UNCHANGED killVars
  BY DEF ServerStep, ServeStep, ScriptStep, SkipLine, ReadRequest, ReadAnswer,
         LoopTest, EndOfInput, Startup, StartupThrows, Act, Deny, Prompt,
         AnswerAtEof, Record, RecordThrows, Reply, ResponseThrows, StartScript,
         StartReload, ScriptCall, LoadScript, ScriptEnds, LoadEnds
<1>2. pc \in ({"startup"} \cup Served) \ {"ended", "catch"}
  BY DEF ServerStep, ServeStep, ScriptStep, SkipLine, ReadRequest, ReadAnswer,
         LoopTest, EndOfInput, Startup, StartupThrows, Act, Acting, Deny, Prompt,
         AnswerAtEof, Record, RecordThrows, Reply, ResponseThrows, StartScript,
         StartReload, ScriptCall, LoadScript, ScriptEnds, LoadEnds, Goto, Served
<1>3. pc' \in Served
  BY DEF ServerStep, ServeStep, ScriptStep, SkipLine, ReadRequest, ReadAnswer,
         LoopTest, EndOfInput, Startup, StartupThrows, Act, Deny, Prompt,
         AnswerAtEof, Record, RecordThrows, Reply, ResponseThrows, StartScript,
         StartReload, ScriptCall, LoadScript, ScriptEnds, LoadEnds, Goto, GoOn,
         Served
<1>4. QED
  BY <1>1, <1>2, <1>3 DEF PlaceInv, OwnerOf, Controls, killVars, Served

LEMMA ServerKeepsLate ==
    ASSUME PlaceInv, LateInv, ServerStep
    PROVE  LateInv'
<1>1. UNCHANGED triggered
  BY ServerKeepsPlace DEF killVars
<1>2. CASE \E x \in Inputs : ReadRequest(x)
  <2>1. late = {} /\ pc' = "check"
    BY <1>2 DEF LateInv, ReadRequest, Goto
  <2>2. late' = IF triggered THEN late \cup {NextLine} ELSE late
    BY <1>2 DEF ReadRequest
  <2>3. QED
    BY <1>1, <2>1, <2>2 DEF LateInv
<1>3. CASE ~\E x \in Inputs : ReadRequest(x)
  <2>1. UNCHANGED late
    BY <1>3 DEF ServerStep, ServeStep, ScriptStep, SkipLine, ReadAnswer,
         LoopTest, EndOfInput, Startup, StartupThrows, Act, Deny, Prompt,
         AnswerAtEof, Record, RecordThrows, Reply, ResponseThrows, StartScript,
         StartReload, ScriptCall, LoadScript, ScriptEnds, LoadEnds, history
  <2>2. pc' = "getline" => LoopTest
    BY <1>3 DEF ServerStep, ServeStep, ScriptStep, SkipLine, ReadAnswer,
         EndOfInput, Startup, StartupThrows, Act, Deny, Prompt,
         AnswerAtEof, Record, RecordThrows, Reply, ResponseThrows, StartScript,
         StartReload, ScriptCall, LoadScript, ScriptEnds, LoadEnds, Goto, GoOn
  <2>3. late # {} => pc' # "getline"
    BY <2>2 DEF LateInv, LoopTest, Goto
  <2>4. pc' \notin {"begin", "installing", "startup"}
    BY ServerKeepsPlace DEF Served
  <2>5. QED
    BY <1>1, <2>1, <2>3, <2>4 DEF LateInv
<1>4. QED
  BY <1>2, <1>3

LEMMA NextSession == SessionInv /\ [Next]_vars => SessionInv'
<1> SUFFICES ASSUME SessionInv, [Next]_vars
             PROVE  SessionInv'
  OBVIOUS
<1> USE DEF SessionInv
<1>1. CASE ServerStep
  <2>1. UNCHANGED killVars
    BY <1>1, ServerKeepsPlace
  <2>2. HookInv'
    BY <2>1 DEF HookInv, killVars
  <2>3. QED
    BY <1>1, <2>2, ServerKeepsPlace, ServerKeepsLate
<1>2. CASE BeginInstall
  BY <1>2 DEF BeginInstall, Goto, Kill!Install, history,
     PlaceInv, HookInv, LateInv, OwnerOf, Controls, Kill!HookStates
<1>3. CASE EndInstall
  BY <1>3 DEF EndInstall, Goto, Kill!Installed, Kill!config, Kill!hookThread,
     history, PlaceInv, HookInv, LateInv, OwnerOf, Controls, Kill!HookStates
<1>4. CASE BeginUninstall
  BY <1>4 DEF BeginUninstall, Goto, Kill!Uninstall, Kill!config, history,
     PlaceInv, HookInv, LateInv, OwnerOf, Controls, Kill!HookStates
<1>5. CASE PostQuit
  BY <1>5 DEF PostQuit, Kill!PostQuit, Kill!config, history,
     PlaceInv, HookInv, LateInv, OwnerOf, Controls, Kill!HookStates
<1>6. CASE EndUninstall
  BY <1>6 DEF EndUninstall, Goto, Kill!Join, Kill!config, Kill!hookThread,
     history, PlaceInv, HookInv, LateInv, OwnerOf, Controls, Kill!HookStates
<1>7. CASE BeginDestroy
  BY <1>7 DEF BeginDestroy, Goto, Kill!Destroy, Kill!config, Kill!hookThread,
     history, PlaceInv, HookInv, LateInv, OwnerOf, Controls, Kill!HookStates
<1>8. CASE EndDestroy
  BY <1>8 DEF EndDestroy, Goto, Kill!Join, Kill!config, Kill!hookThread,
     history, PlaceInv, HookInv, LateInv, OwnerOf, Controls, Kill!HookStates
<1>9. CASE HookStep
  <2>1. UNCHANGED <<triggered, kpc, pc, late>>
    BY <1>9 DEF HookStep, Kill!HookStep, Kill!CreateQueue, Kill!Publish,
       Kill!SetHook, Kill!SetHookFails, Kill!LoopTest, Kill!GetQuit,
       Kill!Unhook, history
  <2>2. HookInv'
    BY <1>9 DEF HookStep, Kill!HookStep, Kill!CreateQueue, Kill!Publish,
       Kill!SetHook, Kill!SetHookFails, Kill!LoopTest, Kill!GetQuit,
       Kill!Unhook, Kill!HGoto, HookInv, Kill!HookStates
  <2>3. QED
    BY <2>1, <2>2 DEF PlaceInv, LateInv
<1>10. CASE HookEvent
  <2>1. UNCHANGED <<kpc, pc, late>> /\ (triggered => triggered')
    BY <1>10 DEF HookEvent, Kill!HookEvent, Kill!GetOther, Kill!KeyDown,
       Kill!hookThread, history
  <2>2. HookInv'
    BY <1>10 DEF HookEvent, Kill!HookEvent, Kill!GetOther, Kill!KeyDown,
       Kill!hookThread, Kill!HGoto, HookInv, Kill!HookStates
  <2>3. QED
    BY <2>1, <2>2 DEF PlaceInv, LateInv
<1>11. CASE SendLine \/ CloseInput \/ UNCHANGED vars
  BY <1>11 DEF SendLine, CloseInput, vars, killVars, history, PlaceInv,
     HookInv, LateInv
<1>12. QED
  BY <1>1, <1>2, <1>3, <1>4, <1>5, <1>6, <1>7, <1>8, <1>9, <1>10, <1>11
  DEF Next, MainStep, ServerStep, ServeStep, ScriptStep

\* The invariant that the theorems below follow from.
THEOREM SessionInvariant == Spec => []SessionInv
BY InitSession, NextSession, PTL DEF Spec

\* However soon after install() the session ends: the WM_QUIT of uninstall() is
\* posted to a thread that has a queue, and is in that queue until the thread
\* leaves its loop.
THEOREM QuitReachesThread == Spec => []QuitHeard
<1>1. SessionInv => QuitHeard
  BY DEF SessionInv, HookInv, QuitHeard, Kill!QuitDelivered
<1>2. QED
  BY <1>1, SessionInvariant, PTL

\* However the hotkey and the input interleave, the hotkey lets at most one
\* more request through.
THEOREM OneRequestAfterHotkey == Spec => []OneLate
<1>1. LateInv => OneLate
  <2>1. Cardinality({}) = 0 /\ \A l : Cardinality({l}) = 1
    BY FS_EmptySet, FS_Singleton
  <2>2. CASE late = {}
    BY <2>1, <2>2 DEF OneLate
  <2>3. CASE \E l : late = {l}
    BY <2>1, <2>3 DEF OneLate
  <2>4. QED
    BY <2>2, <2>3 DEF LateInv
<1>2. QED
  BY <1>1, SessionInvariant, PTL DEF SessionInv

-----------------------------------------------------------------------------
(* Consent.                                                                *)

SaidYes == \A i \in 1 .. Len(asked) :
              asked[i] <= Len(says) /\ says[asked[i]] = "yes"

\* The operation being checked has passed as many obstacles as it has answers.
Asking ==
    /\ op \in Operations
    /\ Len(asked) + Len(todo) = Len(ChecksOf[op])
    /\ \A i \in 1 .. Len(asked) : ChecksOf[op][i] = "ask"
    /\ \A i \in 1 .. Len(todo) : todo[i] = ChecksOf[op][Len(asked) + i]
    /\ SaidYes
    /\ pc = "prompt" => todo # <<>> /\ Head(todo) = "ask"

\* None of its checks denied it, and each prompt was answered yes.
Consented ==
    /\ op \in Operations
    /\ Len(asked) = Len(ChecksOf[op])
    /\ \A i \in 1 .. Len(asked) : ChecksOf[op][i] = "ask"
    /\ SaidYes

CallTypes ==
    /\ sent \in 0 .. MaxLines
    /\ says \in Seq(Words \cup {"request"})
    /\ Len(says) <= sent
    /\ todo \in Seq({"deny", "ask"})
    /\ asked \in Seq(Lines)

CallInv ==
    /\ CallTypes
    /\ pc \in {"check", "prompt"} => Asking

\* What a check returns: the obstacles are of two kinds.
LEMMA ChecksType == \A x \in Operations : ChecksOf[x] \in Seq({"deny", "ask"})
<1> SUFFICES ASSUME NEW x \in Operations
             PROVE  ToolChecks(x) \in Seq({"deny", "ask"})
  BY DEF ChecksOf
<1> DEFINE S == Seq({"deny", "ask"})
<1>1. <<>> \in S /\ <<"deny">> \in S /\ <<Ask>> \in S
  BY DEF Ask
<1>2. \A s, t \in S : s \o t \in S
  OBVIOUS
<1> HIDE DEF S
<1>3. ASSUME NEW p PROVE CheckPath(p) \in S
  BY <1>1 DEF CheckPath
<1>4. ASSUME NEW p PROVE CheckFileDelete(p) \in S
  BY <1>1, <1>2, <1>3 DEF CheckFileDelete
<1>5. ASSUME NEW p PROVE CheckProcess(p) \in S
  BY <1>1 DEF CheckProcess
<1>6. ASSUME NEW c PROVE CheckShellCommand(c) \in S
  BY <1>1 DEF CheckShellCommand
<1>7. CheckPath(x.src) \o CheckPath(x.dst) \in S
  BY <1>2, <1>3
<1>8. ToolChecks(x) \in S
  BY <1>1, <1>3, <1>4, <1>5, <1>6, <1>7 DEF ToolChecks
<1>9. QED
  BY <1>8 DEF S

LEMMA InitCall == Init => CallInv
BY SessionAssumption DEF Init, CallInv, CallTypes

\* Steps that neither read a line nor begin a check.
CallFrame ==
    /\ UNCHANGED says
    /\ sent' \in Len(says) .. MaxLines
    /\ \/ UNCHANGED check /\ (pc' = pc \/ pc' \notin {"check", "prompt"})
       \/ Forget /\ pc' \notin {"check", "prompt"}

LEMMA FrameKeepsCall ==
    ASSUME CallInv, CallFrame
    PROVE  CallInv'
<1>1. CallTypes'
  <2>1. Len(says) \in Nat /\ MaxLines \in Nat
    BY SessionAssumption DEF CallInv, CallTypes
  <2>2. sent' \in 0 .. MaxLines /\ Len(says') <= sent'
    BY <2>1 DEF CallFrame
  <2>3. todo' \in Seq({"deny", "ask"}) /\ asked' \in Seq(Lines)
    <3>1. CASE UNCHANGED check
      BY <3>1 DEF CallInv, CallTypes, check
    <3>2. CASE Forget
      BY <3>2 DEF Forget
    <3>3. QED
      BY <3>1, <3>2 DEF CallFrame
  <2>4. QED
    BY <2>2, <2>3 DEF CallInv, CallTypes, CallFrame
<1>2. ASSUME pc' \in {"check", "prompt"} PROVE Asking'
  BY <1>2 DEF CallInv, CallFrame, check, Asking, SaidYes
<1>3. QED
  BY <1>1, <1>2 DEF CallInv

-----------------------------------------------------------------------------
\* A line that carries x is read, by the loop or by a prompt.
LEMMA ReadType ==
    ASSUME CallInv, NEW x \in Inputs, GetLine(x)
    PROVE  /\ NextLine \in Lines
           /\ says' \in Seq(Words \cup {"request"})
           /\ Len(says') = NextLine
           /\ says'[NextLine] = (IF x \in Requests THEN "request" ELSE x.tool)
           /\ \A l \in 1 .. Len(says) : says'[l] = says[l]
           /\ sent' = sent /\ Len(says') <= sent
           /\ Len(says) \in Nat /\ NextLine = Len(says) + 1
<1> DEFINE word == IF x \in Requests THEN "request" ELSE x.tool
<1>1. word \in Words \cup {"request"}
  BY DEF Requests
<1>2. says' = Append(says, word) /\ sent' = sent /\ Len(says) < sent
  BY DEF GetLine
<1> HIDE DEF word
<1>3. QED
  BY <1>1, <1>2, SessionAssumption DEF CallInv, CallTypes, NextLine, Lines, word

LEMMA SkipKeepsCall ==
    ASSUME CallInv, NEW x \in Inputs, SkipLine(x)
    PROVE  CallInv'
<1>1. GetLine(x) /\ UNCHANGED check /\ pc' = "loop"
  BY DEF SkipLine, Goto, call
<1>2. CallTypes'
  BY <1>1, ReadType DEF CallInv, CallTypes, check
<1>3. QED
  BY <1>1, <1>2 DEF CallInv

\* An operation that begins to be checked has met no obstacle yet.
LEMMA CheckBegins ==
    ASSUME NEW o \in Operations, Check(o), pc' = "check"
    PROVE  /\ todo' \in Seq({"deny", "ask"}) /\ asked' \in Seq(Lines)
           /\ Asking'
<1>1. /\ op' = o /\ todo' = ChecksOf[o] /\ asked' = <<>>
      /\ ChecksOf[o] \in Seq({"deny", "ask"})
  BY ChecksType DEF Check
<1>2. /\ Len(asked') = 0 /\ asked' \in Seq(Lines)
      /\ Len(todo') \in Nat /\ \A i \in 1 .. Len(todo') : 0 + i = i
  BY <1>1
<1>3. QED
  BY <1>1, <1>2 DEF Asking, SaidYes

LEMMA RequestKeepsCall ==
    ASSUME CallInv, NEW x \in Inputs, ReadRequest(x)
    PROVE  CallInv'
<1>1. GetLine(x) /\ pc' = "check" /\ x \in Operations /\ Check(x)
  BY DEF ReadRequest, Goto, Operations
<1>2. CallTypes'
  BY <1>1, ReadType, CheckBegins DEF CallInv, CallTypes
<1>3. QED
  BY <1>1, <1>2, CheckBegins DEF CallInv

LEMMA ScriptKeepsCall ==
    ASSUME CallInv, NEW o \in Calls, ScriptCall(o) \/ LoadScript(o)
    PROVE  CallInv'
<1>1. /\ UNCHANGED <<sent, says>> /\ pc' = "check" /\ o \in Operations
      /\ Check(o)
  BY DEF ScriptCall, LoadScript, Goto, Operations, stdin
<1>2. CallTypes'
  BY <1>1, CheckBegins DEF CallInv, CallTypes
<1>3. QED
  BY <1>1, <1>2, CheckBegins DEF CallInv

LEMMA AnswerKeepsCall ==
    ASSUME CallInv, NEW x \in Inputs, ReadAnswer(x)
    PROVE  CallInv'
<1>1. /\ GetLine(x) /\ pc = "prompt"
      /\ \/ /\ x.tool = "yes" /\ pc' = "check" /\ todo' = Tail(todo)
            /\ asked' = Append(asked, NextLine) /\ op' = op
         \/ /\ pc' \in {"script", "load", "audit"}
            /\ todo' = <<>> /\ asked' = <<>>
  BY DEF ReadAnswer, GoOn, Forget
<1>2. Asking /\ todo # <<>> /\ Head(todo) = "ask"
  BY <1>1 DEF CallInv, Asking
<1>3. todo \in Seq({"deny", "ask"}) /\ asked \in Seq(Lines)
  BY DEF CallInv, CallTypes
<1>4. CallTypes'
  <2>1. Tail(todo) \in Seq({"deny", "ask"}) /\ Append(asked, NextLine) \in Seq(Lines)
    BY <1>1, <1>2, <1>3, ReadType
  <2>2. <<>> \in Seq({"deny", "ask"}) /\ <<>> \in Seq(Lines)
    OBVIOUS
  <2>3. todo' \in Seq({"deny", "ask"}) /\ asked' \in Seq(Lines)
    BY <1>1, <2>1, <2>2, Zenon
  <2>4. QED
    BY <1>1, <2>3, ReadType DEF CallInv, CallTypes
<1>5. ASSUME pc' = "check" PROVE Asking'
  <2> DEFINE n == Len(asked)
             c == ChecksOf[op]
  <2>1. /\ x.tool = "yes" /\ todo' = Tail(todo) /\ op' = op
        /\ asked' = Append(asked, NextLine)
    BY <1>1, <1>5
  <2>2. op \in Operations /\ c \in Seq({"deny", "ask"})
    BY <1>2, ChecksType DEF Asking
  <2>3. /\ Len(asked') = n + 1
        /\ Len(todo') = Len(todo) - 1
        /\ \A i \in 1 .. Len(todo') : todo'[i] = todo[i + 1]
        /\ \A i \in 1 .. n : asked'[i] = asked[i]
        /\ asked'[n + 1] = NextLine
    BY <1>1, <1>2, <1>3, <2>1, ReadType
  <2>4. Len(asked') = n + 1 /\ Len(todo') = Len(todo) - 1
    BY <2>3
  <2>5. /\ n \in Nat /\ Len(todo) \in Nat \ {0} /\ Len(c) \in Nat
        /\ n + Len(todo) = Len(c)
    BY <1>2, <1>3, <2>2 DEF Asking
  <2>6. /\ \A i \in 1 .. n : c[i] = "ask"
        /\ \A i \in 1 .. Len(todo) : todo[i] = c[n + i]
        /\ todo[1] = "ask"
    BY <1>2, <1>3 DEF Asking
  <2>7. \A i \in 1 .. n :
           asked[i] \in Lines /\ asked[i] <= Len(says) /\ says[asked[i]] = "yes"
    BY <1>2, <1>3 DEF Asking, SaidYes
  <2> HIDE DEF n, c
  <2>8. Len(asked') + Len(todo') = Len(c)
    BY <2>4, <2>5
  <2>9. \A i \in 1 .. Len(asked') : c[i] = "ask"
    <3>1. c[n + 1] = "ask"
      BY <2>5, <2>6
    <3>2. \A i \in 1 .. n + 1 : i \in 1 .. n \/ i = n + 1
      BY <2>5
    <3>3. QED
      BY <2>4, <2>6, <3>1, <3>2
  <2>10. \A i \in 1 .. Len(todo') : todo'[i] = c[Len(asked') + i]
    <3>1. TAKE i \in 1 .. Len(todo')
    <3>2. i + 1 \in 1 .. Len(todo) /\ n + (i + 1) = (n + 1) + i
      BY <2>3, <2>5
    <3>3. QED
      BY <2>3, <2>6, <3>2
  <2>11. SaidYes'
    <3>1. ASSUME NEW i \in 1 .. n
          PROVE  asked'[i] <= Len(says') /\ says'[asked'[i]] = "yes"
      <4>1. asked'[i] = asked[i]
        BY <2>3
      <4>2. asked[i] \in 1 .. Len(says)
        BY <1>1, <2>7, ReadType DEF Lines
      <4>3. says'[asked[i]] = says[asked[i]] /\ asked[i] <= Len(says')
        BY <1>1, <4>2, ReadType
      <4>4. QED
        BY <2>7, <4>1, <4>3
    <3>2. says'[NextLine] = "yes" /\ NextLine <= Len(says')
      <4>1. x \notin Requests
        BY <2>1 DEF Requests, Words
      <4>2. QED
        BY <1>1, <2>1, <4>1, ReadType
    <3>3. QED
      BY <2>3, <2>5, <3>1, <3>2 DEF SaidYes
  <2>12. QED
    BY <1>5, <2>1, <2>2, <2>8, <2>9, <2>10, <2>11 DEF Asking, c
<1>6. QED
  BY <1>1, <1>4, <1>5 DEF CallInv

LEMMA PromptKeepsCall ==
    ASSUME CallInv, Prompt
    PROVE  CallInv'
<1>1. /\ pc = "check" /\ todo # <<>> /\ Head(todo) = "ask"
      /\ UNCHANGED <<sent, says, op, todo, asked>>
  BY DEF Prompt, Goto, stdin, call, check
<1>2. Asking
  BY <1>1 DEF CallInv
<1>3. Asking'
  BY <1>1, <1>2 DEF Asking, SaidYes
<1>4. CallTypes'
  BY <1>1 DEF CallInv, CallTypes
<1>5. QED
  BY <1>3, <1>4 DEF CallInv

\* The steps with a lemma of their own.
CallStep ==
    \/ \E x \in Inputs : SkipLine(x) \/ ReadRequest(x) \/ ReadAnswer(x)
    \/ \E o \in Calls : ScriptCall(o) \/ LoadScript(o)
    \/ Prompt

LEMMA OthersFrameCall ==
    ASSUME CallInv, [Next]_vars, ~CallStep
    PROVE  CallFrame
<1>1. Len(says) \in Nat /\ sent \in Len(says) .. MaxLines /\ MaxLines \in Nat
  BY SessionAssumption DEF CallInv, CallTypes
<1>2. CASE SendLine
  BY <1>1, <1>2 DEF SendLine, CallFrame, call
<1>3. CASE CloseInput
  BY <1>1, <1>3 DEF CloseInput, CallFrame, call
<1>4. CASE LoopTest \/ EndOfInput \/ Startup \/ StartupThrows
  BY <1>1, <1>4 DEF LoopTest, EndOfInput, Startup, StartupThrows, Goto,
     CallFrame, stdin, call, check
<1>5. CASE Act \/ Deny \/ AnswerAtEof \/ StartScript \/ StartReload
  BY <1>1, <1>5 DEF Act, Deny, AnswerAtEof, StartScript, StartReload, GoOn,
     Goto, CallFrame, stdin
<1>6. CASE ScriptEnds \/ LoadEnds \/ Record \/ RecordThrows \/ Reply
           \/ ResponseThrows
  BY <1>1, <1>6 DEF ScriptEnds, LoadEnds, Record, RecordThrows, Reply,
     ResponseThrows, Goto, CallFrame, stdin, call
<1>7. CASE BeginInstall \/ EndInstall \/ BeginUninstall \/ PostQuit
           \/ EndUninstall \/ BeginDestroy \/ EndDestroy
  BY <1>1, <1>7 DEF BeginInstall, EndInstall, BeginUninstall, PostQuit,
     EndUninstall, BeginDestroy, EndDestroy, Goto, CallFrame, stdin, call
<1>8. CASE HookStep \/ HookEvent
  BY <1>1, <1>8 DEF HookStep, HookEvent, CallFrame, stdin, call
<1>9. CASE UNCHANGED vars
  BY <1>1, <1>9 DEF vars, CallFrame, stdin, call
<1>10. QED
  BY <1>2, <1>3, <1>4, <1>5, <1>6, <1>7, <1>8, <1>9
  DEF Next, MainStep, CallStep

LEMMA NextCall == CallInv /\ [Next]_vars => CallInv'
<1> SUFFICES ASSUME CallInv, [Next]_vars
             PROVE  CallInv'
  OBVIOUS
<1>1. CASE CallStep
  BY <1>1, SkipKeepsCall, RequestKeepsCall, AnswerKeepsCall, ScriptKeepsCall,
     PromptKeepsCall DEF CallStep
<1>2. CASE ~CallStep
  BY <1>2, OthersFrameCall, FrameKeepsCall
<1>3. QED
  BY <1>1, <1>2

\* Whatever is done, by a tool or from a script, at the startup or in a request,
\* none of its checks denied it and each of their prompts was answered yes: for
\* any configuration, any input and any scripts.
THEOREM OnlyWithConsent == Spec => [](Acting => Consented)
<1>1. CallInv => (Acting => Consented)
  <2> SUFFICES ASSUME CallInv, Acting PROVE Consented
    OBVIOUS
  <2>1. Asking /\ Len(todo) = 0
    BY DEF CallInv, Acting
  <2>2. Len(asked) \in Nat
    BY DEF CallInv, CallTypes
  <2>3. QED
    BY <2>1, <2>2 DEF Asking, Consented
<1>2. QED
  BY <1>1, InitCall, NextCall, PTL DEF Spec

-----------------------------------------------------------------------------
(* What becomes of the lines that were read.                               *)

\* The requests, and the startup.
Turns == Lines \cup {0}

\* A prompt has taken line l; line l has its response.
IsAnswer(l) == \E k \in Turns : \E i \in 1 .. Len(answers[k]) : answers[k][i] = l
HasResponse(l) == \E i \in 1 .. Len(out) : out[i] = l

\* The types of what this part adds to CallTypes.
UseTypes ==
    /\ cur \in Turns
    /\ auditOn \in BOOLEAN
    /\ out \in Seq(Lines)
    /\ log \in Seq(Lines)
    /\ answers \in [Turns -> Seq(Lines)]
    /\ acted \in SUBSET Turns

\* Where main() is tells whether a request is served; without one, only the
\* loader checks anything or runs a script.
Early == {"begin", "installing", "startup"}
Final == {"reply", "catch", "destroying", "returned"}

Placed ==
    /\ pc \in {"audit", "reply"} => cur # 0
    /\ pc \in {"check", "prompt", "script", "load"} => cur # 0 \/ loader
    /\ pc \in Early \cup {"loop", "getline"} => cur = 0

\* The line being served is the last request that was read, and the responses
\* are in the order of the requests.
InOrder ==
    /\ cur <= Len(says)
    /\ \A i \in 1 .. Len(out) : out[i] <= Len(says)
    /\ cur # 0 => \A i \in 1 .. Len(out) : out[i] < cur
    /\ \A i, j \in 1 .. Len(out) : i < j => out[i] < out[j]

\* An answer belongs to one prompt and is no request.
AnswersApart ==
    /\ \A k \in Turns : \A i \in 1 .. Len(answers[k]) :
          answers[k][i] <= Len(says) /\ answers[k][i] # cur
    /\ \A l \in Lines : ~(IsAnswer(l) /\ HasResponse(l))
    /\ \A k, l \in Turns : k # l =>
          \A i \in 1 .. Len(answers[k]), j \in 1 .. Len(answers[l]) :
             answers[k][i] # answers[l][j]

\* Nothing that was read is forgotten, and only what was served has acted.
Accounted ==
    /\ \A l \in 1 .. Len(says) :
          says[l] = "request" => IsAnswer(l) \/ HasResponse(l) \/ l = cur
    /\ \A l \in acted : HasResponse(l) \/ l = cur \/ l = 0

\* The log has the responses, and from Record on the call being served.
LogInv ==
    /\ ~auditOn => log = <<>>
    /\ pc \in Early => out = <<>> /\ log = <<>>
    /\ auditOn => \/ log = out /\ pc # "reply"
                  \/ cur # 0 /\ log = Append(out, cur) /\ pc \in Final

UseInv == UseTypes /\ Placed /\ InOrder /\ AnswersApart /\ Accounted /\ LogInv

\* Nothing is read before the loop.
LEMMA InitUse == Init => UseInv
<1> SUFFICES ASSUME Init PROVE UseInv
  OBVIOUS
<1>1. /\ pc = "begin" /\ cur = 0 /\ says = <<>> /\ auditOn = FALSE
      /\ log = <<>> /\ out = <<>> /\ acted = {}
      /\ answers = [l \in Turns |-> <<>>]
  BY DEF Init, Turns
<1>2. UseTypes
  <2>1. cur \in Turns /\ out \in Seq(Lines) /\ log \in Seq(Lines)
    BY <1>1 DEF Turns
  <2>2. answers \in [Turns -> Seq(Lines)] /\ acted \in SUBSET Turns
    BY <1>1
  <2>3. QED
    BY <1>1, <2>1, <2>2, Zenon DEF UseTypes
<1>3. Placed /\ InOrder
  BY <1>1 DEF Placed, InOrder
<1>4. LogInv
  BY <1>1 DEF LogInv
<1>5. AnswersApart /\ Accounted
  BY <1>1 DEF AnswersApart, Accounted, HasResponse
<1>6. QED
  BY <1>2, <1>3, <1>4, <1>5 DEF UseInv

\* Lines are numbers, and those in the sequences are lines that were read.
LEMMA UseFacts ==
    ASSUME CallInv, UseInv
    PROVE  /\ Lines \subseteq Nat /\ 0 \notin Lines /\ Len(says) \in Nat
           /\ Lines \subseteq Turns /\ 0 \in Turns /\ Turns \subseteq Nat
           /\ out \in Seq(Lines) /\ log \in Seq(Lines) /\ Len(out) \in Nat
           /\ cur \in Turns /\ cur \in Nat /\ cur <= Len(says)
           /\ \A i \in 1 .. Len(out) : out[i] \in Lines /\ out[i] <= Len(says)
           /\ answers \in [Turns -> Seq(Lines)]
           /\ \A k \in Turns : \A i \in 1 .. Len(answers[k]) :
                 answers[k][i] \in Lines /\ answers[k][i] <= Len(says)
<1>1. /\ Lines \subseteq Nat /\ 0 \notin Lines /\ Len(says) \in Nat
      /\ Lines \subseteq Turns /\ 0 \in Turns /\ Turns \subseteq Nat
      /\ out \in Seq(Lines) /\ log \in Seq(Lines) /\ Len(out) \in Nat
      /\ cur \in Turns /\ answers \in [Turns -> Seq(Lines)]
  BY DEF Lines, Turns, CallInv, CallTypes, UseInv, UseTypes
<1>2. cur \in Nat /\ cur <= Len(says)
  BY <1>1 DEF UseInv, UseTypes, InOrder
<1>3. \A i \in 1 .. Len(out) : out[i] \in Lines
  BY <1>1, ElementOfSeq
<1>4. ASSUME NEW k \in Turns, NEW i \in 1 .. Len(answers[k])
      PROVE  answers[k][i] \in Lines
  <2>1. answers[k] \in Seq(Lines)
    BY <1>1
  <2>2. QED
    BY <2>1, ElementOfSeq
<1>5. QED
  BY <1>1, <1>2, <1>3, <1>4 DEF UseInv, InOrder, AnswersApart

\* What was read comes before the next line.
LEMMA ReadBefore ==
    ASSUME CallInv, UseInv
    PROVE  /\ \A i \in 1 .. Len(out) :
                 out[i] <= Len(says) + 1 /\ out[i] < Len(says) + 1
           /\ \A k \in Turns : \A i \in 1 .. Len(answers[k]) :
                 /\ answers[k][i] <= Len(says) + 1
                 /\ answers[k][i] # Len(says) + 1
<1>1. \A n, m \in Nat : n <= m => n <= m + 1 /\ n < m + 1 /\ n # m + 1
  OBVIOUS
<1>2. Len(says) \in Nat /\ Lines \subseteq Nat
  BY UseFacts
<1>3. ASSUME NEW i \in 1 .. Len(out)
      PROVE  out[i] <= Len(says) + 1 /\ out[i] < Len(says) + 1
  <2>1. out[i] \in Nat /\ out[i] <= Len(says)
    BY UseFacts
  <2>2. QED
    BY <1>1, <1>2, <2>1
<1>4. ASSUME NEW k \in Turns, NEW i \in 1 .. Len(answers[k])
      PROVE  /\ answers[k][i] <= Len(says) + 1
             /\ answers[k][i] # Len(says) + 1
  <2>1. answers[k][i] \in Nat /\ answers[k][i] <= Len(says)
    BY UseFacts
  <2>2. QED
    BY <1>1, <1>2, <2>1
<1>5. QED
  BY <1>3, <1>4

\* Steps that change the place of no line, though something may be done.
UseFrame ==
    /\ UNCHANGED <<says, answers, cur, auditOn, log, out>>
    /\ acted' \in {acted, acted \cup {cur}}
    /\ pc' \in Early => pc \in Early
    /\ pc' = "reply" => pc = "reply"
    /\ pc \in Final => pc' \in Final
    /\ Placed'

\* These keep the invariant.
LEMMA FrameKeepsUse ==
    ASSUME UseInv, UseFrame
    PROVE  UseInv'
<1>1. InOrder'
  BY DEF UseInv, UseFrame, InOrder
<1>2. LogInv'
  BY DEF UseInv, UseFrame, LogInv
<1>3. UseTypes'
  BY DEF UseInv, UseFrame, UseTypes
<1>4. AnswersApart' /\ Accounted'
  BY DEF UseInv, UseFrame, AnswersApart, Accounted, IsAnswer, HasResponse
<1>5. QED
  BY <1>1, <1>2, <1>3, <1>4 DEF UseInv, UseFrame

\* All but six actions are such steps.
LEMMA QuietSteps ==
    ASSUME Placed, [Next]_vars,
           ~(\E x \in Inputs : SkipLine(x) \/ ReadRequest(x) \/ ReadAnswer(x)),
           ~Startup, ~Record, ~Reply
    PROVE  UseFrame
<1>1. CASE SendLine \/ CloseInput \/ HookStep \/ HookEvent \/ PostQuit
           \/ UNCHANGED vars
  BY <1>1 DEF SendLine, CloseInput, HookStep, HookEvent, PostQuit, UseFrame,
     Placed, vars, stdin, call, lua, files, history
<1>2. CASE LoopTest \/ EndOfInput \/ StartupThrows \/ Prompt
  BY <1>2 DEF LoopTest, EndOfInput, StartupThrows, Prompt, Goto, UseFrame,
     Placed, Early, Final, stdin, call, lua, files, history
<1>3. CASE Act \/ Deny \/ AnswerAtEof
  <2>1. /\ UNCHANGED <<says, answers, cur, auditOn, log, out, loader>>
        /\ acted' \in {acted, acted \cup {cur}}
    BY <1>3 DEF Act, Deny, AnswerAtEof, stdin, lua, files, history
  <2>2. /\ pc \in {"check", "prompt"}
        /\ pc' \in {"script", "load"} \/ (pc' = "audit" /\ ~loader)
    BY <1>3 DEF Act, Acting, Deny, AnswerAtEof, GoOn
  <2>3. QED
    BY <2>1, <2>2 DEF UseFrame, Placed, Early, Final
<1>4. CASE StartScript \/ StartReload
  <2>1. /\ UNCHANGED <<says, answers, cur, auditOn, log, out>>
        /\ acted' = acted \cup {cur}
    BY <1>4 DEF StartScript, StartReload, stdin, files
  <2>2. /\ pc = "check"
        /\ \/ pc' = "script" /\ loader' = loader
           \/ pc' = "load" /\ loader'
    BY <1>4 DEF StartScript, StartReload, Goto
  <2>3. QED
    BY <2>1, <2>2 DEF UseFrame, Placed, Early, Final
<1>5. CASE \/ \E o \in Calls : ScriptCall(o) \/ LoadScript(o)
           \/ ScriptEnds \/ LoadEnds
  <2>1. UNCHANGED <<says, answers, cur, auditOn, log, out, acted>>
    BY <1>5 DEF ScriptCall, LoadScript, ScriptEnds, LoadEnds, stdin, files,
       history
  <2>2. \/ pc \in {"script", "load"} /\ pc' = "check" /\ loader' = loader
        \/ pc = "script" /\ pc' = "load" /\ loader' = loader
        \/ pc = "script" /\ pc' = "audit" /\ ~loader
        \/ pc = "load" /\ pc' = "loop" /\ cur = 0
        \/ pc = "load" /\ pc' = "audit" /\ cur # 0
    BY <1>5 DEF ScriptCall, LoadScript, ScriptEnds, LoadEnds, Goto
  <2>3. QED
    BY <2>1, <2>2 DEF UseFrame, Placed, Early, Final
<1>6. CASE RecordThrows \/ ResponseThrows
  BY <1>6 DEF RecordThrows, ResponseThrows, Goto, UseFrame, Placed, Early,
     Final, stdin, call, files, history
<1>7. CASE BeginInstall \/ EndInstall \/ BeginUninstall \/ EndUninstall
           \/ BeginDestroy \/ EndDestroy
  BY <1>7 DEF BeginInstall, EndInstall, BeginUninstall, EndUninstall,
     BeginDestroy, EndDestroy, Goto, UseFrame, Placed, Early, Final, stdin,
     call, files, history
<1>8. QED
  BY <1>1, <1>2, <1>3, <1>4, <1>5, <1>6, <1>7 DEF Next, MainStep

\* A line that is skipped is no request.
LEMMA SkipKeepsUse ==
    ASSUME CallInv, UseInv, NEW x \in Inputs, SkipLine(x)
    PROVE  UseInv'
<1>1. /\ UNCHANGED <<answers, acted, cur, auditOn, log, out>>
      /\ GetLine(x) /\ x \notin Requests /\ pc = "getline" /\ pc' = "loop"
  BY DEF SkipLine, Goto, call, files, history
<1>2. /\ Len(says) \in Nat /\ Len(says') = Len(says) + 1
      /\ says'[Len(says) + 1] # "request"
      /\ \A l \in 1 .. Len(says) : says'[l] = says[l]
  <2>1. x.tool # "request"
    BY <1>1 DEF Requests, Words
  <2>2. QED
    BY <1>1, <2>1, ReadType DEF NextLine
<1>3. UseTypes' /\ LogInv' /\ Placed'
  BY <1>1 DEF UseInv, UseTypes, LogInv, Placed, Early, Final
<1>4. InOrder'
  BY <1>1, <1>2, UseFacts DEF UseInv, InOrder
<1>5. AnswersApart'
  BY <1>1, <1>2, UseFacts DEF UseInv, AnswersApart, IsAnswer, HasResponse
<1>6. Accounted'
  BY <1>1, <1>2 DEF UseInv, Accounted, IsAnswer, HasResponse
<1>7. QED
  BY <1>3, <1>4, <1>5, <1>6 DEF UseInv

\* A new request comes after all lines that were read.
LEMMA RequestKeepsUse ==
    ASSUME CallInv, UseInv, NEW x \in Inputs, ReadRequest(x)
    PROVE  UseInv'
<1>1. /\ UNCHANGED <<answers, acted, auditOn, log, out>>
      /\ GetLine(x) /\ pc = "getline" /\ pc' = "check" /\ cur' = NextLine
  BY DEF ReadRequest, Goto, files
<1>2. /\ Len(says) \in Nat /\ Len(says') = Len(says) + 1
      /\ cur' = Len(says) + 1 /\ cur' \in Lines
      /\ \A l \in 1 .. Len(says) : says'[l] = says[l]
  BY <1>1, ReadType DEF NextLine
<1>3. cur = 0 /\ cur' # 0
  BY <1>1, <1>2 DEF UseInv, Placed
<1>4. UseTypes' /\ Placed'
  BY <1>1, <1>2, <1>3 DEF UseInv, UseTypes, Placed, Early, Turns
<1>5. LogInv'
  BY <1>1, <1>3 DEF UseInv, LogInv, Early
<1>6. InOrder'
  BY <1>1, <1>2, ReadBefore DEF UseInv, InOrder
<1>7. AnswersApart'
  BY <1>1, <1>2, ReadBefore DEF UseInv, AnswersApart, IsAnswer, HasResponse
<1>8. Accounted'
  <2>1. \A l \in acted : HasResponse(l) \/ l = 0
    BY <1>3 DEF UseInv, Accounted
  <2>2. \A l \in 1 .. Len(says) : l # cur
    BY <1>3
  <2>3. QED
    BY <1>1, <1>2, <2>1, <2>2 DEF UseInv, Accounted, IsAnswer, HasResponse
<1>9. QED
  BY <1>4, <1>5, <1>6, <1>7, <1>8 DEF UseInv

\* The answer is a line that was never seen before.
LEMMA AnswerKeepsUse ==
    ASSUME CallInv, UseInv, NEW x \in Inputs, ReadAnswer(x)
    PROVE  UseInv'
<1>1. /\ UNCHANGED <<acted, cur, auditOn, log, out, loader>>
      /\ GetLine(x) /\ pc = "prompt"
      /\ pc' \in {"check", "script", "load"} \/ (pc' = "audit" /\ ~loader)
      /\ answers' = [answers EXCEPT ![cur] = Append(@, NextLine)]
  <2>1. /\ UNCHANGED <<acted, cur, auditOn, log, out, loader>>
        /\ GetLine(x) /\ pc = "prompt"
        /\ answers' = [answers EXCEPT ![cur] = Append(@, NextLine)]
    BY DEF ReadAnswer, files, lua
  <2>2. pc' \in {"check", "script", "load"} \/ (pc' = "audit" /\ ~loader)
    BY DEF ReadAnswer, GoOn
  <2>3. QED
    BY <2>1, <2>2
<1>2. /\ Len(says) \in Nat /\ Len(says') = Len(says) + 1
      /\ NextLine = Len(says) + 1 /\ NextLine \in Lines
      /\ \A l \in 1 .. Len(says) : says'[l] = says[l]
  BY <1>1, ReadType
<1>3. /\ cur \in Turns /\ answers[cur] \in Seq(Lines)
      /\ answers \in [Turns -> Seq(Lines)]
  BY <1>1, UseFacts
<1>4. UseTypes' /\ LogInv' /\ Placed'
  <2>1. answers' \in [Turns -> Seq(Lines)]
    BY <1>1, <1>2, <1>3
  <2>2. UseTypes'
    BY <1>1, <2>1 DEF UseInv, UseTypes
  <2>3. LogInv' /\ Placed'
    BY <1>1 DEF UseInv, LogInv, Placed, Early, Final
  <2>4. QED
    BY <2>2, <2>3
<1>5. InOrder'
  <2>1. cur <= Len(says) + 1
    BY <1>2, UseFacts
  <2>2. QED
    BY <1>1, <1>2, <2>1, ReadBefore DEF UseInv, InOrder
<1>6. \A k \in Turns : \A i \in 1 .. Len(answers'[k]) :
         \/ i \in 1 .. Len(answers[k]) /\ answers'[k][i] = answers[k][i]
         \/ k = cur /\ answers'[k][i] = Len(says) + 1
  BY <1>1, <1>2, <1>3
<1>7. \A k \in Turns : \A i \in 1 .. Len(answers[k]) :
         i \in 1 .. Len(answers'[k]) /\ answers'[k][i] = answers[k][i]
  BY <1>1, <1>2, <1>3
<1>8. /\ Len(answers'[cur]) = Len(answers[cur]) + 1
      /\ Len(answers[cur]) \in Nat
      /\ answers'[cur][Len(answers[cur]) + 1] = Len(says) + 1
  BY <1>1, <1>2, <1>3
<1>9. \A l \in Lines : IsAnswer(l) => IsAnswer(l)'
  BY <1>7 DEF IsAnswer
<1>10. \A l \in Lines : IsAnswer(l)' => IsAnswer(l) \/ l = Len(says) + 1
  BY <1>6 DEF IsAnswer
<1>11. \A l \in Lines : l = Len(says) + 1 => IsAnswer(l)'
  <2>1. Len(answers[cur]) + 1 \in 1 .. Len(answers'[cur])
    BY <1>8
  <2>2. QED
    BY <1>3, <1>8, <2>1 DEF IsAnswer
<1>12. AnswersApart'
  <2>1. \A k \in Turns : \A i \in 1 .. Len(answers'[k]) :
           answers'[k][i] <= Len(says') /\ answers'[k][i] # cur'
    <3>1. \A k \in Turns : \A i \in 1 .. Len(answers[k]) :
             answers[k][i] <= Len(says) + 1 /\ answers[k][i] # cur
      <4>1. \A l \in Lines : l <= Len(says) => l <= Len(says) + 1
        BY <1>2, UseFacts
      <4>2. QED
        BY <4>1, UseFacts DEF UseInv, AnswersApart
    <3>2. Len(says) + 1 <= Len(says') /\ Len(says) + 1 # cur
      BY <1>2, UseFacts
    <3>3. QED
      BY <1>1, <1>2, <1>6, <3>1, <3>2
  <2>2. \A l \in Lines : ~(IsAnswer(l)' /\ HasResponse(l)')
    <3>1. \A l \in Lines : HasResponse(l)' => HasResponse(l) /\ l <= Len(says)
      BY <1>1, UseFacts DEF HasResponse
    <3>2. QED
      BY <1>2, <1>10, <3>1, UseFacts DEF UseInv, AnswersApart
  <2>3. ASSUME NEW k \in Turns, NEW l \in Turns, k # l,
               NEW i \in 1 .. Len(answers'[k]), NEW j \in 1 .. Len(answers'[l])
        PROVE  answers'[k][i] # answers'[l][j]
    <3>1. CASE /\ i \in 1 .. Len(answers[k]) /\ answers'[k][i] = answers[k][i]
               /\ j \in 1 .. Len(answers[l]) /\ answers'[l][j] = answers[l][j]
      BY <2>3, <3>1 DEF UseInv, AnswersApart
    <3>2. \A m \in Turns : \A n \in 1 .. Len(answers[m]) :
             answers[m][n] # Len(says) + 1
      <4>1. \A e \in Lines : e <= Len(says) => e # Len(says) + 1
        BY <1>2, UseFacts
      <4>2. QED
        BY <4>1, UseFacts
    <3>3. CASE answers'[k][i] = Len(says) + 1 /\ l # cur
      BY <1>6, <3>2, <3>3
    <3>4. CASE answers'[l][j] = Len(says) + 1 /\ k # cur
      BY <1>6, <3>2, <3>4
    <3>5. QED
      BY <1>6, <2>3, <3>1, <3>3, <3>4
  <2>4. QED
    BY <2>1, <2>2, <2>3 DEF AnswersApart
<1>13. Accounted'
  <2>1. \A l : HasResponse(l)' <=> HasResponse(l)
    BY <1>1 DEF HasResponse
  <2>2. \A l \in 1 .. Len(says') : l \in Lines
    <3>1. Len(says') \in 0 .. MaxLines /\ MaxLines \in Nat
      BY <1>1, <1>2, ReadType, SessionAssumption DEF CallInv, CallTypes
    <3>2. QED
      BY <3>1 DEF Lines
  <2>3. QED
    BY <1>1, <1>2, <1>9, <1>11, <2>1, <2>2 DEF UseInv, Accounted
<1>14. QED
  BY <1>4, <1>5, <1>12, <1>13 DEF UseInv


\* The audit log begins empty.
LEMMA StartupKeepsUse ==
    ASSUME CallInv, UseInv, Startup
    PROVE  UseInv'
<1>1. /\ UNCHANGED <<says, answers, acted, cur, log, out>>
      /\ pc = "startup" /\ pc' = "load" /\ loader' /\ auditOn' \in BOOLEAN
  BY DEF Startup, Goto, stdin, history
<1>2. UseTypes' /\ InOrder' /\ LogInv' /\ Placed'
  BY <1>1 DEF UseInv, UseTypes, InOrder, LogInv, Placed, Early, Final
<1>3. AnswersApart' /\ Accounted'
  BY <1>1 DEF UseInv, AnswersApart, Accounted, IsAnswer, HasResponse
<1>4. QED
  BY <1>2, <1>3 DEF UseInv

\* The record of a call comes before its response.
LEMMA RecordKeepsUse ==
    ASSUME CallInv, UseInv, Record
    PROVE  UseInv'
<1>1. /\ UNCHANGED <<says, answers, acted, cur, auditOn, out>>
      /\ log' = (IF auditOn THEN Append(log, cur) ELSE log)
      /\ pc = "audit" /\ pc' = "reply"
  BY DEF Record, Goto, stdin, call, history
<1>2. cur \in Lines /\ cur # 0
  BY <1>1 DEF UseInv, UseTypes, Placed, Turns
<1>3. UseTypes' /\ LogInv' /\ Placed'
  <2>1. log' \in Seq(Lines)
    BY <1>1, <1>2, UseFacts
  <2>2. UseTypes'
    BY <1>1, <2>1 DEF UseInv, UseTypes
  <2>3. LogInv' /\ Placed'
    BY <1>1, <1>2 DEF UseInv, LogInv, Placed, Early, Final
  <2>4. QED
    BY <2>2, <2>3
<1>4. InOrder'
  BY <1>1 DEF UseInv, InOrder
<1>5. AnswersApart' /\ Accounted'
  BY <1>1 DEF UseInv, AnswersApart, Accounted, IsAnswer, HasResponse
<1>6. QED
  BY <1>3, <1>4, <1>5 DEF UseInv

\* The response ends the turn of the loop.
LEMMA ReplyKeepsUse ==
    ASSUME CallInv, UseInv, Reply
    PROVE  UseInv'
<1>1. /\ UNCHANGED <<says, answers, acted, auditOn, log>>
      /\ out' = Append(out, cur) /\ cur' = 0
      /\ pc = "reply" /\ pc' = "loop"
  BY DEF Reply, Goto, stdin, history
<1>2. cur \in Lines /\ cur \in Nat /\ cur <= Len(says) /\ cur # 0
  BY <1>1, UseFacts DEF UseInv, UseTypes, Placed, Turns
<1>3. /\ out' \in Seq(Lines) /\ Len(out') = Len(out) + 1
      /\ out'[Len(out) + 1] = cur
      /\ \A i \in 1 .. Len(out) : out'[i] = out[i]
  BY <1>1, <1>2, UseFacts
<1>4. UseTypes' /\ LogInv' /\ Placed'
  BY <1>1, <1>2, <1>3 DEF UseInv, UseTypes, LogInv, Placed, Early, Turns
<1>5. InOrder'
  <2>1. \A i \in 1 .. Len(out) : out[i] < cur
    BY <1>2 DEF UseInv, InOrder
  <2>2. QED
    BY <1>1, <1>2, <1>3, <2>1, UseFacts DEF UseInv, InOrder
<1>6. \A l : HasResponse(l)' <=> HasResponse(l) \/ l = cur
  <2>1. \A l : HasResponse(l) => HasResponse(l)'
    <3>1. \A i \in 1 .. Len(out) : i \in 1 .. Len(out')
      BY <1>3, UseFacts
    <3>2. QED
      BY <1>3, <3>1 DEF HasResponse
  <2>2. Len(out) + 1 \in 1 .. Len(out')
    BY <1>3, UseFacts
  <2>3. \A l : l = cur => HasResponse(l)'
    BY <1>3, <2>2 DEF HasResponse
  <2>4. \A i \in 1 .. Len(out') : i \in 1 .. Len(out) \/ i = Len(out) + 1
    BY <1>3, UseFacts
  <2>5. \A l : HasResponse(l)' => HasResponse(l) \/ l = cur
    BY <1>3, <2>4 DEF HasResponse
  <2>6. QED
    BY <2>1, <2>3, <2>5
<1>7. \A l : IsAnswer(l)' <=> IsAnswer(l)
  BY <1>1 DEF IsAnswer
<1>8. AnswersApart'
  <2>1. ~IsAnswer(cur)
    BY DEF IsAnswer, UseInv, AnswersApart
  <2>2. \A k \in Turns : \A i \in 1 .. Len(answers[k]) : answers[k][i] # 0
    BY UseFacts
  <2>3. QED
    BY <1>1, <1>6, <1>7, <2>1, <2>2 DEF UseInv, AnswersApart
<1>9. Accounted'
  BY <1>1, <1>6, <1>7 DEF UseInv, Accounted
<1>10. QED
  BY <1>4, <1>5, <1>8, <1>9 DEF UseInv

\* The invariant is inductive, given that of the prompts.
LEMMA NextUse == CallInv /\ UseInv /\ [Next]_vars => UseInv'
<1> SUFFICES ASSUME CallInv, UseInv, [Next]_vars
             PROVE  UseInv'
  OBVIOUS
<1>1. CASE \E x \in Inputs : SkipLine(x) \/ ReadRequest(x) \/ ReadAnswer(x)
  BY <1>1, SkipKeepsUse, RequestKeepsUse, AnswerKeepsUse
<1>2. CASE Startup \/ Record \/ Reply
  BY <1>2, StartupKeepsUse, RecordKeepsUse, ReplyKeepsUse
<1>3. QED
  BY <1>1, <1>2, QuietSteps, FrameKeepsUse DEF UseInv

\* Where every line that was read has gone.
THEOREM LinesInvariant == Spec => [](CallInv /\ UseInv)
<1>1. Init => CallInv /\ UseInv
  BY InitCall, InitUse
<1>2. CallInv /\ UseInv /\ [Next]_vars => (CallInv /\ UseInv)'
  BY NextCall, NextUse
<1>3. QED
  BY <1>1, <1>2, PTL DEF Spec

\* A line is a request with one response at most, in the order of the requests,
\* or the answer to one prompt, of a tool, a script or the loader, and none that
\* was read is lost: for any input and any scripts.
THEOREM EachLineOneUse == Spec => []OneUseEach
<1>1. CallInv /\ UseInv => OneUseEach
  <2> SUFFICES ASSUME CallInv, UseInv PROVE OneUseEach
    OBVIOUS
  <2>1. /\ \A l : l \in Range(out) <=> HasResponse(l)
        /\ \A l : l \in Answers <=> IsAnswer(l)
    <3>1. DOMAIN out = 1 .. Len(out)
      BY UseFacts
    <3>2. \A k \in Turns : DOMAIN answers[k] = 1 .. Len(answers[k])
      BY UseFacts
    <3>3. QED
      BY <3>1, <3>2 DEF Range, Answers, HasResponse, IsAnswer, Turns
  <2>2. \A l \in Range(log) : l \in Range(out) \/ l = cur
    <3>1. CASE log = <<>> \/ log = out
      BY <3>1 DEF Range
    <3>2. CASE log = Append(out, cur) /\ cur # 0
      <4>1. cur \in Lines
        BY <3>2, UseFacts DEF Turns
      <4>2. QED
        BY <3>2, <4>1, UseFacts DEF Range
    <3>3. QED
      BY <3>1, <3>2 DEF UseInv, LogInv
  <2>3. \A l : IsAnswer(l) => l \in Lines
    BY UseFacts DEF IsAnswer
  <2>4. \A l : IsAnswer(l) => l # cur /\ ~HasResponse(l)
    BY <2>3 DEF UseInv, AnswersApart, IsAnswer
  <2>5. Answers \cap (Range(out) \cup Range(log) \cup {cur}) = {}
    BY <2>1, <2>2, <2>4
  <2>6. \A k, l \in Turns : k # l => Range(answers[k]) \cap Range(answers[l]) = {}
    <3>1. TAKE k, l \in Turns
    <3>2. /\ DOMAIN answers[k] = 1 .. Len(answers[k])
          /\ DOMAIN answers[l] = 1 .. Len(answers[l])
      BY UseFacts
    <3>3. QED
      BY <3>2 DEF UseInv, AnswersApart, Range
  <2>7. \A l \in 1 .. Len(says) :
           says[l] = "request" => l \in Answers \cup Range(out) \cup {cur}
    BY <2>1 DEF UseInv, Accounted
  <2>8. \A i, j \in 1 .. Len(out) : i < j => out[i] < out[j]
    BY DEF UseInv, InOrder
  <2>9. QED
    BY <2>5, <2>6, <2>7, <2>8 DEF OneUseEach, Turns
<1>2. QED
  BY <1>1, LinesInvariant, PTL


\* The audit log leads the responses by one call at most, and has every request
\* for which something was done but the one being served, whatever ends the
\* session.
THEOREM AuditLeads == Spec => []AuditFirst
<1>1. CallInv /\ UseInv => AuditFirst
  <2> SUFFICES ASSUME CallInv, UseInv, auditOn PROVE
                 /\ IsPrefix(out, log)
                 /\ Len(log) <= Len(out) + 1
                 /\ acted \subseteq Range(log) \cup {cur, 0}
    BY DEF AuditFirst
  <2>1. \/ log = out
        \/ log = Append(out, cur) /\ cur # 0
    BY DEF UseInv, LogInv
  <2>2. /\ IsPrefix(out, log)
        /\ Len(log) <= Len(out) + 1
        /\ \A i \in 1 .. Len(out) : i \in DOMAIN log /\ log[i] = out[i]
    <3>1. CASE log = out
      BY <3>1, UseFacts DEF IsPrefix
    <3>2. CASE log = Append(out, cur) /\ cur # 0
      <4>1. out \in Seq(Lines) /\ Len(out) \in Nat /\ cur \in Lines
        BY <3>2, UseFacts DEF Turns
      <4>2. /\ Len(log) = Len(out) + 1 /\ DOMAIN log = 1 .. Len(log)
            /\ \A i \in 1 .. Len(out) : log[i] = out[i]
        BY <3>2, <4>1
      <4>3. \A i \in 1 .. Len(out) : i \in DOMAIN log
        BY <4>1, <4>2
      <4>4. IsPrefix(out, log)
        BY <3>2, <4>1, <4>2 DEF IsPrefix
      <4>5. QED
        BY <4>1, <4>2, <4>3, <4>4
    <3>3. QED
      BY <2>1, <3>1, <3>2
  <2>3. acted \subseteq Range(log) \cup {cur, 0}
    BY <2>2 DEF UseInv, Accounted, HasResponse, Range
  <2>4. QED
    BY <2>2, <2>3
<1>2. QED
  BY <1>1, LinesInvariant, PTL

-----------------------------------------------------------------------------
(* checkPath compares normalised strings.  That this decides containment   *)
(* is shown by the least character at which two paths could differ.        *)

\* Every set of numbers that is not empty has a least element.
LEMMA Least ==
    ASSUME NEW S, S \subseteq Nat, S # {}
    PROVE  \E x \in S : \A y \in S : x <= y
<1> DEFINE R == {ss \in Nat \X Nat : ss[1] < ss[2]}
<1>1. IsWellFoundedOn(R, Nat)
  BY NatLessThanWellFounded DEF OpToRel
<1>2. \A x, y \in Nat : x < y => <<x, y>> \in R
  OBVIOUS
<1> HIDE DEF R
<1>3. PICK x \in S : \A y \in S : <<y, x>> \notin R
  BY <1>1, WFMin
<1>4. \A y \in S : ~ (y < x)
  BY <1>2, <1>3
<1> QED
  BY <1>4

\* Two elements of a set with as many elements below them are the same.
LEMMA SamePlace ==
    ASSUME NEW T, T \subseteq Nat, NEW a \in T, NEW b \in T,
           Cardinality({x \in T : x <= a}) = Cardinality({x \in T : x <= b})
    PROVE  a = b
<1> DEFINE To(c) == {x \in T : x <= c}
<1>1. \A x \in T : x \in Nat
  OBVIOUS
<1>2. \A c, x : x \in To(c) <=> x \in T /\ x <= c
  OBVIOUS
<1> HIDE DEF To
<1>3. ASSUME NEW c \in Nat PROVE IsFiniteSet(To(c))
  <2>1. To(c) \in SUBSET Nat /\ \A x \in To(c) : x <= c
    BY <1>1, <1>2
  <2> QED
    BY <2>1, FS_BoundedSetOfNaturals
<1>4. ASSUME NEW c \in T, NEW d \in T, c < d, Cardinality(To(c)) = Cardinality(To(d))
      PROVE  FALSE
  <2>1. c \in Nat /\ d \in Nat
    BY <1>1
  <2>2. d \in To(d) /\ d \notin To(c)
    BY <1>2, <1>4, <2>1
  <2>3. ASSUME NEW x \in To(c) PROVE x \in To(d)
    <3>1. x \in T /\ x <= c
      BY <1>2
    <3>2. x \in Nat
      BY <1>1, <3>1
    <3>3. x <= d
      BY <1>4, <2>1, <3>1, <3>2
    <3> QED
      BY <1>2, <3>1, <3>3
  <2>4. IsFiniteSet(To(d))
    BY <1>3, <2>1
  <2> QED
    BY <1>4, <2>2, <2>3, <2>4, FS_Subset
<1>5. Cardinality(To(a)) = Cardinality(To(b))
  BY DEF To
<1> QED
  BY <1>1, <1>4, <1>5

-----------------------------------------------------------------------------
(* Characters.                                                             *)
\* A canonical path that is more than a drive.
IsRooted(p) == IsCanonical(p) /\ Len(p) >= 3

Low(c) == IF c = "/" THEN Backslash ELSE LowerOf[c]

LEMMA LowSeparates ==
    ASSUME NEW c \in DOMAIN LowerOf, NEW d \in DOMAIN LowerOf
    PROVE  /\ c \in Separators <=> Low(c) = Backslash
           /\ Low(c) = Low(d) => (c \in Separators <=> d \in Separators)
           /\ c \notin Separators /\ d \notin Separators =>
                 (Low(c) = Low(d) <=> LowerOf[c] = LowerOf[d])
           /\ c \in Separators /\ d \in Separators => Low(c) = Low(d)
BY PermissionAssumption DEF Low, Separators, Backslash

LEMMA CanonicalFacts ==
    ASSUME NEW p, IsRooted(p)
    PROVE  /\ Len(p) \in Nat /\ Len(p) >= 3 /\ DOMAIN p = 1 .. Len(p)
           /\ \A i \in 1 .. Len(p) : p[i] \in DOMAIN LowerOf
           /\ p[1] \notin Separators /\ p[2] \notin Separators /\ p[3] \in Separators
           /\ \A i \in 1 .. Len(p) - 1 : p[i] \notin Separators \/ p[i + 1] \notin Separators
<1>1. ":" \notin Separators
  BY DEF Separators, Backslash
<1>2. \A i \in 1 .. Len(p) : p[i] \in DOMAIN LowerOf
  BY ElementOfSeq DEF IsRooted, IsCanonical
<1> QED
  BY <1>1, <1>2 DEF IsRooted, IsCanonical

\* Normal keeps a canonical path but for the case, the kind of its separators and
\* a separator at the end.
Kept(p, n) ==
    /\ n \in Nat /\ 3 <= n /\ n <= Len(p)
    /\ n = Len(p) \/ (n = Len(p) - 1 /\ p[Len(p)] \in Separators)
    /\ n > 3 => p[n] \notin Separators

LEMMA NormalIs ==
    ASSUME NEW p, IsRooted(p)
    PROVE  /\ Normal(p) \in Seq({Low(c) : c \in DOMAIN LowerOf})
           /\ Kept(p, Len(Normal(p)))
           /\ \A i \in 1 .. Len(Normal(p)) : Normal(p)[i] = Low(p[i])
<1> DEFINE lower == [i \in 1 .. Len(p) |-> Low(p[i])]
           S == {Low(c) : c \in DOMAIN LowerOf}
           N == Len(p)
<1>1. /\ N \in Nat /\ N >= 3
      /\ \A i \in 1 .. N : p[i] \in DOMAIN LowerOf
      /\ \A i \in 1 .. N - 1 : p[i] \notin Separators \/ p[i + 1] \notin Separators
  BY CanonicalFacts
<1>2. Normal(p) = Trim(lower)
  BY <1>1 DEF Normal, Low
<1>3. lower \in Seq(S) /\ Len(lower) = N /\ \A i \in 1 .. N : lower[i] = Low(p[i])
  <2>1. \A i \in 1 .. N : Low(p[i]) \in S
    BY <1>1
  <2> HIDE DEF S
  <2>2. lower \in [1 .. N -> S]
    BY <2>1
  <2> QED
    BY <1>1, <2>2, SeqDef
<1> HIDE DEF lower, S
<1>4. \A i \in 1 .. N : lower[i] = Backslash <=> p[i] \in Separators
  BY <1>1, <1>3, LowSeparates
<1> DEFINE kept == {n \in 1 .. N : n <= 3 \/ lower[n] # Backslash}
           n == IF N > 3 /\ p[N] \in Separators THEN N - 1 ELSE N
<1>5. n \in kept /\ \A k \in kept : k <= n
  BY <1>1, <1>4
<1>6. kept \subseteq Nat
  OBVIOUS
<1>7. Trim(lower) = SubSeq(lower, 1, Max(kept))
  BY <1>3, <1>5 DEF Trim
<1> HIDE DEF kept
<1>8. Max(kept) = n
  <2>1. \A x \in kept : (\A y \in kept : x >= y) => x = n
    BY <1>5, <1>6
  <2>2. \A y \in kept : n >= y
    BY <1>5, <1>6
  <2> QED
    BY <1>5, <2>1, <2>2 DEF Max
<1>9. Kept(p, n)
  BY <1>1, <1>4 DEF Kept
<1>10. n \in 1 .. N
  BY <1>1
<1> HIDE DEF n
<1>11. /\ SubSeq(lower, 1, n) \in Seq(S) /\ Len(SubSeq(lower, 1, n)) = n
       /\ \A i \in 1 .. n : SubSeq(lower, 1, n)[i] = lower[i]
  BY <1>1, <1>3, <1>10
<1> QED
  BY <1>1, <1>2, <1>3, <1>7, <1>8, <1>9, <1>10, <1>11 DEF S

-----------------------------------------------------------------------------
(* The components of two canonical paths that agree up to a character.       *)

\* r and p are the same up to the n-th character.
Agree(r, p, n) == \A i \in 1 .. n : Low(r[i]) = Low(p[i])

Canonical2(r, p) == IsRooted(r) /\ IsRooted(p)

LEMMA AgreeFacts ==
    ASSUME NEW r, NEW p, Canonical2(r, p), NEW n \in Nat, n <= Len(r), n <= Len(p),
           Agree(r, p, n)
    PROVE  /\ \A i \in 1 .. n : r[i] \in Separators <=> p[i] \in Separators
           /\ \A i \in 1 .. n : i \in Begins(r) <=> i \in Begins(p)
           /\ \A i \in 1 .. n : Place(r, i) = Place(p, i)
<1>1. /\ Len(p) \in Nat /\ DOMAIN p = 1 .. Len(p)
      /\ Len(r) \in Nat /\ DOMAIN r = 1 .. Len(r)
      /\ \A i \in 1 .. Len(p) : p[i] \in DOMAIN LowerOf
      /\ \A i \in 1 .. Len(r) : r[i] \in DOMAIN LowerOf
  BY CanonicalFacts DEF Canonical2
<1>2. \A i \in 1 .. n : r[i] \in Separators <=> p[i] \in Separators
  BY <1>1, LowSeparates DEF Agree
<1>3. \A i \in 1 .. n : i \in Begins(r) <=> i \in Begins(p)
  BY <1>1, <1>2 DEF Begins
<1>4. ASSUME NEW i \in 1 .. n
      PROVE  {j \in Begins(r) : j <= i} = {j \in Begins(p) : j <= i}
  <2>1. Begins(r) \subseteq Nat \ {0} /\ Begins(p) \subseteq Nat \ {0}
    BY <1>1 DEF Begins
  <2> QED
    BY <1>3, <2>1
<1> QED
  BY <1>2, <1>3, <1>4 DEF Place

\* A character that is no separator is in a component.
LEMMA InComponent ==
    ASSUME NEW p, IsRooted(p), NEW i \in 1 .. Len(p), p[i] \notin Separators
    PROVE  \E s \in Begins(p) :
              s \in 1 .. i /\ \A y \in s .. i : p[y] \notin Separators
<1> DEFINE S == {x \in 1 .. i : \A y \in x .. i : p[y] \notin Separators}
<1>1. Len(p) \in Nat /\ DOMAIN p = 1 .. Len(p)
  BY CanonicalFacts
<1>2. i \in S /\ S \subseteq Nat
  BY <1>1
<1>3. \A x : x \in S <=> x \in 1 .. i /\ \A y \in x .. i : p[y] \notin Separators
  OBVIOUS
<1> HIDE DEF S
<1>4. PICK s \in S : \A x \in S : s <= x
  BY <1>2, Least
<1>5. s \in 1 .. i /\ \A y \in s .. i : p[y] \notin Separators
  BY <1>3
<1>6. s = 1 \/ p[s - 1] \in Separators
  <2> SUFFICES ASSUME s # 1, p[s - 1] \notin Separators PROVE FALSE
    OBVIOUS
  <2>1. \A y \in s - 1 .. i : y = s - 1 \/ y \in s .. i
    BY <1>1, <1>5
  <2>2. s - 1 \in S
    BY <1>1, <1>3, <1>5, <2>1
  <2> QED
    BY <1>1, <1>4, <1>5, <2>2
<1>7. s \in Begins(p)
  BY <1>1, <1>5, <1>6 DEF Begins
<1> QED
  BY <1>5, <1>7

\* A component that begins where both agree has the same characters in both, and
\* ends in both after as many.
LEMMA SameComponent ==
    ASSUME NEW r, NEW p, Canonical2(r, p), NEW s, s \in Begins(r), s \in Begins(p),
           Component(p, s) = Component(r, s), NEW i \in Nat, s <= i
    PROVE  LET Runs(q) == i <= Len(q) /\ \A y \in s .. i : q[y] \notin Separators IN
           /\ Runs(r) <=> Runs(p)
           /\ Runs(r) => Low(r[i]) = Low(p[i])
<1> DEFINE D(q) == {k \in 0 .. Len(q) - s : \A j \in s .. s + k : q[j] \notin Separators}
           Runs(q) == i <= Len(q) /\ \A y \in s .. i : q[y] \notin Separators
<1>1. /\ Len(p) \in Nat /\ DOMAIN p = 1 .. Len(p)
      /\ Len(r) \in Nat /\ DOMAIN r = 1 .. Len(r)
      /\ \A k \in 1 .. Len(p) : p[k] \in DOMAIN LowerOf
      /\ \A k \in 1 .. Len(r) : r[k] \in DOMAIN LowerOf
  BY CanonicalFacts DEF Canonical2
<1>2. s \in 1 .. Len(r) /\ s \in 1 .. Len(p)
  BY <1>1 DEF Begins
<1>3. \A q : Component(q, s) = [k \in D(q) |-> LowerOf[q[s + k]]]
  BY DEF Component
<1>4. s + (i - s) = i /\ i - s \in Nat
  BY <1>2
<1>5. Runs(r) <=> i - s \in D(r)
  BY <1>1, <1>2, <1>4
<1>6. Runs(p) <=> i - s \in D(p)
  BY <1>1, <1>2, <1>4
<1> HIDE DEF D
<1>7. D(r) = DOMAIN Component(r, s) /\ D(p) = DOMAIN Component(p, s)
  BY <1>3
<1>8. i - s \in D(r) /\ i - s \in D(p) =>
         LowerOf[r[i]] = LowerOf[p[i]]
  <2>1. i - s \in D(r) => Component(r, s)[i - s] = LowerOf[r[i]]
    BY <1>3, <1>4
  <2>2. i - s \in D(p) => Component(p, s)[i - s] = LowerOf[p[i]]
    BY <1>3, <1>4
  <2> QED
    BY <2>1, <2>2
<1>9. Runs(r) <=> Runs(p)
  BY <1>5, <1>6, <1>7
<1>10. Runs(r) => Low(r[i]) = Low(p[i])
  <2> SUFFICES ASSUME Runs(r) PROVE Low(r[i]) = Low(p[i])
    OBVIOUS
  <2>1. Runs(p) /\ LowerOf[r[i]] = LowerOf[p[i]]
    BY <1>5, <1>6, <1>7, <1>8
  <2>2. /\ i \in 1 .. Len(r) /\ i \in 1 .. Len(p)
        /\ r[i] \notin Separators /\ p[i] \notin Separators
    BY <1>1, <1>2, <2>1
  <2> QED
    BY <1>1, <2>1, <2>2, LowSeparates
<1> QED
  BY <1>9, <1>10

-----------------------------------------------------------------------------
(* Containment by characters is containment by components.                 *)

\* With m and n characters kept of r and p.
ByCharacters(r, p, m, n) ==
    /\ m <= n /\ Agree(r, p, m)
    /\ n = m \/ r[m] \in Separators \/ p[m + 1] \in Separators

LEMMA SubpathIs ==
    ASSUME NEW r, NEW p, Canonical2(r, p)
    PROVE  \E m, n : /\ Kept(r, m) /\ Kept(p, n)
                     /\ IsSubpathOrEqual(r, p) <=> ByCharacters(r, p, m, n)
<1> DEFINE S == {Low(c) : c \in DOMAIN LowerOf}
           b == Normal(r)
           t == Normal(p)
           m == Len(b)
           n == Len(t)
<1>1. /\ Len(p) \in Nat /\ DOMAIN p = 1 .. Len(p) /\ Len(p) >= 3
      /\ Len(r) \in Nat /\ DOMAIN r = 1 .. Len(r) /\ Len(r) >= 3
      /\ \A i \in 1 .. Len(p) : p[i] \in DOMAIN LowerOf
      /\ \A i \in 1 .. Len(r) : r[i] \in DOMAIN LowerOf
  BY CanonicalFacts DEF Canonical2
<1>2. /\ b \in Seq(S) /\ Kept(r, m) /\ \A i \in 1 .. m : b[i] = Low(r[i])
      /\ t \in Seq(S) /\ Kept(p, n) /\ \A i \in 1 .. n : t[i] = Low(p[i])
  BY NormalIs DEF Canonical2
<1>3. r # <<>> /\ p # <<>>
  BY <1>1
<1>4. IsSubpathOrEqual(r, p) <=>
        IsPrefix(b, t) /\ (n = m \/ b[m] = Backslash \/ t[m + 1] = Backslash)
  BY <1>3 DEF IsSubpathOrEqual, Last
<1>5. m \in Nat /\ n \in Nat /\ 3 <= m /\ 3 <= n /\ m <= Len(r) /\ n <= Len(p)
  BY <1>2 DEF Kept
<1> HIDE DEF b, t, S
<1>6. IsPrefix(b, t) <=> m <= n /\ \A i \in 1 .. m : b[i] = t[i]
  <2>1. CASE m <= n
    <3>1. /\ SubSeq(b, 1, m) \in Seq(S) /\ Len(SubSeq(b, 1, m)) = m
          /\ \A i \in 1 .. m : SubSeq(b, 1, m)[i] = b[i]
      BY <1>2, <1>5
    <3>2. /\ SubSeq(t, 1, m) \in Seq(S) /\ Len(SubSeq(t, 1, m)) = m
          /\ \A i \in 1 .. m : SubSeq(t, 1, m)[i] = t[i]
      BY <1>2, <1>5, <2>1
    <3> DEFINE u == SubSeq(b, 1, m)
               v == SubSeq(t, 1, m)
    <3> HIDE DEF u, v
    <3>3. u \in Seq(S) /\ v \in Seq(S) /\ Len(u) = Len(v)
      BY <3>1, <3>2 DEF u, v
    <3>4. u = v <=> \A i \in 1 .. m : u[i] = v[i]
      BY <3>1, <3>3 DEF u
    <3> QED
      BY <2>1, <3>1, <3>2, <3>4 DEF IsPrefix, u, v
  <2>2. CASE ~(m <= n)
    BY <2>2 DEF IsPrefix
  <2> QED
    BY <2>1, <2>2
<1>7. m <= n => ((\A i \in 1 .. m : b[i] = t[i]) <=> Agree(r, p, m))
  BY <1>2, <1>5 DEF Agree
<1>8. b[m] = Backslash <=> r[m] \in Separators
  BY <1>1, <1>2, <1>5, LowSeparates
<1>9. m < n => (t[m + 1] = Backslash <=> p[m + 1] \in Separators)
  BY <1>1, <1>2, <1>5, LowSeparates
<1>10. IsSubpathOrEqual(r, p) <=> ByCharacters(r, p, m, n)
  BY <1>4, <1>5, <1>6, <1>7, <1>8, <1>9 DEF ByCharacters
<1> QED
  BY <1>2, <1>10

LEMMA CharactersToComponents ==
    ASSUME NEW r, NEW p, Canonical2(r, p), NEW m, NEW n, Kept(r, m), Kept(p, n),
           ByCharacters(r, p, m, n)
    PROVE  LiesIn(p, r)
<1>0. Len(p) \in Nat /\ Len(r) \in Nat
  BY CanonicalFacts DEF Canonical2
<1>1. /\ DOMAIN p = 1 .. Len(p) /\ DOMAIN r = 1 .. Len(r)
      /\ \A k \in 1 .. Len(p) : p[k] \in DOMAIN LowerOf
      /\ \A k \in 1 .. Len(r) : r[k] \in DOMAIN LowerOf
  BY CanonicalFacts DEF Canonical2
<1>2. m \in Nat /\ n \in Nat /\ m <= n /\ m <= Len(r) /\ n <= Len(p) /\ m <= Len(p)
  BY <1>0 DEF Kept, ByCharacters
<1>20. m = Len(r) \/ (m = Len(r) - 1 /\ r[Len(r)] \in Separators)
  BY <1>0 DEF Kept
<1>21. n = Len(p) \/ (n = Len(p) - 1 /\ p[Len(p)] \in Separators)
  BY <1>0 DEF Kept
<1>22. n = m \/ r[m] \in Separators \/ p[m + 1] \in Separators
  BY DEF ByCharacters
<1>23. Agree(r, p, m)
  BY DEF ByCharacters
<1>3. /\ \A i \in 1 .. m : r[i] \in Separators <=> p[i] \in Separators
      /\ \A i \in 1 .. m : i \in Begins(r) <=> i \in Begins(p)
      /\ \A i \in 1 .. m : Place(r, i) = Place(p, i)
  BY <1>2, <1>23, AgreeFacts
<1> SUFFICES ASSUME NEW i \in Begins(r)
             PROVE  \E j \in Begins(p) :
                       Place(p, j) = Place(r, i) /\ Component(p, j) = Component(r, i)
  BY DEF LiesIn
<1>4. i \in 1 .. m
  <2>1. i \in 1 .. Len(r) /\ r[i] \notin Separators
    BY <1>1 DEF Begins
  <2>2. ~(i <= m) => i = Len(r) /\ m = Len(r) - 1
    BY <1>0, <1>2, <1>20, <2>1
  <2>3. i <= m
    BY <1>2, <1>20, <2>1, <2>2
  <2> QED
    BY <1>0, <1>2, <2>1, <2>3
<1>5. i \in Begins(p) /\ Place(p, i) = Place(r, i)
  BY <1>3, <1>4
<1> DEFINE D(q) == {k \in 0 .. Len(q) - i : \A j \in i .. i + k : q[j] \notin Separators}
<1>6. ASSUME NEW k \in D(r) PROVE k \in D(p) /\ i + k <= m
  <2>1. k \in Nat /\ i + k <= Len(r) /\ r[i + k] \notin Separators
    BY <1>0, <1>1, <1>4
  <2>2. i + k <= m
    <3>1. ~(i + k <= m) => i + k = Len(r) /\ m # Len(r)
      BY <1>0, <1>2, <1>20, <1>4, <2>1
    <3> QED
      BY <1>20, <2>1, <3>1
  <2>3. \A j \in i .. i + k : j \in 1 .. m
    BY <1>2, <1>4, <2>1, <2>2
  <2>4. \A j \in i .. i + k : p[j] \notin Separators
    BY <1>3, <2>3
  <2>5. k \in 0 .. Len(p) - i
    BY <1>0, <1>2, <1>4, <2>1, <2>2
  <2> QED
    BY <2>2, <2>4, <2>5
<1>7. ASSUME NEW k \in D(p) PROVE k \in D(r)
  <2>1. k \in Nat /\ i + k <= Len(p) /\ \A j \in i .. i + k : p[j] \notin Separators
    BY <1>0, <1>1, <1>4
  <2>2. i + k <= m
    <3> SUFFICES ASSUME m + 1 <= i + k PROVE FALSE
      BY <1>2, <1>4, <2>1
    <3>1. p[m + 1] \notin Separators /\ p[m] \notin Separators
      BY <1>2, <1>4, <2>1
    <3>2. r[m] \notin Separators
      BY <1>2, <1>3, <1>4, <3>1
    <3>3. n = m
      BY <1>22, <3>1, <3>2
    <3>4. n # Len(p) /\ (n = Len(p) - 1 => m + 1 = Len(p))
      BY <1>0, <1>2, <1>4, <2>1, <3>3
    <3> QED
      BY <1>21, <3>1, <3>4
  <2>3. \A j \in i .. i + k : j \in 1 .. m
    BY <1>2, <1>4, <2>1, <2>2
  <2>4. \A j \in i .. i + k : r[j] \notin Separators
    BY <1>3, <2>1, <2>3
  <2>5. k \in 0 .. Len(r) - i
    BY <1>0, <1>2, <1>4, <2>1, <2>2
  <2> QED
    BY <2>4, <2>5
<1>8. D(r) = D(p)
  <2>1. \A k \in D(r) : k \in D(p)
    BY <1>6
  <2>2. \A k \in D(p) : k \in D(r)
    BY <1>7
  <2> HIDE DEF D
  <2> QED
    BY <2>1, <2>2
<1>9. ASSUME NEW k \in D(r) PROVE LowerOf[r[i + k]] = LowerOf[p[i + k]]
  <2>1. i + k \in 1 .. m
    <3>1. k \in Nat /\ i + k <= m
      BY <1>0, <1>6
    <3> QED
      BY <1>2, <1>4, <3>1
  <2>2. r[i + k] \notin Separators /\ p[i + k] \notin Separators
    <3>1. i + k \in i .. i + k
      BY <1>0, <1>4
    <3> QED
      BY <1>6, <3>1
  <2>4. Low(r[i + k]) = Low(p[i + k])
    BY <1>23, <2>1 DEF Agree
  <2>3. r[i + k] \in DOMAIN LowerOf /\ p[i + k] \in DOMAIN LowerOf
    BY <1>0, <1>1, <1>2, <2>1
  <2> QED
    BY <2>2, <2>3, <2>4, LowSeparates
<1>10. \A q : Component(q, i) = [k \in D(q) |-> LowerOf[q[i + k]]]
  BY DEF Component
<1> HIDE DEF D
<1>11. Component(p, i) = Component(r, i)
  BY <1>8, <1>9, <1>10
<1> QED
  BY <1>5, <1>11

\* The character after those that agree: in a component of r, it is in the same of p.
LEMMA ComponentsToCharacters ==
    ASSUME NEW r, NEW p, Canonical2(r, p), NEW m, NEW n, Kept(r, m), Kept(p, n),
           LiesIn(p, r)
    PROVE  ByCharacters(r, p, m, n)
<1>0. Len(p) \in Nat /\ Len(r) \in Nat
  BY CanonicalFacts DEF Canonical2
<1>1. /\ DOMAIN p = 1 .. Len(p) /\ DOMAIN r = 1 .. Len(r)
      /\ \A k \in 1 .. Len(p) : p[k] \in DOMAIN LowerOf
      /\ \A k \in 1 .. Len(r) : r[k] \in DOMAIN LowerOf
      /\ p[1] \notin Separators /\ r[1] \notin Separators /\ r[2] \notin Separators
      /\ p[3] \in Separators /\ r[3] \in Separators
      /\ \A i \in 1 .. Len(p) - 1 : p[i] \notin Separators \/ p[i + 1] \notin Separators
      /\ \A i \in 1 .. Len(r) - 1 : r[i] \notin Separators \/ r[i + 1] \notin Separators
  BY CanonicalFacts DEF Canonical2
<1>2. m \in Nat /\ n \in Nat /\ m <= Len(r) /\ n <= Len(p) /\ 3 <= m /\ 3 <= n
  BY <1>0 DEF Kept
<1>20. m = Len(r) \/ (m = Len(r) - 1 /\ r[Len(r)] \in Separators)
  BY <1>0 DEF Kept
<1>21. n = Len(p) \/ (n = Len(p) - 1 /\ p[Len(p)] \in Separators)
  BY <1>0 DEF Kept
<1>22. m > 3 => r[m] \notin Separators
  BY <1>0 DEF Kept
<1>3. Begins(r) \subseteq Nat \ {0} /\ Begins(p) \subseteq Nat \ {0}
  BY <1>0, <1>1 DEF Begins
\* Places are different.
<1>4. /\ \A i, j \in Begins(p) : Place(p, i) = Place(p, j) => i = j
      /\ \A i, j \in Begins(r) : Place(r, i) = Place(r, j) => i = j
  <2>1. \A i, j \in Begins(p) : Place(p, i) = Place(p, j) => i = j
    BY <1>3, SamePlace DEF Place
  <2>2. \A i, j \in Begins(r) : Place(r, i) = Place(r, j) => i = j
    BY <1>3, SamePlace DEF Place
  <2> QED
    BY <2>1, <2>2
\* If r and p agree before i, what begins before i is there in both.
<1>5. ASSUME NEW k \in Nat, k <= m, k <= n, Agree(r, p, k)
      PROVE  /\ \A s \in 1 .. k : r[s] \in Separators <=> p[s] \in Separators
             /\ \A s \in 1 .. k : s \in Begins(r) <=> s \in Begins(p)
             /\ \A s \in 1 .. k : Place(r, s) = Place(p, s)
             /\ \A s \in 1 .. k : s \in Begins(r) => Component(p, s) = Component(r, s)
  <2>1. /\ k \in Nat /\ k <= Len(r) /\ k <= Len(p)
    BY <1>0, <1>2, <1>5
  <2>2. /\ \A s \in 1 .. k : r[s] \in Separators <=> p[s] \in Separators
        /\ \A s \in 1 .. k : s \in Begins(r) <=> s \in Begins(p)
        /\ \A s \in 1 .. k : Place(r, s) = Place(p, s)
    BY <1>5, <2>1, AgreeFacts
  <2>3. ASSUME NEW s \in 1 .. k, s \in Begins(r)
        PROVE  Component(p, s) = Component(r, s)
    <3>1. PICK j \in Begins(p) :
             Place(p, j) = Place(r, s) /\ Component(p, j) = Component(r, s)
      BY <2>3 DEF LiesIn
    <3>2. s \in Begins(p) /\ Place(p, s) = Place(r, s)
      BY <2>2, <2>3
    <3>3. j = s
      BY <1>4, <3>1, <3>2
    <3> QED
      BY <3>1, <3>3
  <2> QED
    BY <2>2, <2>3
\* Nor does the next character of r differ.
<1>6. ASSUME NEW i \in 1 .. m, i - 1 <= n, Agree(r, p, i - 1)
      PROVE  i <= n /\ Low(r[i]) = Low(p[i])
  <2>1. i \in Nat \ {0} /\ i - 1 \in Nat /\ i - 1 <= m /\ i \in 1 .. Len(r)
    BY <1>0, <1>2
  <2>2. /\ \A s \in 1 .. i - 1 : r[s] \in Separators <=> p[s] \in Separators
        /\ \A s \in 1 .. i - 1 : s \in Begins(r) <=> s \in Begins(p)
        /\ \A s \in 1 .. i - 1 : Place(r, s) = Place(p, s)
        /\ \A s \in 1 .. i - 1 : s \in Begins(r) => Component(p, s) = Component(r, s)
    BY <1>5, <1>6, <2>1
  \* In a component that begins at s, in both.
  <2>3. ASSUME NEW s \in 1 .. i, s \in Begins(r), s \in Begins(p),
               Component(p, s) = Component(r, s), \A y \in s .. i : r[y] \notin Separators
        PROVE  i <= n /\ Low(r[i]) = Low(p[i])
    <3>1. /\ i <= Len(p) /\ \A y \in s .. i : p[y] \notin Separators
          /\ Low(r[i]) = Low(p[i])
      BY <2>1, <2>3, SameComponent
    <3>2. p[i] \notin Separators
      BY <2>1, <3>1
    <3>3. ~(i <= n) => i = Len(p) /\ n # Len(p)
      BY <1>0, <1>2, <1>21, <2>1, <3>1
    <3> QED
      BY <1>21, <3>1, <3>2, <3>3
  <2>4. CASE r[i] \notin Separators
    <3>1. PICK s \in Begins(r) : s \in 1 .. i /\ \A y \in s .. i : r[y] \notin Separators
      BY <2>1, <2>4, InComponent DEF Canonical2
    <3>2. CASE s <= i - 1
      <4>1. s \in 1 .. i - 1
        BY <2>1, <3>1, <3>2
      <4> QED
        BY <2>2, <2>3, <3>1, <4>1
    <3>3. CASE s = i
      <4>1. PICK j \in Begins(p) :
               Place(p, j) = Place(r, i) /\ Component(p, j) = Component(r, i)
        BY <3>1, <3>3 DEF LiesIn
      <4>2. ~(j <= i - 1)
        <5> SUFFICES ASSUME j \in 1 .. i - 1 PROVE FALSE
          BY <1>3, <2>1
        <5>1. j \in Begins(r) /\ Place(r, j) = Place(r, i)
          BY <2>2, <4>1
        <5>2. j = i
          BY <1>4, <3>1, <3>3, <5>1
        <5> QED
          BY <2>1, <5>2
      <4>3. i <= j /\ j <= Len(p) /\ j \in Nat /\ i <= Len(p)
        <5>1. j \in 1 .. Len(p)
          BY <1>1 DEF Begins
        <5> QED
          BY <1>0, <2>1, <4>2, <5>1
      <4>4. i \in Begins(p)
        <5>1. CASE i = 1
          BY <1>0, <1>1, <4>3, <5>1 DEF Begins
        <5>2. CASE i # 1
          <6>1. r[i - 1] \in Separators /\ i - 1 \in 1 .. i - 1
            BY <2>1, <3>1, <3>3, <5>2 DEF Begins
          <6>2. p[i - 1] \in Separators
            BY <2>2, <6>1
          <6>3. p[i] \notin Separators
            <7>1. i - 1 \in 1 .. Len(p) - 1 /\ i - 1 + 1 = i
              BY <1>0, <2>1, <4>3, <5>2
            <7> QED
              BY <1>1, <6>2, <7>1
          <6> QED
            BY <1>0, <1>1, <2>1, <4>3, <6>2, <6>3 DEF Begins
        <5> QED
          BY <5>1, <5>2
      <4>5. Place(p, i) = Place(r, i)
        <5>1. \A x : x \in Begins(r) /\ x <= i <=> x \in Begins(p) /\ x <= i
          <6>1. \A x \in Nat \ {0} : x <= i => x = i \/ x \in 1 .. i - 1
            BY <2>1
          <6> QED
            BY <1>3, <2>2, <3>1, <3>3, <4>4, <6>1
        <5>2. {x \in Begins(r) : x <= i} = {x \in Begins(p) : x <= i}
          BY <5>1
        <5> QED
          BY <5>2 DEF Place
      <4>6. j = i
        BY <1>4, <4>1, <4>4, <4>5
      <4> QED
        BY <2>3, <3>1, <3>3, <4>1, <4>4, <4>6
    <3> QED
      BY <2>1, <3>1, <3>2, <3>3
  <2>5. CASE r[i] \in Separators
    <3>1. CASE i = 3
      BY <1>0, <1>1, <1>2, <3>1, LowSeparates
    <3>2. CASE i > 3
      <4>1. i - 1 \in 1 .. Len(r) /\ i - 1 \in 1 .. Len(r) - 1 /\ i - 1 + 1 = i
        BY <1>0, <2>1, <3>2
      <4>2. r[i - 1] \notin Separators
        BY <1>1, <2>5, <4>1
      <4>3. PICK s \in Begins(r) :
               s \in 1 .. i - 1 /\ \A y \in s .. i - 1 : r[y] \notin Separators
        BY <4>1, <4>2, InComponent DEF Canonical2
      <4>4. s \in Begins(p) /\ Component(p, s) = Component(r, s)
        BY <2>2, <4>3
      <4>5. CASE i <= n
        <5>1. ~(\A y \in s .. i : r[y] \notin Separators)
          BY <2>1, <2>5, <4>3
        <5>2. ~(\A y \in s .. i : p[y] \notin Separators)
          <6>1. i \in Nat /\ s <= i /\ i <= Len(p)
            BY <1>0, <1>2, <2>1, <4>3, <4>5
          <6> QED
            BY <4>3, <4>4, <5>1, <6>1, SameComponent
        <5>3. \A y \in s .. i : y = i \/ y \in s .. i - 1
          BY <2>1, <4>3
        <5>4. \A y \in s .. i - 1 : y \in 1 .. i - 1
          BY <2>1, <4>3
        <5>5. p[i] \in Separators
          BY <2>2, <4>3, <5>2, <5>3, <5>4
        <5>6. i \in 1 .. Len(p)
          BY <1>0, <1>2, <2>1, <4>5
        <5> QED
          BY <1>0, <1>1, <2>1, <2>5, <4>5, <5>5, <5>6, LowSeparates
      <4>6. CASE ~(i <= n)
        <5>1. n = i - 1 /\ m > 3
          BY <1>2, <1>6, <2>1, <3>2, <4>6
        <5>2. i < m
          <6>1. r[m] \notin Separators
            BY <1>22, <5>1
          <6>2. i # m
            BY <2>5, <6>1
          <6> QED
            BY <1>2, <2>1, <6>2
        <5>3. i \in 1 .. Len(r) - 1 /\ i + 1 \in 1 .. Len(r) /\ i + 1 - 1 = i
          BY <1>0, <1>2, <2>1, <5>2
        <5>4. r[i + 1] \notin Separators
          BY <1>1, <2>5, <5>3
        <5>5. i + 1 \in Begins(r)
          BY <1>0, <1>1, <2>5, <5>3, <5>4 DEF Begins
        <5>6. PICK j \in Begins(p) : Place(p, j) = Place(r, i + 1)
          BY <5>5 DEF LiesIn
        <5>7. j \in 1 .. i - 1
          <6>1. j \in 1 .. Len(p) /\ p[j] \notin Separators
            BY <1>1 DEF Begins
          <6>2. ~(j <= n) => j = Len(p) /\ n # Len(p)
            BY <1>0, <1>2, <1>21, <6>1
          <6>3. j <= n
            BY <1>21, <6>1, <6>2
          <6> QED
            BY <1>0, <2>1, <5>1, <6>1, <6>3
        <5>8. j \in Begins(r) /\ Place(r, j) = Place(r, i + 1)
          BY <2>2, <5>6, <5>7
        <5>9. j = i + 1
          BY <1>4, <5>5, <5>8
        <5> QED
          BY <2>1, <5>7, <5>9
      <4> QED
        BY <4>5, <4>6
    <3>3. i >= 3
      BY <1>0, <1>1, <2>1, <2>5
    <3> QED
      BY <2>1, <3>1, <3>2, <3>3
  <2> QED
    BY <2>4, <2>5
<1>7. m <= n /\ Agree(r, p, m)
  <2> DEFINE Bad == {i \in 1 .. m : ~(i <= n /\ Low(r[i]) = Low(p[i]))}
  <2>1. Bad = {}
    <3> SUFFICES ASSUME Bad # {} PROVE FALSE
      OBVIOUS
    <3>1. /\ Bad \subseteq Nat
          /\ \A i : i \in Bad <=> i \in 1 .. m /\ ~(i <= n /\ Low(r[i]) = Low(p[i]))
      OBVIOUS
    <3> HIDE DEF Bad
    <3>2. PICK i \in Bad : \A k \in Bad : i <= k
      BY <3>1, Least
    <3>3. i \in 1 .. m
      BY <3>1
    <3>4. ASSUME NEW k \in 1 .. i - 1 PROVE k <= n /\ Low(r[k]) = Low(p[k])
      <4>1. k \in 1 .. m /\ ~(i <= k)
        BY <1>2, <3>3
      <4> QED
        BY <3>1, <3>2, <4>1
    <3>5. Agree(r, p, i - 1)
      BY <3>4 DEF Agree
    <3>6. i - 1 <= n
      <4>1. i = 1 \/ i - 1 \in 1 .. i - 1
        BY <3>3
      <4> QED
        BY <1>2, <3>3, <3>4, <4>1
    <3>7. i <= n /\ Low(r[i]) = Low(p[i])
      BY <1>6, <3>3, <3>5, <3>6
    <3> QED
      BY <3>1, <3>7
  <2>2. \A i \in 1 .. m : i <= n /\ Low(r[i]) = Low(p[i])
    BY <2>1
  <2>3. m \in 1 .. m
    BY <1>2
  <2> QED
    BY <2>2, <2>3 DEF Agree
<1>8. n = m \/ r[m] \in Separators \/ p[m + 1] \in Separators
  <2> SUFFICES ASSUME n # m, r[m] \notin Separators PROVE p[m + 1] \in Separators
    OBVIOUS
  <2>1. m + 1 \in Nat \ {0} /\ m + 1 - 1 = m /\ m <= n /\ m + 1 <= n /\ m + 1 <= Len(p)
    BY <1>0, <1>2, <1>7
  <2>2. /\ \A s \in 1 .. m : r[s] \in Separators <=> p[s] \in Separators
        /\ \A s \in 1 .. m : s \in Begins(r) <=> s \in Begins(p)
        /\ \A s \in 1 .. m : s \in Begins(r) => Component(p, s) = Component(r, s)
    BY <1>2, <1>5, <1>7, <2>1
  <2>3. PICK s \in Begins(r) : s \in 1 .. m /\ \A y \in s .. m : r[y] \notin Separators
    <3>1. m \in 1 .. Len(r)
      BY <1>0, <1>2
    <3> QED
      BY <3>1, InComponent DEF Canonical2
  <2>4. ~(m + 1 <= Len(r) /\ \A y \in s .. m + 1 : r[y] \notin Separators)
    <3>1. m + 1 \in s .. m + 1
      BY <1>2, <2>3
    <3>2. m + 1 <= Len(r) => r[m + 1] \in Separators
      <4>1. m + 1 <= Len(r) => m # Len(r)
        BY <1>0, <1>2
      <4>2. m = Len(r) - 1 => m + 1 = Len(r)
        BY <1>0, <1>2
      <4> QED
        BY <1>20, <4>1, <4>2
    <3> QED
      BY <3>1, <3>2
  <2>5. ~(\A y \in s .. m + 1 : p[y] \notin Separators)
    <3>1. s \in Begins(p) /\ Component(p, s) = Component(r, s) /\ s <= m + 1
      BY <1>2, <2>2, <2>3
    <3> QED
      BY <2>1, <2>4, <3>1, SameComponent
  <2>6. \A y \in s .. m + 1 : y = m + 1 \/ (y \in s .. m /\ y \in 1 .. m)
    BY <1>2, <2>3
  <2> QED
    BY <2>2, <2>3, <2>5, <2>6
<1> QED
  BY <1>7, <1>8 DEF ByCharacters

LEMMA RootedLiesIn ==
    ASSUME NEW r, NEW p, IsRooted(r), IsRooted(p)
    PROVE  IsSubpathOrEqual(r, p) <=> LiesIn(p, r)
BY SubpathIs, CharactersToComponents, ComponentsToCharacters DEF Canonical2

\* Normal gives a drive its separator; its component is the same without it.
Rooted(p) == IF Len(p) = 2 THEN Append(p, Backslash) ELSE p

LEMMA FunctionIsSeq ==
    ASSUME NEW S, NEW n \in Nat, NEW f \in [1 .. n -> S]
    PROVE  f \in Seq(S) /\ Len(f) = n
BY SeqDef

LEMMA RootedIs ==
    ASSUME NEW p, IsCanonical(p)
    PROVE  /\ IsRooted(Rooted(p))
           /\ Normal(Rooted(p)) = Normal(p)
           /\ Begins(Rooted(p)) = Begins(p)
           /\ \A i \in Begins(p) : /\ Place(Rooted(p), i) = Place(p, i)
                                   /\ Component(Rooted(p), i) = Component(p, i)
<1>1. CASE Len(p) # 2
  <2>1. Rooted(p) = p
    BY <1>1 DEF Rooted
  <2>2. Len(p) \in Nat
    BY DEF IsCanonical
  <2>3. IsRooted(p)
    <3>1. \A n \in Nat : n >= 2 /\ n # 2 => n >= 3
      OBVIOUS
    <3>2. Len(p) >= 3
      BY <1>1, <2>2, <3>1 DEF IsCanonical
    <3> QED
      BY <3>2 DEF IsRooted
  <2> QED
    BY <2>1, <2>3
<1>2. CASE Len(p) = 2
  <2> DEFINE q == Append(p, Backslash)
  <2>1. /\ p \in Seq(DOMAIN LowerOf) /\ p[1] \notin Separators /\ p[2] = ":"
        /\ DOMAIN p = {1, 2}
    BY <1>2 DEF IsCanonical
  <2>2. /\ q \in Seq(DOMAIN LowerOf) /\ Len(q) = 3 /\ DOMAIN q = {1, 2, 3}
        /\ q[1] = p[1] /\ q[2] = ":" /\ q[3] = Backslash
    <3>1. Backslash \in DOMAIN LowerOf
      BY PermissionAssumption
    <3> HIDE DEF Backslash
    <3>2. /\ q \in Seq(DOMAIN LowerOf) /\ Len(q) = Len(p) + 1
          /\ \A i \in 1 .. Len(p) : q[i] = p[i]
          /\ q[Len(p) + 1] = Backslash
      BY <2>1, <3>1, AppendProperties
    <3>3. Len(q) = 3 /\ 1 \in 1 .. Len(p) /\ 2 \in 1 .. Len(p)
      BY <1>2, <3>2
    <3>4. DOMAIN q = {1, 2, 3}
      BY <3>2, <3>3
    <3> QED
      BY <1>2, <2>1, <3>2, <3>3, <3>4
  <2>3. Rooted(p) = q
    BY <1>2 DEF Rooted
  <2> HIDE DEF q
  <2>4. ":" \notin Separators /\ Backslash \in Separators /\ Backslash # "/"
    BY DEF Separators, Backslash
  <2>5. IsRooted(q)
    <3>1. \A i \in 1 .. Len(q) - 1 : q[i] \notin Separators \/ q[i + 1] \notin Separators
      <4>1. \A i \in 1 .. Len(q) - 1 : i = 1 \/ i = 2
        BY <2>2
      <4> QED
        BY <2>1, <2>2, <2>4, <4>1
    <3> QED
      BY <2>1, <2>2, <2>4, <3>1 DEF IsRooted, IsCanonical
  <2>6. Begins(q) = {1} /\ Begins(p) = {1}
    BY <2>1, <2>2, <2>4 DEF Begins
  <2>7. Component(q, 1) = Component(p, 1)
    <3> DEFINE D(u) == {k \in 0 .. Len(u) - 1 : \A j \in 1 .. 1 + k : u[j] \notin Separators}
    <3>1. \A u : Component(u, 1) = [k \in D(u) |-> LowerOf[u[1 + k]]]
      BY DEF Component
    <3>2. D(q) = {0, 1}
      BY <2>1, <2>2, <2>4
    <3>3. D(p) = {0, 1}
      BY <1>2, <2>1, <2>4
    <3> HIDE DEF D
    <3> QED
      BY <2>1, <2>2, <3>1, <3>2, <3>3
  <2>8. Normal(q) = Normal(p)
    <3> DEFINE lower(u) == [i \in 1 .. Len(u) |->
                               IF u[i] = "/" THEN Backslash ELSE LowerOf[u[i]]]
    <3>1. Normal(q) = Trim(lower(q))
      BY <2>2 DEF Normal
    <3>2. Normal(p) = Trim(Append(lower(p), Backslash))
      BY <1>2, <2>1 DEF Normal
    <3>3. LowerOf[Backslash] = Backslash
      BY PermissionAssumption
    <3>4. lower(q) = Append(lower(p), Backslash)
      <4> DEFINE L == {LowerOf[c] : c \in DOMAIN LowerOf} \cup {Backslash}
                 v == lower(p)
                 w == lower(q)
      <4>1. \A i \in 1 .. Len(q) : q[i] \in DOMAIN LowerOf
        BY <2>2, ElementOfSeq
      <4>2. \A i \in 1 .. Len(p) : p[i] \in DOMAIN LowerOf
        BY <2>1, ElementOfSeq
      <4>3. v \in Seq(L) /\ Len(v) = 2 /\ w \in Seq(L) /\ Len(w) = 3
        <5>1. v \in [1 .. 2 -> L]
          BY <1>2, <4>2
        <5>2. w \in [1 .. 3 -> L]
          BY <2>2, <4>1
        <5> HIDE DEF v, w, L
        <5> QED
          BY <5>1, <5>2, FunctionIsSeq
      <4>4. w[1] = v[1] /\ w[2] = v[2] /\ w[3] = Backslash
        BY <1>2, <2>1, <2>2, <2>4, <3>3
      <4>5. Backslash \in L
        OBVIOUS
      <4> HIDE DEF v, w, L, Backslash
      <4> DEFINE a == Append(v, Backslash)
      <4>6. /\ a \in Seq(L) /\ Len(a) = Len(v) + 1
            /\ \A i \in 1 .. Len(v) : a[i] = v[i]
            /\ a[Len(v) + 1] = Backslash
        <5>1. v \in Seq(L)
          BY <4>3
        <5> QED
          BY <4>5, <5>1, AppendProperties
      <4>7. Len(a) = 3 /\ a[1] = v[1] /\ a[2] = v[2] /\ a[3] = Backslash
        BY <4>3, <4>6
      <4> HIDE DEF a
      <4>8. \A i \in 1 .. 3 : w[i] = a[i]
        BY <4>4, <4>7
      <4>9. w = a
        BY <4>3, <4>6, <4>7, <4>8
      <4> QED
        BY <4>9 DEF v, w, a
    <3> QED
      BY <3>1, <3>2, <3>4
  <2> QED
    BY <2>3, <2>5, <2>6, <2>7, <2>8 DEF Place
<1> QED
  BY <1>1, <1>2

\* isSubpathOrEqual compares characters, and finds containment by components.
THEOREM SubpathLiesIn ==
    ASSUME NEW r, NEW p, IsCanonical(r), IsCanonical(p)
    PROVE  IsSubpathOrEqual(r, p) <=> LiesIn(p, r)
<1> DEFINE rr == Rooted(r)
           pp == Rooted(p)
<1>1. /\ IsRooted(rr) /\ Normal(rr) = Normal(r) /\ Begins(rr) = Begins(r)
      /\ IsRooted(pp) /\ Normal(pp) = Normal(p) /\ Begins(pp) = Begins(p)
  BY RootedIs
<1>2. /\ \A i \in Begins(r) : Place(rr, i) = Place(r, i) /\ Component(rr, i) = Component(r, i)
      /\ \A i \in Begins(p) : Place(pp, i) = Place(p, i) /\ Component(pp, i) = Component(p, i)
  BY RootedIs
<1>3. r # <<>> /\ p # <<>> /\ rr # <<>> /\ pp # <<>>
  BY <1>1 DEF IsRooted, IsCanonical
<1> HIDE DEF rr, pp
<1>4. IsSubpathOrEqual(rr, pp) <=> IsSubpathOrEqual(r, p)
  BY <1>1, <1>3 DEF IsSubpathOrEqual
<1>5. LiesIn(pp, rr) <=> LiesIn(p, r)
  BY <1>1, <1>2 DEF LiesIn
<1> QED
  BY <1>1, <1>4, <1>5, RootedLiesIn

-----------------------------------------------------------------------------
(* The checks of each operation are those that were meant.                 *)

Count(b) == IF b THEN 1 ELSE 0
Asks(b) == IF b THEN <<"ask">> ELSE <<>>

LEMMA AskIs == Ask = "ask"
BY SessionAssumption DEF Ask

LEMMA WithinIs ==
    ASSUME NEW p, IsCanonical(p), NEW paths, paths \subseteq AllowedPaths \cup BlockedPaths
    PROVE  Covers(paths, p) <=> Within(p, paths)
<1>1. ASSUME NEW r \in paths PROVE IsSubpathOrEqual(r, p) <=> r # <<>> /\ LiesIn(p, r)
  <2>1. r = <<>> \/ IsCanonical(r)
    BY PermissionAssumption DEF IsPath
  <2>2. CASE r = <<>>
    BY <2>2 DEF IsSubpathOrEqual
  <2>3. CASE r # <<>>
    BY <2>1, <2>3, SubpathLiesIn
  <2> QED
    BY <2>2, <2>3
<1> QED
  BY <1>1 DEF Covers, Within

MustDeny(p) == p = <<>> \/ Within(p, BlockedPaths)
MustAsk(p) == AllowedPaths # {} /\ ~Within(p, AllowedPaths)

LEMMA CheckPathIs ==
    ASSUME NEW name \in DOMAIN Location, Expansion[name] = name
    PROVE  CheckPath(name) = IF MustDeny(Location[name]) THEN <<"deny">>
                             ELSE Asks(MustAsk(Location[name]))
<1> DEFINE p == Location[name]
<1>1. Judged(name) = p /\ IsPath(p) /\ (name = "" <=> p = <<>>)
  BY PermissionAssumption DEF Judged
<1> HIDE DEF p
<1>2. CASE p = <<>>
  BY <1>1, <1>2 DEF CheckPath, MustDeny, p
<1>3. CASE p # <<>>
  <2>1. IsCanonical(p)
    BY <1>1, <1>3 DEF IsPath
  <2>2. /\ Covers(BlockedPaths, p) <=> Within(p, BlockedPaths)
        /\ Covers(AllowedPaths, p) <=> Within(p, AllowedPaths)
    BY <2>1, WithinIs
  <2> QED
    BY <1>1, <1>3, <2>2, AskIs DEF CheckPath, MustDeny, MustAsk, Asks, p
<1> QED
  BY <1>2, <1>3

LEMMA CheckProcessIs ==
    ASSUME NEW proc, proc.names \subseteq ProcessNames
    PROVE  CheckProcess(proc) =
              IF \/ proc.critical
                 \/ \E n \in proc.names, b \in BlockedProcesses : SameStem(n, b)
              THEN <<"deny">> ELSE Asks(ConfirmKill)
<1>1. ASSUME NEW n \in ProcessNames, NEW b \in ProcessNames
      PROVE  MatchesProcess(n, b) <=> SameStem(n, b)
  <2>1. /\ n = [stem |-> n.stem, exe |-> n.exe] /\ n.exe \in BOOLEAN
        /\ b = [stem |-> b.stem, exe |-> b.exe] /\ b.exe \in BOOLEAN
    BY DEF ProcessNames
  <2>2. ASSUME NEW e PROVE [n EXCEPT !.exe = e] = [stem |-> n.stem, exe |-> e]
    BY <2>1
  <2>3. n = b <=> n.stem = b.stem /\ n.exe = b.exe
    BY <2>1
  <2>4. [stem |-> n.stem, exe |-> TRUE] = b <=> n.stem = b.stem /\ b.exe = TRUE
    BY <2>1
  <2>5. [stem |-> n.stem, exe |-> FALSE] = b <=> n.stem = b.stem /\ b.exe = FALSE
    BY <2>1
  <2> QED
    BY <2>1, <2>2, <2>3, <2>4, <2>5 DEF MatchesProcess, SameStem
<1>2. \A n \in proc.names, b \in BlockedProcesses : MatchesProcess(n, b) <=> SameStem(n, b)
  BY <1>1, PermissionAssumption
<1> QED
  BY <1>2, AskIs DEF CheckProcess, Asks

\* The obstacles of one check, or of two in a row.
LEMMA AsksLength ==
    ASSUME NEW b, NEW c
    PROVE  /\ Len(Asks(b)) = Count(b)
           /\ Len(Asks(b) \o Asks(c)) = Count(b) + Count(c)
<1>1. /\ Len(<<>>) = 0 /\ Len(<<"ask">>) = 1
      /\ Len(<<>> \o <<>>) = 0 /\ Len(<<>> \o <<"ask">>) = 1
      /\ Len(<<"ask">> \o <<>>) = 1 /\ Len(<<"ask">> \o <<"ask">>) = 2
  OBVIOUS
<1>2. 0 + 0 = 0 /\ 0 + 1 = 1 /\ 1 + 0 = 1 /\ 1 + 1 = 2
  OBVIOUS
<1>3. CASE b /\ c
  <2>1. /\ Asks(b) = <<"ask">> /\ Asks(c) = <<"ask">>
        /\ Count(b) = 1 /\ Count(c) = 1
    BY <1>3 DEF Asks, Count
  <2> QED
    BY <1>1, <1>2, <2>1
<1>4. CASE b /\ ~c
  <2>1. /\ Asks(b) = <<"ask">> /\ Asks(c) = <<>>
        /\ Count(b) = 1 /\ Count(c) = 0
    BY <1>4 DEF Asks, Count
  <2> QED
    BY <1>1, <1>2, <2>1
<1>5. CASE ~b /\ c
  <2>1. /\ Asks(b) = <<>> /\ Asks(c) = <<"ask">>
        /\ Count(b) = 0 /\ Count(c) = 1
    BY <1>5 DEF Asks, Count
  <2> QED
    BY <1>1, <1>2, <2>1
<1>6. CASE ~b /\ ~c
  <2>1. /\ Asks(b) = <<>> /\ Asks(c) = <<>>
        /\ Count(b) = 0 /\ Count(c) = 0
    BY <1>6 DEF Asks, Count
  <2> QED
    BY <1>1, <1>2, <2>1
<1> QED
  BY <1>3, <1>4, <1>5, <1>6

Denies(s) == \E i \in 1 .. Len(s) : s[i] = "deny"

LEMMA DeniesIs ==
    ASSUME NEW s, NEW S, s \in Seq(S), "deny" \in S
    PROVE  /\ Denies(<<"deny">>)
           /\ Denies(<<"deny">> \o s)
           /\ Denies(s \o <<"deny">>)
<1>1. <<"deny">> \in Seq(S) /\ Len(<<"deny">>) = 1 /\ <<"deny">>[1] = "deny"
  OBVIOUS
<1>2. ASSUME NEW d \in Seq(S), Len(d) = 1, d[1] = "deny"
      PROVE  Denies(d) /\ Denies(d \o s) /\ Denies(s \o d)
  <2>1. /\ Len(d \o s) = 1 + Len(s) /\ (d \o s)[1] = "deny"
        /\ Len(s \o d) = Len(s) + 1 /\ (s \o d)[Len(s) + 1] = "deny"
        /\ Len(s) \in Nat
    BY <1>2, ConcatProperties
  <2>2. 1 \in 1 .. 1 + Len(s) /\ Len(s) + 1 \in 1 .. Len(s) + 1 /\ 1 \in 1 .. 1
    BY <2>1
  <2> QED
    BY <1>2, <2>1, <2>2 DEF Denies
<1> QED
  BY <1>1, <1>2

\* How many of the first two numbers are in S.
LEMMA CountIs ==
    ASSUME NEW S, NEW b, NEW c, \A i : i \in S <=> (i = 1 /\ b) \/ (i = 2 /\ c)
    PROVE  Cardinality(S) = Count(b) + Count(c)
<1>1. 0 + 0 = 0 /\ 0 + 1 = 1 /\ 1 + 0 = 1 /\ 1 + 1 = 2
  OBVIOUS
<1>2. /\ Cardinality({}) = 0 /\ Cardinality({1}) = 1 /\ Cardinality({2}) = 1
      /\ IsFiniteSet({1})
  BY FS_EmptySet, FS_Singleton
<1>3. Cardinality({1} \cup {2}) = 2
  <2>1. 2 \notin {1}
    OBVIOUS
  <2> QED
    BY <1>1, <1>2, <2>1, FS_AddElement
<1>4. CASE b /\ c
  <2>1. S = {1} \cup {2} /\ Count(b) = 1 /\ Count(c) = 1
    BY <1>4 DEF Count
  <2> QED
    BY <1>1, <1>3, <2>1
<1>5. CASE b /\ ~c
  <2>1. S = {1} /\ Count(b) = 1 /\ Count(c) = 0
    BY <1>5 DEF Count
  <2> QED
    BY <1>1, <1>2, <2>1
<1>6. CASE ~b /\ c
  <2>1. S = {2} /\ Count(b) = 0 /\ Count(c) = 1
    BY <1>6 DEF Count
  <2> QED
    BY <1>1, <1>2, <2>1
<1>7. CASE ~b /\ ~c
  <2>1. S = {} /\ Count(b) = 0 /\ Count(c) = 0
    BY <1>7 DEF Count
  <2> QED
    BY <1>1, <1>2, <2>1
<1> QED
  BY <1>4, <1>5, <1>6, <1>7

LEMMA CountIsNat ==
    ASSUME NEW b
    PROVE  Count(b) \in Nat /\ Count(b) + 0 = Count(b) /\ 0 + Count(b) = Count(b)
BY DEF Count

LEMMA AsksType ==
    ASSUME NEW b
    PROVE  Asks(b) \in Seq({"deny", "ask"})
<1>1. <<>> \in Seq({"deny", "ask"}) /\ <<"ask">> \in Seq({"deny", "ask"})
  OBVIOUS
<1> QED
  BY <1>1 DEF Asks

\* Whatever the configuration and the operation, of a tool, a script or the
\* loader, on names that expandEnv leaves as they are: it meets a check that
\* denies it if it is forbidden, and otherwise one question for each path outside
\* the allowed directories and one more if it must be confirmed.
THEOREM ChecksMeant == ChecksAsMeant
<1> SUFFICES ASSUME NEW x \in Operations, IsPlain(x)
             PROVE  IF IsForbidden(x) THEN Denies(ToolChecks(x))
                    ELSE Len(ToolChecks(x)) = CountQuestions(x)
  BY DEF ChecksAsMeant, Forbidden, Questions, ChecksOf, Denies
<1>1. /\ x.tool \in PathTools => x.path \in DOMAIN Location
      /\ x.tool = "copy_file" => x.src \in DOMAIN Location /\ x.dst \in DOMAIN Location
      /\ x.tool = "kill_process" => x.proc.names \subseteq ProcessNames
  BY SessionAssumption
<1>2. CountQuestions(x) = Cardinality(Outside(x)) + Count(MustConfirm(x))
  BY DEF CountQuestions, Count
<1>3. CASE x.tool \in PathTools
  <2> DEFINE no == MustDeny(Location[x.path])
             ask == MustAsk(Location[x.path])
  <2>1. PathsOf(x) = <<Location[x.path]>> /\ Expansion[x.path] = x.path
    <3>1. NamesOf(x) = <<x.path>>
      BY <1>3 DEF NamesOf
    <3> QED
      BY <3>1 DEF PathsOf, IsPlain
  <2>2. IsForbidden(x) <=> no
    BY <1>3, <2>1 DEF IsForbidden, MustDeny, PathTools, ScriptFiles
  <2>3. \A i : i \in Outside(x) <=> (i = 1 /\ ask) \/ (i = 2 /\ FALSE)
    BY <2>1 DEF Outside, MustAsk
  <2>4. CheckPath(x.path) = IF no THEN <<"deny">> ELSE Asks(ask)
    BY <1>1, <1>3, <2>1, CheckPathIs
  <2> HIDE DEF no, ask
  <2>5. Cardinality(Outside(x)) = Count(ask)
    <3>1. Cardinality(Outside(x)) = Count(ask) + Count(FALSE)
      BY <2>3, CountIs
    <3>2. Count(FALSE) = 0
      BY DEF Count
    <3> QED
      BY <3>1, <3>2, CountIsNat
  <2>6. CASE x.tool = "delete_file"
    <3>1. ToolChecks(x) = CheckPath(x.path) \o Asks(ConfirmDelete)
      BY <2>6, AskIs DEF ToolChecks, CheckFileDelete, Asks
    <3>2. Count(MustConfirm(x)) = Count(ConfirmDelete)
      BY <2>6 DEF MustConfirm, Count
    <3>3. CASE no
      BY <2>2, <2>4, <3>1, <3>3, AsksType, DeniesIs
    <3>4. CASE ~no
      BY <1>2, <2>2, <2>4, <2>5, <3>1, <3>2, <3>4, AsksLength
    <3> QED
      BY <3>3, <3>4
  <2>7. CASE x.tool # "delete_file"
    <3>1. ToolChecks(x) = CheckPath(x.path)
      BY <1>3, <2>7 DEF PathTools, ScriptFiles, ToolChecks
    <3>2. Count(MustConfirm(x)) = 0
      BY <1>3, <2>7 DEF MustConfirm, PathTools, ScriptFiles, Count
    <3>3. CASE no
      BY <2>2, <2>4, <3>1, <3>3, AsksType, DeniesIs
    <3>4. CASE ~no
      BY <1>2, <2>2, <2>4, <2>5, <3>1, <3>2, <3>4, AsksLength, CountIsNat
    <3> QED
      BY <3>3, <3>4
  <2> QED
    BY <2>6, <2>7
<1>4. CASE x.tool = "copy_file"
  <2> DEFINE no1 == MustDeny(Location[x.src])
             no2 == MustDeny(Location[x.dst])
             ask1 == MustAsk(Location[x.src])
             ask2 == MustAsk(Location[x.dst])
  <2>1. /\ PathsOf(x) = <<Location[x.src], Location[x.dst]>>
        /\ Expansion[x.src] = x.src /\ Expansion[x.dst] = x.dst
    <3>1. NamesOf(x) = <<x.src, x.dst>>
      BY <1>4 DEF NamesOf, PathTools, ScriptFiles
    <3> QED
      BY <3>1 DEF PathsOf, IsPlain
  <2>2. IsForbidden(x) <=> no1 \/ no2
    BY <1>4, <2>1 DEF IsForbidden, MustDeny
  <2>3. \A i : i \in Outside(x) <=> (i = 1 /\ ask1) \/ (i = 2 /\ ask2)
    BY <2>1 DEF Outside, MustAsk
  <2>4. /\ CheckPath(x.src) = IF no1 THEN <<"deny">> ELSE Asks(ask1)
        /\ CheckPath(x.dst) = IF no2 THEN <<"deny">> ELSE Asks(ask2)
    BY <1>1, <1>4, <2>1, CheckPathIs
  <2>5. ToolChecks(x) = CheckPath(x.src) \o CheckPath(x.dst)
    BY <1>4 DEF ToolChecks
  <2>6. Count(MustConfirm(x)) = 0
    BY <1>4 DEF MustConfirm, Count
  <2> HIDE DEF no1, no2, ask1, ask2
  <2>7. Cardinality(Outside(x)) = Count(ask1) + Count(ask2)
    BY <2>3, CountIs
  <2>8. /\ CheckPath(x.src) \in Seq({"deny", "ask"})
        /\ CheckPath(x.dst) \in Seq({"deny", "ask"})
    <3>1. <<"deny">> \in Seq({"deny", "ask"})
      OBVIOUS
    <3> QED
      BY <2>4, <3>1, AsksType
  <2>9. CASE no1
    BY <2>2, <2>4, <2>5, <2>8, <2>9, DeniesIs
  <2>10. CASE no2
    BY <2>2, <2>4, <2>5, <2>8, <2>10, DeniesIs
  <2>11. CASE ~no1 /\ ~no2
    <3>1. Len(ToolChecks(x)) = Count(ask1) + Count(ask2)
      BY <2>4, <2>5, <2>11, AsksLength
    <3>2. Count(ask1) + Count(ask2) + 0 = Count(ask1) + Count(ask2)
      BY CountIsNat
    <3> QED
      BY <1>2, <2>2, <2>6, <2>7, <2>11, <3>1, <3>2
  <2> QED
    BY <2>9, <2>10, <2>11
<1>5. CASE x.tool \notin PathTools \cup {"copy_file"}
  <2>1. PathsOf(x) = <<>>
    BY <1>5 DEF PathsOf, NamesOf
  <2>2. Cardinality(Outside(x)) = 0
    <3>1. Outside(x) = {}
      BY <2>1 DEF Outside
    <3> QED
      BY <3>1, FS_EmptySet
  <2>3. CountQuestions(x) = Count(MustConfirm(x))
    BY <1>2, <2>2, CountIsNat
  <2>4. CASE x.tool = "kill_process"
    <3> DEFINE no == \/ x.proc.critical
                     \/ \E n \in x.proc.names, b \in BlockedProcesses : SameStem(n, b)
    <3>1. IsForbidden(x) <=> no
      BY <2>1, <2>4 DEF IsForbidden
    <3>2. CheckProcess(x.proc) = IF no THEN <<"deny">> ELSE Asks(ConfirmKill)
      BY <1>1, <2>4, CheckProcessIs
    <3> HIDE DEF no
    <3>3. ToolChecks(x) = CheckProcess(x.proc)
      BY <2>4 DEF ToolChecks
    <3>4. Count(MustConfirm(x)) = Count(ConfirmKill)
      BY <2>4 DEF MustConfirm, Count
    <3>5. CASE no
      BY <3>1, <3>2, <3>3, <3>5, AsksType, DeniesIs
    <3>6. CASE ~no
      BY <2>3, <3>1, <3>2, <3>3, <3>4, <3>6, AsksLength
    <3> QED
      BY <3>5, <3>6
  <2>5. CASE x.tool # "kill_process"
    <3>1. ~IsForbidden(x)
      BY <2>1, <2>5 DEF IsForbidden
    <3>2. ToolChecks(x) = Asks(MustConfirm(x))
      <4>1. CASE x.tool = "run_command"
        <5>1. ToolChecks(x) = CheckShellCommand(x.cmd)
          BY <4>1 DEF ToolChecks, PathTools, ScriptFiles
        <5>2. CheckShellCommand(x.cmd) =
                 Asks(x.cmd # "" /\ (ConfirmShell \/ x.cmd \in Dangerous))
          BY AskIs DEF CheckShellCommand, Asks
        <5>3. MustConfirm(x) <=> x.cmd # "" /\ (ConfirmShell \/ x.cmd \in Dangerous)
          BY <4>1 DEF MustConfirm
        <5> QED
          BY <5>1, <5>2, <5>3 DEF Asks
      <4>2. CASE x.tool # "run_command"
        <5>1. ~MustConfirm(x)
          BY <1>5, <2>5, <4>2 DEF MustConfirm, PathTools, ScriptFiles
        <5>2. ToolChecks(x) = <<>>
          BY <1>5, <2>5, <4>2 DEF ToolChecks, PathTools, ScriptFiles
        <5> QED
          BY <5>1, <5>2 DEF Asks
      <4> QED
        BY <4>1, <4>2
    <3> QED
      BY <2>3, <3>1, <3>2, AsksLength
  <2> QED
    BY <2>4, <2>5
<1> QED
  BY <1>3, <1>4, <1>5

-----------------------------------------------------------------------------
\* For every configuration, input and script: what is done to a file, a process
\* or through a shell is not forbidden and was confirmed as many times as it must
\* be, whatever lines the client has sent ahead; but for names in which expandEnv
\* replaces a variable.
THEOREM ActsOnlyGranted == Spec => []GrantedOnly
<1>1. CallInv => GrantedOnly
  <2> SUFFICES ASSUME CallInv, Acting
               PROVE  /\ \A i \in 1 .. Len(asked) : says[asked[i]] = "yes"
                      /\ IsPlain(op) => /\ op \notin Forbidden
                                        /\ Len(asked) = Questions[op]
    BY DEF GrantedOnly
  <2>1. Asking /\ Len(todo) = 0 /\ Len(asked) \in Nat
    BY DEF CallInv, CallTypes, Acting
  <2>2. /\ op \in Operations /\ Len(asked) = Len(ChecksOf[op])
        /\ \A i \in 1 .. Len(asked) : ChecksOf[op][i] = "ask"
        /\ SaidYes
    BY <2>1 DEF Asking
  <2>3. ASSUME IsPlain(op)
        PROVE  op \notin Forbidden /\ Len(asked) = Questions[op]
    <3>1. op \notin Forbidden
      BY <2>2, <2>3, ChecksMeant DEF ChecksAsMeant
    <3>2. QED
      BY <2>2, <2>3, <3>1, ChecksMeant DEF ChecksAsMeant
  <2>4. QED
    BY <2>2, <2>3 DEF SaidYes
<1>2. QED
  BY <1>1, InitCall, NextCall, PTL DEF Spec
=============================================================================
