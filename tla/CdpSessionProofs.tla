--------------------------- MODULE CdpSessionProofs ---------------------------
(***************************************************************************)
(* Theorems about CdpSession, for any callers, limits and answers of the    *)
(* page: which answer a command returns, and which commands of a tool the   *)
(* page runs.                                                              *)
(*                                                                         *)
(* What was sent is one sequence: the commands the page has run, followed by *)
(* those on their way.  A send appends to it and the page does not change it *)
(* by running one.  What each caller knows (CallerInv) are facts about this *)
(* sequence that stay true as it grows, so that a step needs to be looked at *)
(* for the caller that takes it alone.                                     *)
(***************************************************************************)
EXTENDS CdpSession, TLAPS

(* The types, wider than TypeOK: what is in every frame, on the log and sent. *)
Values == {"true", "false", "data", "empty", "any"}
Answers == [ok : {TRUE}, value : Values, to : Commands]
Replies == {Failed} \cup Answers
Frames == [id : Nat, reply : Replies]
Places == {"idle", "send", "test", "receive", "answered", "sleep", "done"}

\* The session's own variables.
SessionTypes ==
    /\ boot \in {"connect", "launch", "again", "done"}
    /\ page \in {"absent", "up", "gone"}
    /\ connected \in BOOLEAN /\ msgId \in Nat

\* The two directions of the socket, and the histories.
WireTypes ==
    /\ toPage \in Seq(Commands)
    /\ toClient \in Seq(Frames)
    /\ sent \in [Callers -> Seq(Nat)]
    /\ log \in Seq([command : Commands, ok : BOOLEAN])

\* What belongs to the callers.
CallTypes ==
    /\ pc \in [Callers -> Places]
    /\ tool \in [Callers -> DOMAIN Plans]
    /\ cmd \in [Callers -> Commands \cup {None}]
    /\ age \in [Callers -> 0 .. Limit]
    /\ waited \in [Callers -> 0 .. WaitLimit]
    /\ answer \in [Callers -> Replies]
    /\ result \in [Callers -> {"none", "ok", "err"}]

\* The plan of the call a caller makes.
Plan(c) == Plans[tool[c]]

\* The number of the current step.
At(c) == Len(Plan(c)) - Len(left[c]) + 1

\* What is left is an end of the plan, with the current step.
LeftInv ==
    /\ left \in [Callers -> Seq(Steps)]
    /\ \A c \in Callers :
          /\ Len(left[c]) \in 1 .. Len(Plan(c))
          /\ \A i \in 1 .. Len(left[c]) :
                left[c][i] = Plan(c)[Len(Plan(c)) - Len(left[c]) + i]
          /\ pc[c] = "sleep" => waited[c] < WaitLimit /\ CurrentStep(c) = "probe"

\* The type invariant of the proof.
Types == SessionTypes /\ WireTypes /\ CallTypes /\ LeftInv

\* Everything that was sent.
Issue ==
    [n \in 1 .. Len(log) + Len(toPage) |->
        IF n <= Len(log) THEN log[n].command ELSE toPage[n - Len(log)]]

\* The commands of a caller are its first, second, ... in this order, each with
\* its id and its step; an answer is that of a command the page has run.
WireInv ==
    /\ \A n \in DOMAIN Issue :
          /\ Issue[n].nth \in DOMAIN sent[Issue[n].by]
          /\ sent[Issue[n].by][Issue[n].nth] = Issue[n].id
          /\ tool[Issue[n].by] # "wait" =>
                /\ Issue[n].nth <= Len(Plan(Issue[n].by))
                /\ Issue[n].step = Plan(Issue[n].by)[Issue[n].nth]
    /\ \A m, n \in DOMAIN Issue :
          m < n /\ Issue[m].by = Issue[n].by => Issue[m].nth < Issue[n].nth
    /\ \A c \in Callers : \A k \in DOMAIN sent[c] :
          \E n \in DOMAIN Issue : Issue[n].by = c /\ Issue[n].nth = k
    /\ \A i \in DOMAIN toClient :
          LET r == toClient[i].reply IN
          r.ok => /\ toClient[i].id = r.to.id
                  /\ \E n \in DOMAIN log : log[n].command = r.to /\ log[n].ok

\* Nobody can read an id any more.
Lost == boot = "done" /\ ~connected

\* Command a was sent; it was carried out; step k of caller c was.
Issued(a) == \E n \in DOMAIN Issue : Issue[n] = a
Carried(a) == \E n \in DOMAIN log : log[n].command = a /\ log[n].ok
StepCarried(c, k) ==
    \E n \in DOMAIN log : Ran(c, k, n) /\ log[n].ok

\* The command in hand is the caller's k-th.
Own(c, k) == cmd[c] \in Commands /\ cmd[c].by = c /\ cmd[c].nth = k

\* What holds of the command of a caller.
CommandInv(c) ==
    /\ pc[c] # "idle" => boot = "done"
    /\ pc[c] = "send" => Own(c, Len(sent[c]) + 1)
    /\ pc[c] \in {"test", "receive"} => Own(c, Len(sent[c])) /\ Issued(cmd[c])
    /\ pc[c] = "answered" /\ answer[c].ok /\ ~IdsClash =>
          /\ answer[c].to = cmd[c] /\ Own(c, Len(sent[c])) /\ Carried(cmd[c])

\* How far a caller is with its plan.
PlanInv(c) ==
    tool[c] # "wait" =>
       /\ Len(sent[c]) <= At(c)
       /\ pc[c] = "idle" => Lost \/ Len(sent[c]) = At(c) - 1
       /\ pc[c] = "send" => Len(sent[c]) = At(c) - 1 /\ cmd[c].step = CurrentStep(c)
       /\ pc[c] \in {"test", "receive"} => Len(sent[c]) = At(c)
       /\ pc[c] = "answered" =>
             \/ Len(sent[c]) = At(c)
             \/ ~answer[c].ok /\ (Lost \/ CurrentStep(c) \notin Optional)
       /\ ~IdsClash =>
             /\ \A j \in 1 .. At(c) - 1 :
                   Plan(c)[j] \in Optional \/ StepCarried(c, j)
             /\ result[c] = "ok" => StepCarried(c, Len(Plan(c)))

\* The inductive invariant.
CdpInv ==
    /\ Types /\ WireInv
    /\ \A c \in Callers : CommandInv(c) /\ PlanInv(c)

-----------------------------------------------------------------------------
(* Types.                                                                  *)

\* The plans: commands are not polled but by browserWaitFor, and no plan ends
\* with a step that may fail.
LEMMA PlansFacts ==
    ASSUME NEW t \in DOMAIN Plans
    PROVE  /\ Plans[t] \in Seq(Steps) /\ Len(Plans[t]) \in Nat \ {0}
           /\ \A i \in 1 .. Len(Plans[t]) : Plans[t][i] \in Steps
           /\ t # "wait" => /\ \A i \in 1 .. Len(Plans[t]) : Plans[t][i] # "probe"
                            /\ Plans[t][Len(Plans[t])] \notin Optional
<1>1. t \in {"navigate", "eval", "screenshot", "click", "type", "read", "wait"}
  BY DEF Plans
<1>2. CASE t \in {"navigate", "eval", "screenshot"}
  BY <1>2 DEF Plans, Steps, Optional
<1>3. CASE t = "click"
  BY <1>3 DEF Plans, Steps, Optional
<1>4. CASE t = "type"
  BY <1>4 DEF Plans, Steps, Optional
<1>5. CASE t = "read"
  BY <1>5 DEF Plans, Steps, Optional
<1>6. CASE t = "wait"
  BY <1>6 DEF Plans, Steps, Optional
<1>7. QED
  BY <1>1, <1>2, <1>3, <1>4, <1>5, <1>6

\* The page's values are values.
LEMMA ValuesFacts == \A step : ValuesOf(step) \subseteq Values
<1> SUFFICES ASSUME NEW step PROVE ValuesOf(step) \subseteq Values
  OBVIOUS
<1>1. CASE step = "probe"
  BY <1>1 DEF ValuesOf, Values
<1>2. CASE step = "shot"
  BY <1>2 DEF ValuesOf, Values
<1>3. CASE step # "probe" /\ step # "shot"
  BY <1>3 DEF ValuesOf, Values
<1>4. QED
  BY <1>1, <1>2, <1>3

\* What is known of a caller's plan.
LEMMA CallFacts ==
    ASSUME Types, NEW c \in Callers
    PROVE  /\ tool[c] \in DOMAIN Plans
           /\ Plan(c) \in Seq(Steps) /\ Len(Plan(c)) \in Nat \ {0}
           /\ left[c] \in Seq(Steps) /\ Len(left[c]) \in 1 .. Len(Plan(c))
           /\ left[c] # <<>>
           /\ At(c) \in 1 .. Len(Plan(c))
           /\ CurrentStep(c) = Plan(c)[At(c)] /\ CurrentStep(c) \in Steps
           /\ sent[c] \in Seq(Nat) /\ Len(sent[c]) \in Nat
<1>1. tool[c] \in DOMAIN Plans
  BY DEF Types, CallTypes
<1>2. Plan(c) \in Seq(Steps) /\ Len(Plan(c)) \in Nat \ {0}
  BY <1>1, PlansFacts DEF Plan
<1>3. left[c] \in Seq(Steps) /\ Len(left[c]) \in 1 .. Len(Plan(c))
  BY DEF Types, LeftInv
<1>4. Len(left[c]) \in Nat /\ left[c] # <<>> /\ At(c) \in 1 .. Len(Plan(c))
  BY <1>2, <1>3 DEF At
<1>5. left[c][1] = Plan(c)[At(c)]
  <2>1. 1 \in 1 .. Len(left[c])
    BY <1>2, <1>3
  <2>2. left[c][1] = Plan(c)[Len(Plan(c)) - Len(left[c]) + 1]
    BY <2>1 DEF Types, LeftInv
  <2>3. QED
    BY <2>2 DEF At
<1>6. CurrentStep(c) = Plan(c)[At(c)]
  BY <1>3, <1>4, <1>5 DEF CurrentStep
<1>7. CurrentStep(c) \in Steps
  BY <1>1, <1>4, <1>6, PlansFacts DEF Plan
<1>8. sent[c] \in Seq(Nat) /\ Len(sent[c]) \in Nat
  BY DEF Types, WireTypes
<1>9. QED
  BY <1>1, <1>2, <1>3, <1>4, <1>6, <1>7, <1>8

\* Nothing was sent at first, and every plan is whole.
LEMMA InitTypes == Init => Types
<1> SUFFICES ASSUME Init PROVE Types
  OBVIOUS
<1>1. SessionTypes
  BY DEF Init, SessionTypes
<1>2. WireTypes
  BY DEF Init, WireTypes
<1>3. CallTypes
  BY CdpAssumption DEF Init, CallTypes, Places, Replies
<1>4. LeftInv
  <2>1. \A c \in Callers : tool[c] \in DOMAIN Plans /\ left[c] = Plan(c)
    BY DEF Init, Plan
  <2>2. left \in [Callers -> Seq(Steps)]
    <3>1. \A c \in Callers : left[c] \in Seq(Steps)
      BY <2>1, PlansFacts DEF Plan
    <3>2. left = [c \in Callers |-> left[c]]
      BY DEF Init
    <3>3. QED
      BY <3>1, <3>2
  <2>3. \A c \in Callers : Len(Plan(c)) \in Nat \ {0}
    BY <2>1, PlansFacts DEF Plan
  <2>4. \A c \in Callers : pc[c] = "idle"
    BY DEF Init
  <2>5. QED
    BY <2>1, <2>2, <2>3, <2>4 DEF LeftInv
<1>5. QED
  BY <1>1, <1>2, <1>3, <1>4 DEF Types

\* Steps that leave left alone, and put nobody to sleep.
LEMMA LeftFrame ==
    ASSUME Types, UNCHANGED <<left, tool>>,
           \A c \in Callers : pc'[c] = "sleep" =>
               pc[c] = "sleep" /\ waited'[c] = waited[c]
    PROVE  LeftInv'
<1>1. \A c \in Callers : Plan(c)' = Plan(c) /\ CurrentStep(c)' = CurrentStep(c)
  BY DEF Plan, CurrentStep
<1>2. QED
  BY <1>1 DEF Types, LeftInv

\* A command is sent from pc "send" alone, which has one in hand (CommandInv).
LEMMA NextTypes ==
    ASSUME Types, \A c \in Callers : CommandInv(c), [Next]_vars
    PROVE  Types'
<1> USE DEF sessionVars, callVars, wire
<1>1. CASE UNCHANGED vars
  <2>1. SessionTypes' /\ WireTypes' /\ CallTypes'
    BY <1>1 DEF vars, Types, SessionTypes, WireTypes, CallTypes
  <2>2. QED
    BY <1>1, <2>1, LeftFrame DEF vars, Types
<1>2. CASE Connect \/ Launch \/ PageGoes
  <2>1. UNCHANGED <<wire, pc, callVars>>
    BY <1>2 DEF Connect, Launch, PageGoes
  <2>2. SessionTypes'
    BY <1>2 DEF Connect, Connects, Launch, PageGoes, Types, SessionTypes
  <2>3. WireTypes' /\ CallTypes'
    BY <2>1 DEF Types, WireTypes, CallTypes
  <2>4. QED
    BY <2>1, <2>2, <2>3, LeftFrame DEF Types
<1>3. ASSUME NEW c \in Callers, NotConnected(c) \/ GiveUp(c) \/ AwaitFrame(c)
      PROVE  Types'
  <2>1. UNCHANGED <<sessionVars, wire, tool, left, cmd, waited, result>>
    BY <1>3 DEF NotConnected, GiveUp, AwaitFrame
  <2>2. SessionTypes' /\ WireTypes'
    BY <2>1 DEF Types, SessionTypes, WireTypes
  <2>3. \E to \in Places \ {"sleep"} : pc' = [pc EXCEPT ![c] = to]
    BY <1>3 DEF NotConnected, GiveUp, AwaitFrame, Go, Returns, Places
  <2>4. CallTypes'
    BY <1>3, <2>1, <2>3, CdpAssumption DEF NotConnected, GiveUp, AwaitFrame,
       Returns, Types, CallTypes, Replies
  <2>5. QED
    BY <2>1, <2>2, <2>3, <2>4, LeftFrame DEF Types, CallTypes
<1>4. ASSUME NEW c \in Callers, ReadId(c) PROVE Types'
  <2>1. UNCHANGED <<sessionVars, wire, tool, left, age, waited, answer, result>>
    BY <1>4 DEF ReadId
  <2>2. SessionTypes' /\ WireTypes'
    BY <2>1 DEF Types, SessionTypes, WireTypes
  <2>3. pc' = [pc EXCEPT ![c] = "send"]
    BY <1>4 DEF ReadId, Go
  <2>4. [id |-> msgId, by |-> c, step |-> CurrentStep(c), nth |-> Len(sent[c]) + 1]
           \in Commands
    BY CallFacts DEF Types, SessionTypes, Commands
  <2>5. CallTypes'
    BY <1>4, <2>1, <2>3, <2>4 DEF ReadId, Types, CallTypes, Places
  <2>6. QED
    BY <2>1, <2>2, <2>3, <2>5, LeftFrame DEF Types, CallTypes
<1>5. ASSUME NEW c \in Callers, Send(c) \/ SendFails(c) PROVE Types'
  <2>1. /\ UNCHANGED <<boot, page, toClient, log, tool, left, cmd, waited, result>>
        /\ pc[c] = "send" /\ msgId' = cmd[c].id + 1
        /\ connected' = connected \/ connected' = FALSE
    BY <1>5 DEF Send, SendFails, Go
  <2>2. cmd[c] \in Commands /\ cmd[c].id \in Nat
    BY <2>1 DEF CommandInv, Own, Commands
  <2>3. SessionTypes'
    <3>1. msgId' \in Nat
      BY <2>1, <2>2
    <3>2. connected' \in BOOLEAN
      BY <2>1 DEF Types, SessionTypes
    <3>3. QED
      BY <2>1, <3>1, <3>2 DEF Types, SessionTypes
  <2>4. WireTypes'
    <3>1. CASE Send(c)
      BY <2>1, <2>2, <3>1 DEF Send, Types, WireTypes
    <3>2. CASE SendFails(c)
      BY <2>1, <3>2 DEF SendFails, Types, WireTypes
    <3>3. QED
      BY <1>5, <3>1, <3>2
  <2>5. \E to \in {"test", "answered"} : pc' = [pc EXCEPT ![c] = to]
    BY <1>5 DEF Send, SendFails, Go, Returns
  <2>6. age' = [age EXCEPT ![c] = 0]
        /\ \/ answer' = answer
           \/ answer' = [answer EXCEPT ![c] = Failed]
    BY <1>5 DEF Send, SendFails, Returns
  <2>7. CallTypes'
    BY <2>1, <2>5, <2>6, CdpAssumption DEF Types, CallTypes, Places, Replies
  <2>8. QED
    BY <2>1, <2>3, <2>4, <2>5, <2>7, LeftFrame DEF Types, CallTypes
<1>6. ASSUME NEW c \in Callers, Receive(c) \/ ReceiveFails(c) PROVE Types'
  <2>1. /\ UNCHANGED <<boot, page, msgId, toPage, sent, log, tool, left, cmd,
                       waited, result>>
        /\ connected' = connected \/ connected' = FALSE
        /\ toClient' = toClient \/ (toClient # <<>> /\ toClient' = Tail(toClient))
    BY <1>6 DEF Receive, ReceiveFails
  <2>2. SessionTypes' /\ WireTypes'
    <3>1. connected' \in BOOLEAN
      BY <2>1 DEF Types, SessionTypes
    <3>2. SessionTypes'
      BY <2>1, <3>1 DEF Types, SessionTypes
    <3>3. toClient' \in Seq(Frames)
      <4>1. toClient \in Seq(Frames)
        BY DEF Types, WireTypes
      <4>2. toClient # <<>> => Tail(toClient) \in Seq(Frames)
        BY <4>1
      <4>3. QED
        BY <2>1, <4>1, <4>2, Zenon
    <3>4. QED
      BY <2>1, <3>2, <3>3 DEF Types, WireTypes
  <2>3. \E to \in {"test", "answered"} : pc' = [pc EXCEPT ![c] = to]
    BY <1>6 DEF Receive, ReceiveFails, Returns
  <2>4. \/ answer' = answer /\ age' = age
        \/ \E r \in Replies : answer' = [answer EXCEPT ![c] = r]
                             /\ age' = [age EXCEPT ![c] = 0]
    <3>1. CASE Receive(c)
      <4>1. Head(toClient) \in Frames
        BY <3>1 DEF Receive, Types, WireTypes
      <4>2. Head(toClient).reply \in Replies
        BY <4>1 DEF Frames
      <4>3. QED
        BY <3>1, <4>2 DEF Receive, Returns
    <3>2. CASE ReceiveFails(c)
      BY <3>2 DEF ReceiveFails, Returns, Replies
    <3>3. QED
      BY <1>6, <3>1, <3>2
  <2>5. CallTypes'
    <3>1. answer' \in [Callers -> Replies]
      BY <2>4 DEF Types, CallTypes
    <3>2. age' \in [Callers -> 0 .. Limit]
      BY <2>4, CdpAssumption DEF Types, CallTypes
    <3>3. pc' \in [Callers -> Places]
      BY <2>3 DEF Types, CallTypes, Places
    <3>4. QED
      BY <2>1, <3>1, <3>2, <3>3 DEF Types, CallTypes
  <2>6. QED
    BY <2>1, <2>2, <2>3, <2>5, LeftFrame DEF Types, CallTypes
<1>7. ASSUME NEW c \in Callers, Poll(c) \/ Wake(c) PROVE Types'
  <2>1. /\ UNCHANGED <<sessionVars, wire, tool, left, cmd, age, answer, result>>
        /\ \E to \in {"sleep", "idle"} : pc' = [pc EXCEPT ![c] = to]
    BY <1>7 DEF Poll, Wake, Go
  <2>2. SessionTypes' /\ WireTypes'
    BY <2>1 DEF Types, SessionTypes, WireTypes
  <2>3. \/ waited' = waited /\ PollsAgain(c)
        \/ pc[c] = "sleep" /\ waited' = [waited EXCEPT ![c] = @ + 1]
              /\ pc' = [pc EXCEPT ![c] = "idle"]
    BY <1>7 DEF Poll, Wake, Go
  <2>4. waited' \in [Callers -> 0 .. WaitLimit]
    <3>1. waited \in [Callers -> 0 .. WaitLimit] /\ WaitLimit \in Nat
      BY CdpAssumption DEF Types, CallTypes
    <3>2. pc[c] = "sleep" => waited[c] + 1 \in 0 .. WaitLimit
      BY <3>1 DEF Types, LeftInv
    <3>3. QED
      BY <2>3, <3>1, <3>2
  <2>5. CallTypes'
    BY <2>1, <2>4 DEF Types, CallTypes, Places
  <2>6. \A d \in Callers : Plan(d)' = Plan(d) /\ CurrentStep(d)' = CurrentStep(d)
    BY <2>1 DEF Plan, CurrentStep
  <2>7. \A d \in Callers : pc'[d] = "sleep" =>
           waited'[d] < WaitLimit /\ CurrentStep(d) = "probe"
    <3>1. \A d \in Callers \ {c} : pc'[d] = pc[d] /\ waited'[d] = waited[d]
      BY <2>1, <2>3 DEF Types, CallTypes
    <3>2. pc'[c] = "sleep" => PollsAgain(c) /\ waited'[c] = waited[c]
      BY <2>1, <2>3 DEF Types, CallTypes
    <3>3. QED
      BY <3>1, <3>2 DEF PollsAgain, Types, LeftInv
  <2>8. LeftInv'
    BY <2>1, <2>6, <2>7 DEF Types, LeftInv
  <2>9. QED
    BY <2>2, <2>5, <2>8 DEF Types
<1>8. ASSUME NEW c \in Callers, Proceed(c) PROVE Types'
  <2>1. UNCHANGED <<sessionVars, wire, tool, age, waited>>
    BY <1>8 DEF Proceed
  <2>2. SessionTypes' /\ WireTypes'
    BY <2>1 DEF Types, SessionTypes, WireTypes
  <2>3. /\ cmd' = [cmd EXCEPT ![c] = None]
        /\ answer' = [answer EXCEPT ![c] = Failed]
        /\ \/ /\ pc' = [pc EXCEPT ![c] = "done"] /\ left' = left
              /\ \E r \in {"ok", "err"} : result' = [result EXCEPT ![c] = r]
           \/ /\ pc' = [pc EXCEPT ![c] = "idle"] /\ result' = result
              /\ Len(left[c]) # 1 /\ left' = [left EXCEPT ![c] = Tail(@)]
    BY <1>8 DEF Proceed
  <2>4. CallTypes'
    BY <2>1, <2>3 DEF Types, CallTypes, Places, Replies
  <2>5. CASE left' = left
    BY <2>1, <2>2, <2>3, <2>4, <2>5, LeftFrame DEF Types, CallTypes
  <2>6. CASE Len(left[c]) # 1 /\ left' = [left EXCEPT ![c] = Tail(@)]
             /\ pc' = [pc EXCEPT ![c] = "idle"]
    <3>1. /\ left'[c] \in Seq(Steps) /\ Len(left'[c]) = Len(left[c]) - 1
          /\ \A i \in 1 .. Len(left'[c]) : left'[c][i] = left[c][i + 1]
          /\ left' \in [Callers -> Seq(Steps)]
          /\ \A d \in Callers \ {c} : left'[d] = left[d] /\ pc'[d] = pc[d]
          /\ pc'[c] = "idle"
      BY <2>6, CallFacts DEF Types, LeftInv, CallTypes
    <3>2. Len(left'[c]) \in 1 .. Len(Plan(c))
      BY <2>6, <3>1, CallFacts
    <3>3. ASSUME NEW i \in 1 .. Len(left'[c])
          PROVE  left'[c][i] = Plan(c)[Len(Plan(c)) - Len(left'[c]) + i]
      <4>1. i + 1 \in 1 .. Len(left[c])
        BY <3>1, CallFacts
      <4>2. left[c][i + 1] = Plan(c)[Len(Plan(c)) - Len(left[c]) + (i + 1)]
        BY <4>1 DEF Types, LeftInv
      <4>3. Len(Plan(c)) - Len(left[c]) + (i + 1) = Len(Plan(c)) - Len(left'[c]) + i
        BY <3>1, CallFacts
      <4>4. QED
        BY <3>1, <4>2, <4>3
    <3>4. \A d \in Callers : Plan(d)' = Plan(d)
      BY <2>1 DEF Plan
    <3>5. \A d \in Callers \ {c} : CurrentStep(d)' = CurrentStep(d)
      BY <3>1 DEF CurrentStep
    <3>6. LeftInv'
      <4>1. ASSUME NEW d \in Callers
            PROVE  /\ Len(left'[d]) \in 1 .. Len(Plan(d)')
                   /\ \A i \in 1 .. Len(left'[d]) :
                         left'[d][i] = Plan(d)'[Len(Plan(d)') - Len(left'[d]) + i]
        <5>1. Plan(d)' = Plan(d)
          BY <3>4
        <5>2. CASE d = c
          BY <3>2, <3>3, <5>1, <5>2
        <5>3. CASE d # c
          <6>1. left'[d] = left[d]
            BY <3>1, <5>3
          <6>2. QED
            BY <5>1, <6>1 DEF Types, LeftInv
        <5>4. QED
          BY <5>2, <5>3
      <4>2. ASSUME NEW d \in Callers, pc'[d] = "sleep"
            PROVE  waited'[d] < WaitLimit /\ CurrentStep(d)' = "probe"
        BY <2>1, <3>1, <3>5, <4>2 DEF Types, LeftInv
      <4>3. QED
        BY <3>1, <4>1, <4>2 DEF LeftInv
    <3>7. QED
      BY <2>2, <2>4, <3>6 DEF Types
  <2>7. QED
    BY <2>3, <2>5, <2>6
<1>9. CASE PageRuns \/ PageEvent
  <2>1. UNCHANGED <<sessionVars, sent, pc, callVars>>
    BY <1>9 DEF PageRuns, PageEvent
  <2>2. SessionTypes' /\ CallTypes'
    BY <2>1 DEF Types, SessionTypes, CallTypes
  <2>3. WireTypes'
    <3>1. CASE PageEvent
      <4>1. [id |-> 0, reply |-> Failed] \in Frames
        BY DEF Frames, Replies
      <4>2. QED
        BY <3>1, <4>1 DEF PageEvent, Deliver, Types, WireTypes
    <3>2. CASE PageRuns
      <4>1. Head(toPage) \in Commands /\ Tail(toPage) \in Seq(Commands)
        BY <3>2 DEF PageRuns, Types, WireTypes
      <4>2. PICK reply \in {Failed} \cup
                    {Answered(v, Head(toPage)) : v \in ValuesOf(Head(toPage).step)} :
              /\ Deliver([id |-> Head(toPage).id, reply |-> reply])
              /\ log' = Append(log, [command |-> Head(toPage), ok |-> reply.ok])
        BY <3>2 DEF PageRuns
      <4>3. reply \in Replies /\ reply.ok \in BOOLEAN
        <5>1. CASE reply = Failed
          BY <5>1 DEF Replies, Failed
        <5>2. CASE \E v \in ValuesOf(Head(toPage).step) :
                   reply = Answered(v, Head(toPage))
          <6>1. PICK v \in Values : reply = Answered(v, Head(toPage))
            BY <5>2, ValuesFacts
          <6>2. QED
            BY <4>1, <6>1 DEF Replies, Answers, Answered
        <5>3. QED
          BY <4>2, <5>1, <5>2
      <4>4. [id |-> Head(toPage).id, reply |-> reply] \in Frames
        BY <4>1, <4>3 DEF Frames, Commands
      <4>5. toClient' \in Seq(Frames)
        BY <4>2, <4>4 DEF Deliver, Types, WireTypes
      <4>6. log' \in Seq([command : Commands, ok : BOOLEAN])
        BY <4>1, <4>2, <4>3 DEF Types, WireTypes
      <4>7. QED
        BY <2>1, <3>2, <4>1, <4>5, <4>6 DEF PageRuns, Types, WireTypes
    <3>3. QED
      BY <1>9, <3>1, <3>2
  <2>4. QED
    BY <2>1, <2>2, <2>3, LeftFrame DEF Types
<1>10. CASE Tick
  <2>1. UNCHANGED <<sessionVars, wire, pc, tool, left, cmd, answer, result>>
    BY <1>10 DEF Tick
  <2>2. SessionTypes' /\ WireTypes'
    BY <2>1 DEF Types, SessionTypes, WireTypes
  <2>3. age' \in [Callers -> 0 .. Limit]
    <3>1. age \in [Callers -> 0 .. Limit] /\ Limit \in Nat
      BY CdpAssumption DEF Types, CallTypes
    <3>2. QED
      BY <1>10, <3>1 DEF Tick
  <2>4. waited' \in [Callers -> 0 .. WaitLimit]
    <3>1. waited \in [Callers -> 0 .. WaitLimit] /\ WaitLimit \in Nat
      BY CdpAssumption DEF Types, CallTypes
    <3>2. QED
      BY <1>10, <3>1 DEF Tick
  <2>5. CallTypes'
    BY <2>1, <2>3, <2>4 DEF Types, CallTypes
  <2>6. \A c \in Callers : pc'[c] = "sleep" =>
           pc[c] = "sleep" /\ waited'[c] = waited[c]
    <3>1. waited \in [Callers -> 0 .. WaitLimit] /\ WaitLimit \in Nat
      BY CdpAssumption DEF Types, CallTypes
    <3>2. QED
      BY <1>10, <2>1, <3>1 DEF Tick, InCommand, Receiving
  <2>7. QED
    BY <2>1, <2>2, <2>5, <2>6, LeftFrame DEF Types
<1>11. ASSUME NEW c \in Callers, ReceivePiece(c) PROVE Types'
  <2>1. UNCHANGED <<sessionVars, wire, pc, callVars>>
    BY <1>11 DEF ReceivePiece
  <2>2. SessionTypes' /\ WireTypes' /\ CallTypes'
    BY <2>1 DEF Types, SessionTypes, WireTypes, CallTypes
  <2>3. QED
    BY <2>1, <2>2, LeftFrame DEF Types
<1>12. QED
  BY <1>1, <1>2, <1>3, <1>4, <1>5, <1>6, <1>7, <1>8, <1>9, <1>10, <1>11
     DEF Next, CallerStep, PageStep

-----------------------------------------------------------------------------
(* What was sent only grows.                                               *)

\* Issue as the log followed by what is under way.
LEMMA IssueFacts ==
    ASSUME Types
    PROVE  /\ Len(log) \in Nat /\ Len(toPage) \in Nat
           /\ DOMAIN log = 1 .. Len(log)
           /\ DOMAIN Issue = 1 .. Len(log) + Len(toPage)
           /\ \A n \in 1 .. Len(log) :
                 n \in DOMAIN Issue /\ Issue[n] = log[n].command
           /\ \A n \in DOMAIN Issue : Issue[n] \in Commands
           /\ \A c \in Callers : DOMAIN sent[c] = 1 .. Len(sent[c])
<1>1. /\ log \in Seq([command : Commands, ok : BOOLEAN])
      /\ toPage \in Seq(Commands) /\ sent \in [Callers -> Seq(Nat)]
  BY DEF Types, WireTypes
<1>2. /\ Len(log) \in Nat /\ Len(toPage) \in Nat /\ DOMAIN log = 1 .. Len(log)
      /\ \A c \in Callers : DOMAIN sent[c] = 1 .. Len(sent[c])
  BY <1>1
<1>3. /\ DOMAIN Issue = 1 .. Len(log) + Len(toPage)
      /\ \A n \in 1 .. Len(log) : n \in DOMAIN Issue /\ Issue[n] = log[n].command
  BY <1>2 DEF Issue
<1>4. ASSUME NEW n \in DOMAIN Issue PROVE Issue[n] \in Commands
  <2>1. CASE n <= Len(log)
    <3>1. log[n] \in [command : Commands, ok : BOOLEAN]
      <4>1. n \in 1 .. Len(log)
        BY <1>2, <1>3, <2>1
      <4> DEFINE Entries == [command : Commands, ok : BOOLEAN]
      <4>2. log \in Seq(Entries)
        BY <1>1
      <4> HIDE DEF Entries
      <4>3. log[n] \in Entries
        BY <4>1, <4>2
      <4>4. QED
        BY <4>3 DEF Entries
    <3>2. QED
      BY <1>3, <2>1, <3>1 DEF Issue
  <2>2. CASE n > Len(log)
    <3>1. n - Len(log) \in 1 .. Len(toPage)
      BY <1>2, <1>3, <2>2
    <3>2. toPage[n - Len(log)] \in Commands
      BY <1>1, <3>1
    <3>3. QED
      BY <1>2, <1>3, <2>2, <3>2 DEF Issue
  <2>3. QED
    BY <1>2, <1>3, <2>1, <2>2
<1>5. QED
  BY <1>2, <1>3, <1>4

\* A send appends its command.
LEMMA SendAppends ==
    ASSUME Types, NEW c \in Callers, Send(c), cmd[c] \in Commands
    PROVE  /\ DOMAIN Issue' = 1 .. Len(log) + Len(toPage) + 1
           /\ \A n \in DOMAIN Issue : n \in DOMAIN Issue' /\ Issue'[n] = Issue[n]
           /\ Issue'[Len(log) + Len(toPage) + 1] = cmd[c]
           /\ sent'[c] = Append(sent[c], cmd[c].id)
           /\ \A d \in Callers \ {c} : sent'[d] = sent[d]
<1>1. /\ toPage' = Append(toPage, cmd[c]) /\ log' = log
      /\ sent' = [sent EXCEPT ![c] = Append(@, cmd[c].id)]
  BY DEF Send
<1>2. /\ Len(log) \in Nat /\ Len(toPage) \in Nat /\ toPage \in Seq(Commands)
      /\ sent \in [Callers -> Seq(Nat)]
      /\ DOMAIN Issue = 1 .. Len(log) + Len(toPage)
  BY IssueFacts DEF Types, WireTypes
<1>3. /\ Len(toPage') = Len(toPage) + 1 /\ toPage'[Len(toPage) + 1] = cmd[c]
      /\ \A i \in 1 .. Len(toPage) : toPage'[i] = toPage[i]
  BY <1>1, <1>2
<1>4. DOMAIN Issue' = 1 .. Len(log) + Len(toPage) + 1
  <2>1. DOMAIN Issue' = 1 .. Len(log) + Len(toPage')
    BY <1>1 DEF Issue
  <2>2. Len(log) + Len(toPage') = Len(log) + Len(toPage) + 1
    BY <1>2, <1>3
  <2>3. QED
    BY <2>1, <2>2
<1>5. ASSUME NEW n \in DOMAIN Issue
      PROVE  n \in DOMAIN Issue' /\ Issue'[n] = Issue[n]
  <2>1. n \in DOMAIN Issue' /\ n \in Nat
    BY <1>2, <1>4
  <2>2. CASE n <= Len(log)
    BY <1>1, <2>1, <2>2 DEF Issue
  <2>3. CASE ~(n <= Len(log))
    <3>1. n - Len(log) \in 1 .. Len(toPage)
      BY <1>2, <2>3
    <3>2. QED
      BY <1>1, <1>3, <2>1, <2>3, <3>1 DEF Issue
  <2>4. QED
    BY <2>1, <2>2, <2>3
<1>6. Issue'[Len(log) + Len(toPage) + 1] = cmd[c]
  <2> DEFINE n == Len(log) + Len(toPage) + 1
  <2>1. n \in DOMAIN Issue' /\ ~(n <= Len(log)) /\ n - Len(log) = Len(toPage) + 1
    BY <1>2, <1>4
  <2> HIDE DEF n
  <2>2. Issue'[n] = toPage'[n - Len(log)]
    BY <1>1, <2>1 DEF Issue
  <2>3. QED
    BY <1>3, <2>1, <2>2 DEF n
<1>7. QED
  BY <1>1, <1>2, <1>4, <1>5, <1>6

\* The page that runs a command does not change what was sent, and only adds
\* to what it has run.
LEMMA RunKeepsIssue ==
    ASSUME Types, PageRuns
    PROVE  /\ Issue' = Issue
           /\ Len(log') = Len(log) + 1
           /\ \A n \in DOMAIN log : n \in DOMAIN log' /\ log'[n] = log[n]
           /\ log'[Len(log) + 1].command = Head(toPage)
<1>1. PICK b : log' = Append(log, [command |-> Head(toPage), ok |-> b])
  BY DEF PageRuns
<1>2. toPage' = Tail(toPage) /\ toPage # <<>>
  BY DEF PageRuns
<1>3. /\ log \in Seq([command : Commands, ok : BOOLEAN]) /\ toPage \in Seq(Commands)
      /\ Len(log) \in Nat /\ Len(toPage) \in Nat
  BY IssueFacts DEF Types, WireTypes
<1>4. /\ Len(log') = Len(log) + 1 /\ DOMAIN log' = 1 .. Len(log) + 1
      /\ \A n \in 1 .. Len(log) : log'[n] = log[n]
      /\ log'[Len(log) + 1].command = toPage[1]
  BY <1>1, <1>2, <1>3
<1>5. /\ Len(toPage') = Len(toPage) - 1 /\ Len(toPage) \in Nat \ {0}
      /\ \A i \in 1 .. Len(toPage) - 1 : toPage'[i] = toPage[i + 1]
  BY <1>2, <1>3
<1>6. Len(log') + Len(toPage') = Len(log) + Len(toPage)
  BY <1>3, <1>4, <1>5
<1>7. ASSUME NEW n \in 1 .. Len(log) + Len(toPage)
      PROVE  (IF n <= Len(log') THEN log'[n].command ELSE toPage'[n - Len(log')])
             = (IF n <= Len(log) THEN log[n].command ELSE toPage[n - Len(log)])
  <2>1. CASE n <= Len(log)
    BY <1>3, <1>4, <2>1
  <2>2. CASE n = Len(log) + 1
    BY <1>3, <1>4, <2>2
  <2>3. CASE n > Len(log) + 1
    <3>1. /\ n - Len(log') \in 1 .. Len(toPage) - 1
          /\ n - Len(log') + 1 = n - Len(log)
      BY <1>3, <1>4, <1>5, <2>3
    <3>2. QED
      BY <1>3, <1>4, <1>5, <2>3, <3>1
  <2>4. QED
    BY <1>3, <2>1, <2>2, <2>3
<1>8. Issue' = Issue
  BY <1>6, <1>7 DEF Issue
<1>9. QED
  BY <1>2, <1>3, <1>4, <1>8

\* Facts about what was sent stay true.
Grows ==
    /\ \A a : Issued(a) => Issued(a)'
    /\ \A a : Carried(a) => Carried(a)'
    /\ \A d, k : StepCarried(d, k) => StepCarried(d, k)'
    /\ IdsClash => IdsClash'
    /\ Lost => Lost'
    /\ boot = "done" => boot' = "done"

\* Only Send and PageRuns change what was sent and run.
Quiet == UNCHANGED <<log, toPage, sent, tool>>

\* Only a send and the page change what was sent or run.
LEMMA QuietSteps ==
    ASSUME [Next]_vars, ~PageRuns, ~(\E c \in Callers : Send(c))
    PROVE  Quiet
<1>1. CASE Connect \/ Launch \/ PageEvent \/ PageGoes \/ Tick \/ UNCHANGED vars
  BY <1>1 DEF Connect, Launch, PageEvent, PageGoes, Deliver, Tick, vars, Quiet,
     wire, callVars
<1>2. ASSUME NEW c \in Callers, CallerStep(c), ~Send(c) PROVE Quiet
  BY <1>2 DEF CallerStep, NotConnected, ReadId, SendFails, GiveUp, AwaitFrame,
     ReceivePiece, Receive, ReceiveFails, Poll, Wake, Proceed, Quiet, wire, callVars
<1>3. QED
  BY <1>1, <1>2 DEF Next, PageStep

\* No step takes anything back.
LEMMA NextGrows ==
    ASSUME Types, \A c \in Callers : CommandInv(c), [Next]_vars
    PROVE  Grows
<1>1. (Lost => Lost') /\ (boot = "done" => boot' = "done")
  <2>1. CASE Connect \/ Launch
    BY <2>1 DEF Connect, Launch, Lost
  <2>2. CASE PageStep \/ Tick \/ UNCHANGED vars
    BY <2>2 DEF PageStep, PageRuns, PageEvent, PageGoes, Tick, vars, sessionVars,
       Lost
  <2>3. ASSUME NEW c \in Callers, CallerStep(c)
        PROVE  (Lost => Lost') /\ (boot = "done" => boot' = "done")
    BY <2>3 DEF CallerStep, NotConnected, ReadId, Send, SendFails, GiveUp,
       AwaitFrame, ReceivePiece, Receive, ReceiveFails, Poll, Wake, Proceed, sessionVars, Lost
  <2>4. QED
    BY <2>1, <2>2, <2>3 DEF Next
<1>2. CASE Quiet
  BY <1>1, <1>2 DEF Quiet, Grows, Issued, Carried, StepCarried, IdsClash, Ran, Issue
<1>3. CASE PageRuns
  <2>1. UNCHANGED sent
    BY <1>3 DEF PageRuns
  <2>2. QED
    BY <1>1, <1>3, <2>1, RunKeepsIssue DEF Grows, Issued, Carried, StepCarried,
       IdsClash, Ran
<1>4. ASSUME NEW c \in Callers, Send(c) PROVE Grows
  <2>1. cmd[c] \in Commands
    BY <1>4 DEF Send, Go, CommandInv, Own
  <2>2. log' = log
    BY <1>4 DEF Send
  <2>3. \A d \in Callers : \A n \in DOMAIN sent[d] :
           n \in DOMAIN sent'[d] /\ sent'[d][n] = sent[d][n]
    <3>1. sent[c] \in Seq(Nat)
      BY DEF Types, WireTypes
    <3>2. \A n \in DOMAIN sent[c] :
             n \in DOMAIN sent'[c] /\ sent'[c][n] = sent[c][n]
      <4>1. sent'[c] = Append(sent[c], cmd[c].id) /\ cmd[c].id \in Nat
        BY <1>4, <2>1, SendAppends DEF Commands
      <4>2. QED
        BY <3>1, <4>1
    <3>3. QED
      BY <1>4, <2>1, <3>2, SendAppends
  <2>4. IdsClash => IdsClash'
    BY <2>3 DEF IdsClash
  <2>5. \A a : Issued(a) => Issued(a)'
    BY <1>4, <2>1, SendAppends DEF Issued
  <2>6. QED
    BY <1>1, <2>2, <2>4, <2>5 DEF Grows, Carried, StepCarried, Ran
<1>5. QED
  BY <1>2, <1>3, <1>4, QuietSteps

-----------------------------------------------------------------------------
(* The sequence of what was sent.                                          *)

\* Nothing was sent.
LEMMA InitWire == Init => WireInv
<1> SUFFICES ASSUME Init PROVE WireInv
  OBVIOUS
<1>1. /\ Len(log) = 0 /\ Len(toPage) = 0 /\ DOMAIN toClient = {}
      /\ \A c \in Callers : DOMAIN sent[c] = {}
  BY DEF Init
<1>2. DOMAIN Issue = {}
  BY <1>1 DEF Issue
<1>3. QED
  BY <1>1, <1>2 DEF WireInv

\* The frames that are there or come keep to WireInv.
LEMMA QuietKeepsWire ==
    ASSUME Types, WireInv, Quiet,
           \A i \in DOMAIN toClient' : ~toClient'[i].reply.ok
              \/ \E j \in DOMAIN toClient : toClient'[i] = toClient[j]
    PROVE  WireInv'
<1>1. Issue' = Issue /\ UNCHANGED <<log, sent, tool>>
  BY DEF Quiet, Issue
<1>2. \A c : Plan(c)' = Plan(c)
  BY <1>1 DEF Plan
<1>3. QED
  BY <1>1, <1>2 DEF WireInv

\* Only the page running a command sends a frame that answers one.
LEMMA QuietFrames ==
    ASSUME Types, [Next]_vars, ~PageRuns,
           NEW i \in DOMAIN toClient'
    PROVE  \/ ~toClient'[i].reply.ok
           \/ \E j \in DOMAIN toClient : toClient'[i] = toClient[j]
<1>0. toClient \in Seq(Frames)
  BY DEF Types, WireTypes
<1>1. CASE toClient' = toClient
  BY <1>1
<1>2. CASE toClient # <<>> /\ toClient' = Tail(toClient)
  BY <1>0, <1>2
<1>3. CASE PageEvent
  <2>1. toClient' = Append(toClient, [id |-> 0, reply |-> Failed])
    BY <1>3 DEF PageEvent, Deliver
  <2>2. \/ i \in DOMAIN toClient /\ toClient'[i] = toClient[i]
        \/ toClient'[i] = [id |-> 0, reply |-> Failed]
    BY <1>0, <2>1
  <2>3. QED
    BY <2>2 DEF Failed
<1>4. \/ toClient' = toClient \/ PageEvent
      \/ toClient # <<>> /\ toClient' = Tail(toClient)
  <2>1. CASE Connect \/ Launch \/ PageGoes \/ Tick \/ UNCHANGED vars
    BY <2>1 DEF Connect, Launch, PageGoes, Tick, vars, wire
  <2>2. ASSUME NEW c \in Callers, CallerStep(c)
        PROVE  \/ toClient' = toClient
               \/ (toClient # <<>> /\ toClient' = Tail(toClient))
    BY <2>2 DEF CallerStep, NotConnected, ReadId, Send, SendFails, GiveUp,
       AwaitFrame, ReceivePiece, Receive, ReceiveFails, Poll, Wake, Proceed, wire
  <2>3. QED
    BY <2>1, <2>2 DEF Next, PageStep
<1>5. QED
  BY <1>1, <1>2, <1>3, <1>4

\* An answer is that of the command that was run.
LEMMA RunKeepsWire ==
    ASSUME Types, WireInv, PageRuns
    PROVE  WireInv'
<1>1. UNCHANGED <<sent, tool>>
  BY DEF PageRuns, callVars
<1>2. Issue' = Issue /\ \A c : Plan(c)' = Plan(c)
  BY <1>1, RunKeepsIssue DEF Plan
<1>3. PICK reply \in {Failed} \cup
               {Answered(v, Head(toPage)) : v \in ValuesOf(Head(toPage).step)} :
         /\ toClient' = Append(toClient, [id |-> Head(toPage).id, reply |-> reply])
         /\ log' = Append(log, [command |-> Head(toPage), ok |-> reply.ok])
  BY DEF PageRuns, Deliver
<1>4. /\ toClient \in Seq(Frames) /\ log \in Seq([command : Commands, ok : BOOLEAN])
  BY DEF Types, WireTypes
<1>5. reply.ok => reply.to = Head(toPage)
  BY <1>3 DEF Failed, Answered
<1>6. /\ DOMAIN log' = 1 .. Len(log) + 1 /\ Len(log) \in Nat
      /\ log'[Len(log) + 1] = [command |-> Head(toPage), ok |-> reply.ok]
      /\ \A n \in DOMAIN log : n \in DOMAIN log' /\ log'[n] = log[n]
  BY <1>3, <1>4
<1>7. ASSUME NEW i \in DOMAIN toClient', toClient'[i].reply.ok
      PROVE  /\ toClient'[i].id = toClient'[i].reply.to.id
             /\ \E n \in DOMAIN log' :
                   log'[n].command = toClient'[i].reply.to /\ log'[n].ok
  <2>1. \/ i \in DOMAIN toClient /\ toClient'[i] = toClient[i]
        \/ toClient'[i] = [id |-> Head(toPage).id, reply |-> reply]
    BY <1>3, <1>4
  <2>2. CASE i \in DOMAIN toClient /\ toClient'[i] = toClient[i]
    BY <1>6, <1>7, <2>2 DEF WireInv
  <2>3. CASE toClient'[i] = [id |-> Head(toPage).id, reply |-> reply]
    <3>1. reply.ok /\ Len(log) + 1 \in DOMAIN log'
      BY <1>6, <1>7, <2>3
    <3>2. QED
      BY <1>5, <1>6, <2>3, <3>1
  <2>4. QED
    BY <2>1, <2>2, <2>3
<1>8. QED
  BY <1>1, <1>2, <1>7 DEF WireInv

\* The next command of a caller has the next number, and is the current step
\* of its plan.
LEMMA SendKeepsWire ==
    ASSUME Types, WireInv, NEW c \in Callers, CommandInv(c), PlanInv(c), Send(c)
    PROVE  WireInv'
<1> DEFINE N == Len(log) + Len(toPage)
<1>1. UNCHANGED <<tool, toClient, log>> /\ pc[c] = "send"
  BY DEF Send, Go
<1>2. /\ cmd[c] \in Commands /\ cmd[c].by = c /\ cmd[c].nth = Len(sent[c]) + 1
      /\ cmd[c].id \in Nat
  BY <1>1 DEF CommandInv, Own, Commands
<1>3. \A d : Plan(d)' = Plan(d)
  BY <1>1 DEF Plan
<1>4. /\ DOMAIN Issue = 1 .. N /\ N \in Nat
      /\ DOMAIN Issue' = 1 .. N + 1 /\ N + 1 \in DOMAIN Issue'
      /\ Issue'[N + 1] = cmd[c]
      /\ \A n \in DOMAIN Issue : n \in DOMAIN Issue' /\ Issue'[n] = Issue[n]
      /\ \A n \in DOMAIN Issue' : n \in DOMAIN Issue \/ n = N + 1
      /\ \A n \in DOMAIN Issue : n < N + 1
  BY <1>2, SendAppends, IssueFacts
<1>5. /\ DOMAIN sent[c] = 1 .. Len(sent[c]) /\ Len(sent[c]) \in Nat
      /\ sent'[c] = Append(sent[c], cmd[c].id)
      /\ \A d \in Callers \ {c} : sent'[d] = sent[d]
  BY <1>2, SendAppends, IssueFacts, CallFacts
<1>6. /\ DOMAIN sent'[c] = 1 .. Len(sent[c]) + 1
      /\ sent'[c][Len(sent[c]) + 1] = cmd[c].id
      /\ \A k \in DOMAIN sent[c] : k \in DOMAIN sent'[c] /\ sent'[c][k] = sent[c][k]
      /\ \A k \in DOMAIN sent'[c] : k \in DOMAIN sent[c] \/ k = Len(sent[c]) + 1
      /\ \A k \in DOMAIN sent[c] : k < Len(sent[c]) + 1
      /\ Len(sent[c]) + 1 \in DOMAIN sent'[c]
  <2>1. sent[c] \in Seq(Nat)
    BY DEF Types, WireTypes
  <2>2. QED
    BY <1>2, <1>5, <2>1
<1> HIDE DEF N
<1>7. \A n \in DOMAIN Issue : Issue[n].by \in Callers /\ Issue[n].nth \in Nat
  BY IssueFacts DEF Commands
<1>8. \A n \in DOMAIN Issue' :
         /\ Issue'[n].nth \in DOMAIN sent'[Issue'[n].by]
         /\ sent'[Issue'[n].by][Issue'[n].nth] = Issue'[n].id
  <2>1. ASSUME NEW n \in DOMAIN Issue
        PROVE  /\ Issue[n].nth \in DOMAIN sent'[Issue[n].by]
               /\ sent'[Issue[n].by][Issue[n].nth] = Issue[n].id
    <3>1. /\ Issue[n].nth \in DOMAIN sent[Issue[n].by]
          /\ sent[Issue[n].by][Issue[n].nth] = Issue[n].id
      BY DEF WireInv
    <3>2. CASE Issue[n].by = c
      BY <1>6, <3>1, <3>2
    <3>3. CASE Issue[n].by # c
      BY <1>5, <1>7, <3>1, <3>3
    <3>4. QED
      BY <3>2, <3>3
  <2>2. /\ cmd[c].nth \in DOMAIN sent'[cmd[c].by]
        /\ sent'[cmd[c].by][cmd[c].nth] = cmd[c].id
    BY <1>2, <1>6
  <2>3. QED
    BY <1>4, <2>1, <2>2
<1>9. \A n \in DOMAIN Issue' : tool[Issue'[n].by] # "wait" =>
         /\ Issue'[n].nth <= Len(Plan(Issue'[n].by))
         /\ Issue'[n].step = Plan(Issue'[n].by)[Issue'[n].nth]
  <2>1. tool[c] # "wait" =>
          cmd[c].nth <= Len(Plan(c)) /\ cmd[c].step = Plan(c)[cmd[c].nth]
    BY <1>1, <1>2, CallFacts DEF PlanInv
  <2>2. QED
    BY <1>2, <1>4, <2>1 DEF WireInv
<1>10. \A m, n \in DOMAIN Issue' :
          m < n /\ Issue'[m].by = Issue'[n].by => Issue'[m].nth < Issue'[n].nth
  <2>1. \A m \in DOMAIN Issue : Issue[m].by = c => Issue[m].nth < Len(sent[c]) + 1
    BY <1>6 DEF WireInv
  <2>2. \A m \in DOMAIN Issue : ~(N + 1 < m) /\ ~(N + 1 < N + 1)
    BY <1>4
  <2>3. QED
    BY <1>2, <1>4, <2>1, <2>2 DEF WireInv
<1>11. \A d \in Callers : \A k \in DOMAIN sent'[d] :
          \E n \in DOMAIN Issue' : Issue'[n].by = d /\ Issue'[n].nth = k
  <2>1. ASSUME NEW d \in Callers, NEW k \in DOMAIN sent[d]
        PROVE  \E n \in DOMAIN Issue' : Issue'[n].by = d /\ Issue'[n].nth = k
    <3>1. PICK n \in DOMAIN Issue : Issue[n].by = d /\ Issue[n].nth = k
      BY DEF WireInv
    <3>2. QED
      BY <1>4, <3>1
  <2>2. \E n \in DOMAIN Issue' :
          Issue'[n].by = c /\ Issue'[n].nth = Len(sent[c]) + 1
    BY <1>2, <1>4
  <2>3. QED
    BY <1>5, <1>6, <2>1, <2>2
<1>12. \A i \in DOMAIN toClient' :
         LET r == toClient'[i].reply IN
          r.ok => /\ toClient'[i].id = r.to.id
                  /\ \E n \in DOMAIN log' : log'[n].command = r.to /\ log'[n].ok
  BY <1>1 DEF WireInv
<1>13. QED
  BY <1>1, <1>3, <1>8, <1>9, <1>10, <1>11, <1>12 DEF WireInv

\* Every step keeps WireInv.
LEMMA NextWire ==
    ASSUME CdpInv, [Next]_vars
    PROVE  WireInv'
<1>1. CASE PageRuns
  BY <1>1, RunKeepsWire DEF CdpInv
<1>2. CASE \E c \in Callers : Send(c)
  BY <1>2, SendKeepsWire DEF CdpInv
<1>3. CASE ~PageRuns /\ ~(\E c \in Callers : Send(c))
  BY <1>3, QuietSteps, QuietFrames, QuietKeepsWire DEF CdpInv
<1>4. QED
  BY <1>1, <1>2, <1>3

-----------------------------------------------------------------------------
(* The callers.                                                            *)

\* What a caller knows stays true while others go on.
LEMMA OthersStay ==
    ASSUME Grows, NEW d \in Callers, CommandInv(d), PlanInv(d),
           pc'[d] = pc[d], cmd'[d] = cmd[d], answer'[d] = answer[d],
           left'[d] = left[d],
           result'[d] = result[d], sent'[d] = sent[d], tool'[d] = tool[d]
    PROVE  CommandInv(d)' /\ PlanInv(d)'
<1>1. \A k : Own(d, k)' <=> Own(d, k)
  BY DEF Own
<1>2. CommandInv(d)'
  <2>1. ASSUME NEW a, a = cmd[d]
        PROVE  (Issued(a) => Issued(cmd[d])') /\ (Carried(a) => Carried(cmd[d])')
    BY <2>1 DEF Grows, Issued, Carried
  <2>2. QED
    BY <1>1, <2>1 DEF Grows, CommandInv
<1>3. Plan(d)' = Plan(d) /\ At(d)' = At(d) /\ CurrentStep(d)' = CurrentStep(d)
  BY DEF Plan, At, CurrentStep
<1>4. PlanInv(d)'
  BY <1>3 DEF Grows, PlanInv
<1>5. QED
  BY <1>2, <1>4

\* Every caller begins with the first step of its plan, and has sent nothing.
LEMMA InitCallers ==
    ASSUME Init, NEW c \in Callers
    PROVE  CommandInv(c) /\ PlanInv(c)
<1>1. /\ pc[c] = "idle" /\ result[c] = "none" /\ sent[c] = <<>>
      /\ left[c] = Plan(c) /\ tool[c] \in DOMAIN Plans
  BY DEF Init, Plan
<1>2. Len(Plan(c)) \in Nat
  BY <1>1, PlansFacts DEF Plan
<1>3. At(c) = 1 /\ Len(sent[c]) = 0
  BY <1>1, <1>2 DEF At
<1>4. QED
  BY <1>1, <1>3 DEF CommandInv, PlanInv

\* Two commands with one id are one command, unless ids clash.
LEMMA SameIdSameCommand ==
    ASSUME Types, WireInv, ~IdsClash,
           NEW m \in DOMAIN Issue, NEW n \in DOMAIN Issue, Issue[m].id = Issue[n].id
    PROVE  Issue[m] = Issue[n]
<1>1. /\ Issue[m].by \in Callers /\ Issue[n].by \in Callers
      /\ Issue[m].nth \in Nat /\ Issue[n].nth \in Nat
      /\ m \in Nat /\ n \in Nat
  BY IssueFacts DEF Commands
<1>2. /\ Issue[m].nth \in DOMAIN sent[Issue[m].by]
      /\ Issue[n].nth \in DOMAIN sent[Issue[n].by]
      /\ sent[Issue[m].by][Issue[m].nth] = sent[Issue[n].by][Issue[n].nth]
  BY DEF WireInv
<1>3. Issue[m].by = Issue[n].by /\ Issue[m].nth = Issue[n].nth
  BY <1>1, <1>2 DEF IdsClash
<1>4. ~(m < n) /\ ~(n < m)
  BY <1>1, <1>3 DEF WireInv
<1>5. m = n
  BY <1>1, <1>4
<1>6. QED
  BY <1>5

\* A command with the number of another of the same caller is that one.
LEMMA SameNumberSameCommand ==
    ASSUME Types, WireInv,
           NEW m \in DOMAIN Issue, NEW n \in DOMAIN Issue,
           Issue[m].by = Issue[n].by, Issue[m].nth = Issue[n].nth
    PROVE  m = n
<1>1. m \in Nat /\ n \in Nat /\ Issue[m].nth \in Nat /\ Issue[n].nth \in Nat
  BY IssueFacts DEF Commands
<1>2. ~(m < n) /\ ~(n < m)
  BY <1>1 DEF WireInv
<1>3. QED
  BY <1>1, <1>2

\* The steps of sendCdpCommand that leave the caller without an answer.
LEMMA FailureKeepsCaller ==
    ASSUME Types, Grows, NEW c \in Callers, CommandInv(c), PlanInv(c),
           NotConnected(c) \/ SendFails(c) \/ GiveUp(c) \/ ReceiveFails(c)
    PROVE  CommandInv(c)' /\ PlanInv(c)'
<1>1. /\ pc'[c] = "answered" /\ answer'[c].ok = FALSE
      /\ UNCHANGED <<sent, tool, left, result, log, cmd>>
  BY DEF NotConnected, SendFails, GiveUp, ReceiveFails, Returns, Failed, wire,
     Types, CallTypes
<1>2. CommandInv(c)'
  <2>1. boot' = "done"
    BY DEF NotConnected, SendFails, GiveUp, ReceiveFails, CommandInv, sessionVars
  <2>2. QED
    BY <1>1, <2>1 DEF CommandInv
<1>3. Plan(c)' = Plan(c) /\ At(c)' = At(c)
  BY <1>1 DEF Plan, At
<1>4. \/ pc[c] \in {"test", "receive"} \/ Lost'
      \/ pc[c] = "send" /\ cmd[c].step = "key"
  BY DEF NotConnected, SendFails, GiveUp, ReceiveFails, Lost, CommandInv,
     sessionVars
<1>5. CurrentStep(c)' = CurrentStep(c)
  BY <1>1 DEF CurrentStep
<1>6. PlanInv(c)'
  BY <1>1, <1>3, <1>4, <1>5 DEF Grows, PlanInv, Optional
<1>7. QED
  BY <1>2, <1>6

\* The command that takes a number is the next of its caller.
LEMMA ReadIdKeepsCaller ==
    ASSUME Types, Grows, NEW c \in Callers, CommandInv(c), PlanInv(c), ReadId(c)
    PROVE  CommandInv(c)' /\ PlanInv(c)'
<1>1. /\ pc[c] = "idle" /\ pc'[c] = "send" /\ boot = "done" /\ connected
      /\ UNCHANGED <<sessionVars, sent, tool, left, result, log>>
      /\ cmd'[c] = [id |-> msgId, by |-> c, step |-> CurrentStep(c),
                    nth |-> Len(sent[c]) + 1]
  BY DEF ReadId, Go, wire, Types, CallTypes
<1>2. cmd'[c] \in Commands
  BY <1>1, CallFacts DEF Types, SessionTypes, Commands
<1>3. CommandInv(c)'
  BY <1>1, <1>2 DEF CommandInv, Own, sessionVars
<1>4. Plan(c)' = Plan(c) /\ At(c)' = At(c) /\ CurrentStep(c)' = CurrentStep(c)
  BY <1>1 DEF Plan, At, CurrentStep
<1>5. PlanInv(c)'
  BY <1>1, <1>4 DEF Grows, PlanInv, Lost
<1>6. QED
  BY <1>3, <1>5

\* A command that was sent is the last of its caller, and issued.
LEMMA SendKeepsCaller ==
    ASSUME Types, Grows, NEW c \in Callers, CommandInv(c), PlanInv(c), Send(c)
    PROVE  CommandInv(c)' /\ PlanInv(c)'
<1>1. /\ pc[c] = "send" /\ pc'[c] = "test"
      /\ UNCHANGED <<boot, tool, left, result, log, cmd>>
  BY DEF Send, Go, Types, CallTypes
<1>2. Own(c, Len(sent[c]) + 1) /\ cmd[c] \in Commands
  BY <1>1 DEF CommandInv, Own
<1>3. Len(sent'[c]) = Len(sent[c]) + 1
  <2>1. sent'[c] = Append(sent[c], cmd[c].id) /\ sent[c] \in Seq(Nat)
    BY <1>2, SendAppends, CallFacts
  <2>2. QED
    BY <2>1
<1>4. Issued(cmd[c])'
  <2>1. Len(log) + Len(toPage) + 1 \in DOMAIN Issue'
    BY <1>2, SendAppends, IssueFacts
  <2>2. Issue'[Len(log) + Len(toPage) + 1] = cmd'[c]
    BY <1>1, <1>2, SendAppends
  <2>3. QED
    BY <2>1, <2>2 DEF Issued
<1>5. CommandInv(c)'
  BY <1>1, <1>2, <1>3, <1>4 DEF CommandInv, Own
<1>6. Plan(c)' = Plan(c) /\ At(c)' = At(c)
  BY <1>1 DEF Plan, At
<1>7. PlanInv(c)'
  <2> SUFFICES ASSUME tool[c] # "wait" PROVE PlanInv(c)'
    BY <1>1 DEF PlanInv
  <2>1. Len(sent[c]) = At(c) - 1 /\ At(c) \in Nat
    BY <1>1, CallFacts DEF PlanInv
  <2>2. Len(sent'[c]) = At(c)
    BY <1>3, <2>1
  <2>3. \A j : StepCarried(c, j) => StepCarried(c, j)'
    BY <1>1 DEF StepCarried, Ran
  <2>4. IdsClash => IdsClash'
    BY DEF Grows
  <2>5. Plan(c)' = Plan(c) /\ result'[c] = result[c]
    BY <1>1, <1>6
  <2>6. ~IdsClash' => /\ \A j \in 1 .. At(c) - 1 :
                            Plan(c)[j] \in Optional \/ StepCarried(c, j)'
                      /\ result'[c] = "ok" => StepCarried(c, Len(Plan(c)))'
    BY <2>3, <2>4, <2>5 DEF PlanInv
  <2>7. QED
    BY <1>1, <1>6, <2>1, <2>2, <2>5, <2>6 DEF PlanInv
<1>8. QED
  BY <1>5, <1>7

\* Waiting on, also after a frame that was somebody else's.
LEMMA AwaitKeepsCaller ==
    ASSUME Types, Grows, NEW c \in Callers, CommandInv(c), PlanInv(c),
           AwaitFrame(c) \/ ReceivePiece(c) \/ Receive(c)
    PROVE  pc'[c] \in {"test", "receive"} => CommandInv(c)' /\ PlanInv(c)'
<1> SUFFICES ASSUME pc'[c] \in {"test", "receive"}
             PROVE  CommandInv(c)' /\ PlanInv(c)'
  OBVIOUS
<1>1. /\ pc[c] \in {"test", "receive"}
      /\ UNCHANGED <<boot, sent, toPage, tool, left, result, log, cmd>>
  BY DEF AwaitFrame, ReceivePiece, Receive, Go, Types, CallTypes, wire, sessionVars,
     callVars
<1>2. Issue' = Issue
  BY <1>1 DEF Issue
<1>3. CommandInv(c)'
  BY <1>1, <1>2 DEF CommandInv, Own, Issued
<1>4. Plan(c)' = Plan(c) /\ At(c)' = At(c)
  BY <1>1 DEF Plan, At
<1>5. PlanInv(c)'
  BY <1>1, <1>4 DEF Grows, PlanInv
<1>6. QED
  BY <1>3, <1>5

\* The answer with the id of the command is its answer.
LEMMA ReceiveKeepsCaller ==
    ASSUME Types, WireInv, Grows, NEW c \in Callers, CommandInv(c), PlanInv(c),
           Receive(c)
    PROVE  CommandInv(c)' /\ PlanInv(c)'
<1>1. /\ pc[c] = "receive" /\ toClient # <<>>
      /\ UNCHANGED <<boot, sent, toPage, tool, left, result, log, cmd>>
  BY DEF Receive, Types, CallTypes, wire, sessionVars, callVars
<1>2. CASE ~(Whole(c) /\ Matches(Head(toClient), c))
  <2>1. pc'[c] = "test"
    BY <1>2 DEF Receive, Types, CallTypes
  <2>2. QED
    BY <2>1, AwaitKeepsCaller
<1>3. CASE Whole(c) /\ Matches(Head(toClient), c)
  <2>1. pc'[c] = "answered" /\ answer'[c] = Head(toClient).reply
    BY <1>3 DEF Receive, Returns, Types, CallTypes
  <2>2. Own(c, Len(sent[c])) /\ Issued(cmd[c])
    BY <1>1 DEF CommandInv
  <2>3. ASSUME answer'[c].ok, ~IdsClash
        PROVE  answer'[c].to = cmd[c] /\ Carried(cmd[c])
    <3> DEFINE r == Head(toClient).reply
    <3>1. 1 \in DOMAIN toClient /\ Head(toClient) = toClient[1]
      BY <1>1 DEF Types, WireTypes
    <3>2. /\ r.ok /\ Head(toClient).id = r.to.id
          /\ \E n \in DOMAIN log : log[n].command = r.to /\ log[n].ok
      BY <2>1, <2>3, <3>1 DEF WireInv
    <3>3. PICK n \in DOMAIN log : log[n].command = r.to /\ log[n].ok
      BY <3>2
    <3>4. n \in DOMAIN Issue /\ Issue[n] = r.to
      BY <3>3, IssueFacts
    <3>5. PICK m \in DOMAIN Issue : Issue[m] = cmd[c]
      BY <2>2 DEF Issued
    <3>6. Issue[m].id = Issue[n].id
      BY <1>3, <3>2, <3>4, <3>5 DEF Matches
    <3>7. Issue[m] = Issue[n]
      BY <2>3, <3>4, <3>5, <3>6, SameIdSameCommand
    <3>8. QED
      BY <2>1, <3>3, <3>4, <3>5, <3>7 DEF Carried
  <2>4. IdsClash' <=> IdsClash
    BY <1>1 DEF IdsClash
  <2>5. CommandInv(c)'
    <3>1. boot' = "done" /\ Own(c, Len(sent[c]))'
      BY <1>1, <2>2 DEF CommandInv, Own
    <3>2. answer'[c].ok /\ ~IdsClash => answer'[c].to = cmd'[c] /\ Carried(cmd[c])'
      BY <1>1, <2>3 DEF Carried
    <3>3. QED
      BY <2>1, <2>4, <3>1, <3>2 DEF CommandInv
  <2>6. Plan(c)' = Plan(c) /\ At(c)' = At(c)
    BY <1>1 DEF Plan, At
  <2>7. PlanInv(c)'
    BY <1>1, <2>1, <2>6 DEF Grows, PlanInv
  <2>8. QED
    BY <2>5, <2>7
<1>4. QED
  BY <1>2, <1>3

\* Only browserWaitFor polls.
LEMMA PollKeepsCaller ==
    ASSUME Types, Grows, NEW c \in Callers, CommandInv(c), PlanInv(c),
           Poll(c) \/ Wake(c)
    PROVE  CommandInv(c)' /\ PlanInv(c)'
<1>1. /\ pc[c] \in {"answered", "sleep"} /\ pc'[c] \in {"idle", "sleep"}
      /\ UNCHANGED <<boot, tool>>
  BY DEF Poll, Wake, Go, Types, CallTypes, wire, sessionVars, callVars
<1>2. CurrentStep(c) = "probe"
  BY DEF Poll, Wake, Go, PollsAgain, Types, LeftInv
<1>3. tool[c] = "wait"
  BY <1>2, CallFacts, PlansFacts DEF Plan
<1>4. QED
  BY <1>1, <1>3 DEF CommandInv, PlanInv

\* A step of the plan is left behind when it was carried out, or may fail.
LEMMA ProceedKeepsCaller ==
    ASSUME Types, Grows, NEW c \in Callers, CommandInv(c), PlanInv(c), Proceed(c)
    PROVE  CommandInv(c)' /\ PlanInv(c)'
<1>1. /\ pc[c] = "answered" /\ UNCHANGED <<boot, connected, sent, tool, log>>
      /\ \/ /\ pc'[c] = "done" /\ left'[c] = left[c]
            /\ EndsCall(c) \/ Len(left[c]) = 1
            /\ result'[c] = (IF Succeeded(c) THEN "ok" ELSE "err")
         \/ /\ pc'[c] = "idle" /\ left'[c] = Tail(left[c])
            /\ ~EndsCall(c) /\ Len(left[c]) # 1
            /\ result'[c] = result[c]
  BY DEF Proceed, Types, CallTypes, LeftInv, wire, sessionVars
<1>2. CommandInv(c)'
  BY <1>1 DEF CommandInv
<1>3. /\ (IdsClash' <=> IdsClash) /\ (Lost' <=> Lost) /\ Plan(c)' = Plan(c)
      /\ \A k : StepCarried(c, k)' <=> StepCarried(c, k)
  BY <1>1 DEF IdsClash, Lost, Plan, StepCarried, Ran
<1>4. ASSUME tool[c] # "wait", Succeeded(c), ~IdsClash
      PROVE  StepCarried(c, At(c))
  <2>1. answer[c].ok
    BY <1>4 DEF Succeeded
  <2>2. Len(sent[c]) = At(c)
    BY <1>1, <1>4, <2>1 DEF PlanInv
  <2>3. Own(c, At(c)) /\ Carried(cmd[c])
    BY <1>1, <1>4, <2>1, <2>2 DEF CommandInv
  <2>4. QED
    BY <2>3 DEF Own, Carried, StepCarried, Ran
<1>5. PlanInv(c)'
  <2> SUFFICES ASSUME tool[c] # "wait" PROVE PlanInv(c)'
    BY <1>1 DEF PlanInv
  <2>1. CASE pc'[c] = "done" /\ left'[c] = left[c]
    <3>1. At(c)' = At(c)
      BY <1>3, <2>1 DEF At
    <3>2. ~IdsClash /\ result'[c] = "ok" => StepCarried(c, Len(Plan(c)))
      <4> SUFFICES ASSUME ~IdsClash, result'[c] = "ok"
                   PROVE  StepCarried(c, Len(Plan(c)))
        OBVIOUS
      <4>1. Succeeded(c) /\ (EndsCall(c) \/ Len(left[c]) = 1)
        BY <1>1, <2>1
      <4>2. Len(left[c]) = 1
        BY <4>1 DEF EndsCall
      <4>3. At(c) = Len(Plan(c))
        BY <4>2, CallFacts DEF At
      <4>4. QED
        BY <1>4, <4>1, <4>3
    <3>3. QED
      BY <1>1, <1>3, <2>1, <3>1, <3>2 DEF PlanInv
  <2>2. CASE pc'[c] = "idle" /\ left'[c] = Tail(left[c])
    <3>1. /\ Len(left'[c]) = Len(left[c]) - 1 /\ ~EndsCall(c)
          /\ result'[c] = result[c]
          /\ At(c) \in Nat /\ At(c)' = At(c) + 1
      <4>1. /\ left[c] \in Seq(Steps) /\ left[c] # <<>> /\ Len(left[c]) \in Nat
            /\ Len(Plan(c)) \in Nat /\ At(c) \in Nat
        BY CallFacts
      <4>2. Len(left'[c]) = Len(left[c]) - 1
        BY <2>2, <4>1
      <4>3. At(c)' = Len(Plan(c)) - Len(left'[c]) + 1
        BY <1>3 DEF At
      <4>4. At(c) = Len(Plan(c)) - Len(left[c]) + 1
        BY DEF At
      <4>5. At(c)' = At(c) + 1
        BY <4>1, <4>2, <4>3, <4>4
      <4>6. ~EndsCall(c) /\ result'[c] = result[c]
        BY <1>1, <2>2
      <4>7. QED
        BY <4>1, <4>2, <4>5, <4>6
    <3>2. Len(sent[c]) \in Nat /\ Len(sent[c]) <= At(c)
      BY CallFacts DEF PlanInv
    <3>3. Lost \/ Len(sent[c]) = At(c)
      BY <1>1, <2>2 DEF PlanInv, EndsCall, Succeeded
    <3>4. ~IdsClash => Plan(c)[At(c)] \in Optional \/ StepCarried(c, At(c))
      BY <1>4, <3>1, CallFacts DEF EndsCall
    <3>5. ~IdsClash => \A j \in 1 .. At(c) + 1 - 1 :
                          Plan(c)[j] \in Optional \/ StepCarried(c, j)
      BY <3>1, <3>4 DEF PlanInv
    <3>6. QED
      BY <1>1, <1>3, <2>2, <3>1, <3>2, <3>3, <3>5 DEF PlanInv
  <2>3. QED
    BY <1>1, <2>1, <2>2
<1>6. QED
  BY <1>2, <1>5


\* A step of another caller leaves what is the caller's own alone.
LEMMA OwnSteps ==
    ASSUME Types, NEW d \in Callers, [Next]_vars,
           ~CallerStep(d)
    PROVE  /\ pc'[d] = pc[d] /\ cmd'[d] = cmd[d] /\ answer'[d] = answer[d]
           /\ left'[d] = left[d] /\ result'[d] = result[d] /\ sent'[d] = sent[d]
           /\ tool'[d] = tool[d]
<1>1. CASE Connect \/ Launch \/ PageStep \/ Tick \/ UNCHANGED vars
  BY <1>1 DEF Connect, Launch, PageStep, PageRuns, PageEvent, PageGoes, Tick, vars,
     wire, callVars
<1>2. ASSUME NEW c \in Callers, CallerStep(c)
      PROVE  /\ pc'[d] = pc[d] /\ cmd'[d] = cmd[d] /\ answer'[d] = answer[d]
             /\ left'[d] = left[d] /\ result'[d] = result[d] /\ sent'[d] = sent[d]
             /\ tool'[d] = tool[d]
  <2>1. d # c
    BY <1>2
  <2>2. CASE NotConnected(c) \/ SendFails(c) \/ GiveUp(c) \/ ReceiveFails(c)
    BY <2>1, <2>2 DEF NotConnected, SendFails, GiveUp, ReceiveFails, Returns, wire,
       Types, CallTypes
  <2>3. CASE ReadId(c) \/ AwaitFrame(c) \/ Poll(c) \/ Wake(c)
    BY <2>1, <2>3 DEF ReadId, AwaitFrame, Poll, Wake, Go, wire, callVars, Types,
       CallTypes
  <2>4. CASE Send(c)
    BY <2>1, <2>4 DEF Send, Go, Types, CallTypes, WireTypes
  <2>5. CASE Receive(c)
    BY <2>1, <2>5 DEF Receive, Returns, Types, CallTypes
  <2>6. CASE Proceed(c)
    BY <2>1, <2>6 DEF Proceed, wire, Types, CallTypes, LeftInv
  <2>7. CASE ReceivePiece(c)
    BY <2>7 DEF ReceivePiece, wire, callVars
  <2>8. QED
    BY <1>2, <2>2, <2>3, <2>4, <2>5, <2>6, <2>7 DEF CallerStep
<1>3. QED
  BY <1>1, <1>2 DEF Next

\* Every step keeps what is known of every caller.
LEMMA NextCallers ==
    ASSUME CdpInv, [Next]_vars, NEW d \in Callers
    PROVE  CommandInv(d)' /\ PlanInv(d)'
<1>1. /\ Types /\ WireInv /\ CommandInv(d) /\ PlanInv(d)
      /\ \A c \in Callers : CommandInv(c)
  BY DEF CdpInv
<1>2. Grows
  BY <1>1, NextGrows
<1>3. CASE ~CallerStep(d)
  BY <1>1, <1>2, <1>3, OwnSteps, OthersStay
<1>4. CASE NotConnected(d) \/ SendFails(d) \/ GiveUp(d) \/ ReceiveFails(d)
  BY <1>1, <1>2, <1>4, FailureKeepsCaller
<1>5. CASE ReadId(d)
  BY <1>1, <1>2, <1>5, ReadIdKeepsCaller
<1>6. CASE Send(d)
  BY <1>1, <1>2, <1>6, SendKeepsCaller
<1>7. CASE AwaitFrame(d)
  <2>1. pc'[d] = "receive"
    BY <1>1, <1>7 DEF AwaitFrame, Go, Types, CallTypes
  <2>2. QED
    BY <1>1, <1>2, <1>7, <2>1, AwaitKeepsCaller
<1>8. CASE Receive(d)
  BY <1>1, <1>2, <1>8, ReceiveKeepsCaller
<1>9. CASE Poll(d) \/ Wake(d)
  BY <1>1, <1>2, <1>9, PollKeepsCaller
<1>10. CASE Proceed(d)
  BY <1>1, <1>2, <1>10, ProceedKeepsCaller
<1>11. CASE ReceivePiece(d)
  <2>1. pc'[d] = "receive"
    BY <1>11 DEF ReceivePiece
  <2>2. QED
    BY <1>1, <1>2, <1>11, <2>1, AwaitKeepsCaller
<1>12. QED
  BY <1>3, <1>4, <1>5, <1>6, <1>7, <1>8, <1>9, <1>10, <1>11 DEF CallerStep

-----------------------------------------------------------------------------
(* The theorems.                                                           *)

\* sendCdpCommand and the tools that call it keep CdpInv: the page is sent the
\* commands of each caller in the order of its plan, with no number twice.
THEOREM CdpInvariant == Spec => []CdpInv
<1>1. Init => CdpInv
  BY InitTypes, InitWire, InitCallers DEF CdpInv
<1>2. CdpInv /\ [Next]_vars => CdpInv'
  <2> SUFFICES ASSUME CdpInv, [Next]_vars PROVE CdpInv'
    OBVIOUS
  <2>1. Types'
    BY NextTypes DEF CdpInv
  <2>2. WireInv'
    BY NextWire
  <2>3. \A d \in Callers : CommandInv(d)' /\ PlanInv(d)'
    BY NextCallers
  <2>4. QED
    BY <2>1, <2>2, <2>3 DEF CdpInv
<1>3. QED
  BY <1>1, <1>2, PTL DEF Spec

\* What a caller has of a message, and for how long it has had nothing.
Receipts == [timeout : 0 .. Limit, quiet : 0 .. Limit, count : 0 .. 2]
PieceTypes == taken \subseteq Callers /\ receipt \in [Callers -> Receipts]

LEMMA InitPieces == Init => PieceTypes
<1>1. Nothing(0) \in Receipts
  BY CdpAssumption DEF Nothing, Receipts
<1>2. QED
  BY <1>1 DEF Init, PieceTypes

\* A receive that waits has a timeout within the limit, and has not reached it.
LEMMA NextPieces ==
    ASSUME Types, PieceTypes, [Next]_vars
    PROVE  PieceTypes'
<1>1. ASSUME NEW c \in Callers, AwaitFrame(c) PROVE PieceTypes'
  <2>1. Limit - age[c] \in 0 .. Limit /\ Limit \in Nat
    BY CdpAssumption DEF Types, CallTypes
  <2>2. Nothing(Limit - age[c]) \in Receipts
    BY <2>1 DEF Nothing, Receipts
  <2>3. QED
    BY <1>1, <2>2 DEF AwaitFrame, PieceTypes
<1>2. ASSUME NEW c \in Callers, ReceivePiece(c) PROVE PieceTypes'
  <2>1. receipt[c] \in Receipts
    BY DEF PieceTypes
  <2>2. [timeout |-> receipt[c].timeout, quiet |-> 0,
         count |-> IF receipt[c].count = 0 THEN 1 ELSE 2] \in Receipts
    BY <2>1, CdpAssumption DEF Receipts
  <2>3. QED
    BY <1>2, <2>2 DEF ReceivePiece, PieceTypes
<1>3. ASSUME NEW c \in Callers, Receive(c) \/ ReceiveFails(c) PROVE PieceTypes'
  <2>1. Nothing(0) \in Receipts
    BY CdpAssumption DEF Nothing, Receipts
  <2>2. receipt' = [receipt EXCEPT ![c] = Nothing(0)] /\ taken' \in {{}, taken}
    BY <1>3 DEF Receive, ReceiveFails
  <2>3. QED
    BY <2>1, <2>2 DEF PieceTypes
<1>4. CASE Tick
  <2>1. ASSUME NEW c \in Callers PROVE receipt'[c] \in Receipts
    <3>1. receipt[c] \in Receipts /\ Limit \in Nat
      BY CdpAssumption DEF PieceTypes
    <3>2. Receiving(c) => receipt[c].quiet + 1 \in 0 .. Limit
      BY <3>1 DEF Receiving, Receipts
    <3>3. Receiving(c) => [receipt[c] EXCEPT !.quiet = @ + 1] \in Receipts
      BY <3>1, <3>2 DEF Receipts
    <3>4. QED
      BY <1>4, <3>1, <3>3 DEF Tick
  <2>2. receipt' = [c \in Callers |-> receipt'[c]]
    BY <1>4 DEF Tick
  <2>3. QED
    BY <1>4, <2>1, <2>2 DEF Tick, PieceTypes
<1>5. CASE UNCHANGED pieces
  BY <1>5 DEF pieces, PieceTypes
<1>6. Connect \/ Launch \/ PageStep \/ UNCHANGED vars => UNCHANGED pieces
  BY DEF Connect, Launch, PageStep, PageRuns, PageEvent, PageGoes, vars
<1>7. ASSUME NEW c \in Callers, CallerStep(c)
      PROVE  AwaitFrame(c) \/ ReceivePiece(c) \/ Receive(c) \/ ReceiveFails(c)
                \/ UNCHANGED pieces
  BY <1>7 DEF CallerStep, NotConnected, ReadId, Send, SendFails, GiveUp, Poll, Wake,
     Proceed
<1>8. QED
  BY <1>1, <1>2, <1>3, <1>4, <1>5, <1>6, <1>7 DEF Next

\* The variables keep their types.
THEOREM BrowserTypeCorrect == Spec => []TypeOK
<1>1. Init => PieceTypes
  BY InitPieces
<1>2. CdpInv /\ PieceTypes /\ [Next]_vars => PieceTypes'
  BY NextPieces DEF CdpInv
<1>3. CdpInv /\ PieceTypes => TypeOK
  BY DEF CdpInv, Types, SessionTypes, WireTypes, CallTypes, Places, PieceTypes, Receipts,
     TypeOK
<1>4. QED
  BY <1>1, <1>2, <1>3, CdpInvariant, PTL DEF Spec

\* sendCdpCommand returns a result only if it is the page's answer to that very
\* command, however many frames are late, for others, or events, unless two
\* commands got one id in the unguarded m_msgId++ (BrowserAutomation.cpp:283).
THEOREM AnswerIsOwn == Spec => []OwnAnswer
<1>1. CdpInv => OwnAnswer
  BY DEF CdpInv, CommandInv, OwnAnswer
<1>2. QED
  BY <1>1, CdpInvariant, PTL

\* A command is run after those its caller had sent before it.
LEMMA EarlierRanBefore ==
    ASSUME Types, WireInv, NEW n \in DOMAIN log,
           NEW j \in 1 .. log[n].command.nth - 1
    PROVE  /\ j \in Nat
           /\ \E i \in 1 .. n - 1 : i \in DOMAIN log /\ Ran(log[n].command.by, j, i)
<1> DEFINE c == log[n].command.by
<1> DEFINE k == log[n].command.nth
<1>1. n \in DOMAIN Issue /\ Issue[n] = log[n].command /\ c \in Callers /\ k \in Nat
      /\ n \in 1 .. Len(log) /\ Len(log) \in Nat /\ Len(toPage) \in Nat
  BY IssueFacts DEF Commands
<1>2. k \in DOMAIN sent[c] /\ DOMAIN sent[c] = 1 .. Len(sent[c])
  BY <1>1, IssueFacts DEF WireInv
<1>3. j \in DOMAIN sent[c] /\ j < k /\ j \in Nat
  <2>1. Len(sent[c]) \in Nat
    BY <1>1, CallFacts
  <2>2. QED
    BY <1>1, <1>2, <2>1
<1>4. PICK i \in DOMAIN Issue : Issue[i].by = c /\ Issue[i].nth = j
  BY <1>1, <1>3 DEF WireInv
<1>5. i \in Nat /\ i # n
  BY <1>1, <1>3, <1>4, IssueFacts
<1>6. i < n
  <2>1. ~(n < i)
    <3>1. n < i => k < j
      BY <1>1, <1>4 DEF WireInv
    <3>2. QED
      BY <1>1, <1>3, <3>1
  <2>2. QED
    BY <1>1, <1>5, <2>1
<1>7. i \in 1 .. Len(log) /\ i \in 1 .. n - 1
  <2>1. i \in 1 .. Len(log) + Len(toPage)
    BY <1>4, IssueFacts
  <2>2. QED
    BY <1>1, <1>5, <1>6, <2>1
<1>8. i \in DOMAIN log /\ Issue[i] = log[i].command
  BY <1>7, IssueFacts
<1>9. QED
  BY <1>3, <1>4, <1>7, <1>8 DEF Ran

\* All steps before one that was sent were carried out, or may fail.
LEMMA EarlierCarried ==
    ASSUME CdpInv, NEW c \in Callers, tool[c] # "wait", ~IdsClash,
           NEW k \in DOMAIN sent[c], NEW j \in 1 .. k - 1
    PROVE  Plan(c)[j] \in Optional \/ StepCarried(c, j)
<1>1. Types /\ PlanInv(c)
  BY DEF CdpInv
<1>2. Len(sent[c]) <= At(c) /\ Len(sent[c]) \in Nat /\ At(c) \in Nat
      /\ DOMAIN sent[c] = 1 .. Len(sent[c])
  BY <1>1, CallFacts, IssueFacts DEF PlanInv
<1>3. j \in 1 .. At(c) - 1
  BY <1>2
<1>4. QED
  BY <1>1, <1>3 DEF PlanInv

\* The page runs the steps of typeInto, clickSelector and the other tools in order,
\* none twice and none after one that failed, and a tool that reports success had
\* all of them run, whatever was lost, late or given up.
THEOREM StepsInOrder == Spec => []StepsAsPlanned
<1>1. ASSUME CdpInv PROVE StepsAsPlanned
  <2> SUFFICES ASSUME NEW c \in Callers, tool[c] # "wait"
               PROVE  /\ \A n \in DOMAIN log : log[n].command.by = c =>
                            LET k == log[n].command.nth IN
                            /\ k <= Len(Plan(c)) /\ log[n].command.step = Plan(c)[k]
                            /\ \A i \in 1 .. n - 1 : ~Ran(c, k, i)
                            /\ \A j \in 1 .. k - 1 : \E i \in 1 .. n - 1 :
                                  /\ Ran(c, j, i)
                                  /\ \/ log[i].ok \/ IdsClash
                                     \/ Plan(c)[j] \in Optional
                      /\ result[c] = "ok" /\ ~IdsClash =>
                            \A k \in DOMAIN Plan(c) :
                               \E n \in DOMAIN log : Ran(c, k, n)
    BY DEF StepsAsPlanned, Plan
  <2>1. Types /\ WireInv /\ PlanInv(c)
    BY <1>1 DEF CdpInv
  <2>2. ASSUME NEW n \in DOMAIN log, log[n].command.by = c,
               NEW k, k = log[n].command.nth
        PROVE  /\ k <= Len(Plan(c)) /\ log[n].command.step = Plan(c)[k]
               /\ \A i \in 1 .. n - 1 : ~Ran(c, k, i)
               /\ \A j \in 1 .. k - 1 : \E i \in 1 .. n - 1 :
                     /\ Ran(c, j, i)
                     /\ log[i].ok \/ Plan(c)[j] \in Optional \/ IdsClash
    <3>1. n \in DOMAIN Issue /\ Issue[n] = log[n].command
          /\ n \in 1 .. Len(log) /\ Len(log) \in Nat
      BY <2>1, IssueFacts
    <3>2. k <= Len(Plan(c)) /\ log[n].command.step = Plan(c)[k]
          /\ k \in DOMAIN sent[c]
      BY <2>1, <2>2, <3>1 DEF WireInv
    <3>3. ASSUME NEW i \in 1 .. n - 1, Ran(c, k, i) PROVE FALSE
      <4>1. i \in 1 .. Len(log) /\ i < n /\ i \in Nat
        BY <3>1
      <4>2. i \in DOMAIN Issue /\ Issue[i] = log[i].command
        BY <2>1, <4>1, IssueFacts
      <4>3. i = n
        BY <2>1, <2>2, <3>1, <3>3, <4>2, SameNumberSameCommand DEF Ran
      <4>4. QED
        BY <3>1, <4>1, <4>3
    <3>4. ASSUME NEW j \in 1 .. k - 1
          PROVE  \E i \in 1 .. n - 1 :
                     /\ Ran(c, j, i)
                     /\ log[i].ok \/ Plan(c)[j] \in Optional \/ IdsClash
      <4>1. PICK i \in 1 .. n - 1 : i \in DOMAIN log /\ Ran(c, j, i)
        BY <2>1, <2>2, EarlierRanBefore
      <4>2. CASE Plan(c)[j] \in Optional \/ IdsClash
        BY <4>1, <4>2
      <4>3. CASE Plan(c)[j] \notin Optional /\ ~IdsClash
        <5>1. StepCarried(c, j)
          BY <1>1, <3>2, <4>3, EarlierCarried
        <5>2. PICK m \in DOMAIN log : Ran(c, j, m) /\ log[m].ok
          BY <5>1 DEF StepCarried
        <5>3. /\ m \in DOMAIN Issue /\ Issue[m] = log[m].command
              /\ i \in DOMAIN Issue /\ Issue[i] = log[i].command
          BY <2>1, <4>1, <5>2, IssueFacts
        <5>4. m = i
          BY <2>1, <4>1, <5>2, <5>3, SameNumberSameCommand DEF Ran
        <5>5. QED
          BY <4>1, <5>2, <5>4
      <4>4. QED
        BY <4>2, <4>3
    <3>5. QED
      BY <3>2, <3>3, <3>4
  <2>3. ASSUME result[c] = "ok", ~IdsClash, NEW k \in DOMAIN Plan(c)
        PROVE  \E n \in DOMAIN log : Ran(c, k, n)
    <3>1. StepCarried(c, Len(Plan(c)))
      BY <2>1, <2>3 DEF PlanInv
    <3>2. PICK n \in DOMAIN log : Ran(c, Len(Plan(c)), n)
      BY <3>1 DEF StepCarried
    <3>3. Len(Plan(c)) \in Nat /\ k \in 1 .. Len(Plan(c))
      BY <2>1, CallFacts
    <3>4. CASE k = Len(Plan(c))
      BY <3>2, <3>4
    <3>5. CASE k # Len(Plan(c))
      <4>1. k \in 1 .. Len(Plan(c)) - 1
        BY <3>3, <3>5
      <4>2. QED
        BY <2>1, <3>2, <4>1, EarlierRanBefore DEF Ran
    <3>6. QED
      BY <3>4, <3>5
  <2>4. QED
    BY <2>2, <2>3
<1>2. QED
  BY <1>1, CdpInvariant, PTL

=============================================================================
