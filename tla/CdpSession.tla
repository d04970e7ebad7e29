----------------------------- MODULE CdpSession -----------------------------
(***************************************************************************)
(* The browser of platform/browser/BrowserAutomation.cpp: one WebSocket to  *)
(* one page, over which every caller sends commands and waits for their     *)
(* answers.  Nothing guards the socket, the command id or m_connected.  The  *)
(* tools of tools/BrowserTools.cpp are sequences of commands.               *)
(*                                                                         *)
(* The page is external: it runs commands in order, answers each at any     *)
(* time with a result or an error, sends events as it likes (a frame with   *)
(* id 0, which also stands for one that does not parse), and may go away.   *)
(* A message comes in one piece or in two, with any time between them.       *)
(* A clock tick is a part of the 10 seconds a command may take.             *)
(***************************************************************************)
EXTENDS Integers, Sequences

CONSTANTS Callers,      \* threads that execute a browser tool, one call each
          ToolsOf,      \* the tools each of them may call
          Limit,        \* sendCdpCommand gives up after Limit ticks
          WaitLimit,    \* timeoutMs of browserWaitFor, in ticks
          MaxFrames,    \* bound on the frames on their way to the client
          Launchable    \* m_browserExe is not empty

ASSUME CdpAssumption ==
    /\ {Limit, WaitLimit, MaxFrames} \subseteq Nat \ {0}
    /\ Launchable \in BOOLEAN
    /\ ToolsOf \in [Callers -> SUBSET {"navigate", "eval", "screenshot", "click", "type",
                                    "read", "wait"}]

\* The commands of each tool.  "pos" asks for the place of an element, "probe"
\* whether it exists; "key" is one character of the text of typeInto.
Plans ==
    [navigate |-> <<"go">>, eval |-> <<"eval">>, screenshot |-> <<"shot">>,
     click |-> <<"pos", "click">>, type |-> <<"focus", "key", "key">>,
     read |-> <<"go", "eval">>, wait |-> <<"probe">>]

\* Steps whose failure does not end the call.
Optional == {"pos", "probe"}
Steps == Optional \cup {"go", "eval", "shot", "click", "focus", "key"}

\* What the page may answer, as far as a tool looks at it.
ValuesOf(step) ==
    CASE step = "probe" -> {"true", "false"}
      [] step = "shot" -> {"data", "empty"}
      [] OTHER -> {"any"}

VARIABLES boot,       \* where the constructor is
          page,       \* "absent", "up", or "gone" for good
          connected,  \* m_connected; the handle is set when it first is
          msgId,      \* m_msgId
          toPage,     \* commands sent and not yet run
          toClient,   \* messages not yet received to their end
          taken,      \* who has received the first piece of the first of them
          pc, tool,   \* where a caller is, and in which tool
          left,       \* the steps still to do, the current one included
          cmd,        \* the command in hand
          age,        \* ticks since it was sent
          receipt,    \* of wsReceive: its timeout, the ticks since it last got
                      \* something, and the pieces it has
          waited,     \* ticks since browserWaitFor began to poll
          answer,     \* what sendCdpCommand has returned
          result,     \* what the tool has returned
          sent,       \* history: the ids of the commands a caller has sent
          log         \* history: commands the page has run, in order

sessionVars == <<boot, page, connected, msgId>>
callVars == <<tool, left, cmd, age, waited, answer, result>>
wire == <<toPage, toClient, sent, log>>
pieces == <<taken, receipt>>
vars == <<sessionVars, wire, pieces, pc, callVars>>

Nothing(timeout) == [timeout |-> timeout, quiet |-> 0, count |-> 0]
None == [by |-> "none"]
Failed == [ok |-> FALSE]
Answered(v, command) == [ok |-> TRUE, value |-> v, to |-> command]

Init ==
    /\ boot = "connect" /\ page \in {"absent", "up"}
    /\ connected = FALSE /\ msgId = 1
    /\ toPage = <<>> /\ toClient = <<>> /\ log = <<>>
    /\ sent = [c \in Callers |-> <<>>]
    /\ pc = [c \in Callers |-> "idle"]
    /\ tool \in {f \in [Callers -> DOMAIN Plans] : \A c \in Callers : f[c] \in ToolsOf[c]}
    /\ left = [c \in Callers |-> Plans[tool[c]]]
    /\ cmd = [c \in Callers |-> None]
    /\ taken = {} /\ receipt = [c \in Callers |-> Nothing(0)]
    /\ age = [c \in Callers |-> 0] /\ waited = [c \in Callers |-> 0]
    /\ answer = [c \in Callers |-> Failed]
    /\ result = [c \in Callers |-> "none"]

(***************************************************************************)
(* The constructor: connectToPage finds a page or not; if not, the browser   *)
(* is launched, and two seconds later there is one more try.  Nothing ever   *)
(* connects again.                                                         *)
(***************************************************************************)
Connects == page = "up"

Connect ==
    /\ boot \in {"connect", "again"}
    /\ connected' = Connects
    /\ boot' = IF boot = "connect" /\ ~Connects /\ Launchable
               THEN "launch" ELSE "done"
    /\ UNCHANGED <<page, msgId, wire, pieces, pc, callVars>>

Launch ==
    /\ boot = "launch" /\ boot' = "again"
    /\ \/ page = "absent" /\ page' = "up"
       \/ UNCHANGED page
    /\ UNCHANGED <<connected, msgId, wire, pieces, pc, callVars>>

(***************************************************************************)
(* sendCdpCommand.                                                         *)
(***************************************************************************)
CurrentStep(c) == Head(left[c])
Go(c, from, to) == pc[c] = from /\ pc' = [pc EXCEPT ![c] = to]

\* sendCdpCommand returns; the caller goes on in Proceed.
Returns(c, reply) ==
    /\ pc' = [pc EXCEPT ![c] = "answered"]
    /\ answer' = [answer EXCEPT ![c] = reply]
    /\ age' = [age EXCEPT ![c] = 0]

NotConnected(c) ==
    /\ boot = "done" /\ pc[c] = "idle" /\ ~connected
    /\ Returns(c, Failed)
    /\ UNCHANGED <<sessionVars, wire, pieces, tool, left, cmd, waited, result>>

\* m_msgId++ is a read and a write that another caller may come between.
ReadId(c) ==
    /\ boot = "done" /\ connected
    /\ Go(c, "idle", "send")
    /\ cmd' = [cmd EXCEPT ![c] = [id |-> msgId, by |-> c, step |-> CurrentStep(c),
                                  nth |-> Len(sent[c]) + 1]]
    /\ UNCHANGED <<sessionVars, wire, pieces, tool, left, age, waited, answer, result>>

Send(c) ==
    /\ page = "up"
    /\ Go(c, "send", "test")
    /\ msgId' = cmd[c].id + 1
    /\ toPage' = Append(toPage, cmd[c])
    /\ sent' = [sent EXCEPT ![c] = Append(@, cmd[c].id)]
    /\ age' = [age EXCEPT ![c] = 0]
    /\ UNCHANGED <<boot, page, connected, toClient, log, pieces, tool, left, cmd, waited,
                   answer, result>>

\* The socket is gone, or another send is pending, and the connection is given up;
\* or dump() throws on a key that is one byte of a longer character, which ends
\* the call as a failed key does.
SendFails(c) ==
    /\ pc[c] = "send"
    /\ msgId' = cmd[c].id + 1
    /\ \/ /\ page = "gone" \/ \E d \in Callers \ {c} : pc[d] = "send"
          /\ connected' = FALSE
       \/ cmd[c].step = "key" /\ UNCHANGED connected
    /\ Returns(c, Failed)
    /\ UNCHANGED <<boot, page, wire, pieces, tool, left, cmd, waited, result>>

\* Mutant of OutOfTime: neither the loop nor the receive knows the time.
NeverOutOfTime(c) == FALSE

\* The head of the loop: "CDP timeout", which leaves the connection up.
OutOfTime(c) == age[c] >= Limit

GiveUp(c) ==
    /\ pc[c] = "test" /\ OutOfTime(c)
    /\ Returns(c, Failed)
    /\ UNCHANGED <<sessionVars, wire, pieces, tool, left, cmd, waited, result>>

AwaitFrame(c) ==
    /\ ~OutOfTime(c)
    /\ Go(c, "test", "receive")
    /\ receipt' = [receipt EXCEPT ![c] = Nothing(Limit - age[c])]
    /\ UNCHANGED <<sessionVars, wire, taken, callVars>>

\* The first piece of a message: wsReceive goes on with its full timeout, however
\* long the command has taken.
ReceivePiece(c) ==
    /\ pc[c] = "receive" /\ toClient # <<>> /\ taken = {}
    /\ taken' = {c}
    /\ receipt' = [receipt EXCEPT ![c] = [timeout |-> @.timeout, quiet |-> 0,
                                         count |-> IF @.count = 0 THEN 1 ELSE 2]]
    /\ UNCHANGED <<sessionVars, wire, pc, callVars>>

\* What is received is one message, and not pieces of several.
Whole(c) ==
    \/ taken = {} /\ receipt[c].count = 0
    \/ taken = {c} /\ receipt[c].count = 1

\* Mutant of Matches: the first frame with an id is the answer.
MatchesAnyId(frame, c) == frame.id # 0

Matches(frame, c) == frame.id = cmd[c].id

\* The end of a message.  What does not parse, or is not the answer, is dropped,
\* also when another caller waits for it.
Receive(c) ==
    /\ pc[c] = "receive" /\ toClient # <<>>
    /\ toClient' = Tail(toClient)
    /\ LET frame == Head(toClient) IN
       IF Whole(c) /\ Matches(frame, c)
       THEN Returns(c, frame.reply)
       ELSE pc' = [pc EXCEPT ![c] = "test"] /\ UNCHANGED <<answer, age>>
    /\ taken' = {} /\ receipt' = [receipt EXCEPT ![c] = Nothing(0)]
    /\ UNCHANGED <<sessionVars, toPage, sent, log, tool, left, cmd, waited, result>>

\* The receive times out, in the middle of a message too, finds the socket closed,
\* or is refused because another one is pending: whatever the error, the connection
\* is given up.
ReceiveFails(c) ==
    /\ pc[c] = "receive"
    /\ \/ /\ receipt[c].quiet >= receipt[c].timeout
          /\ toClient = <<>> \/ taken # {}
       \/ page = "gone"
       \/ \E d \in Callers \ {c} : pc[d] = "receive"
    /\ connected' = FALSE
    /\ Returns(c, Failed)
    /\ receipt' = [receipt EXCEPT ![c] = Nothing(0)]
    /\ UNCHANGED <<boot, page, msgId, wire, taken, tool, left, cmd, waited, result>>

(***************************************************************************)
(* The tools, after each command.                                          *)
(***************************************************************************)
\* browserWaitFor wants true, captureScreenshot some data.
Succeeded(c) ==
    /\ answer[c].ok
    /\ CurrentStep(c) = "probe" => answer[c].value = "true"
    /\ CurrentStep(c) = "shot" => answer[c].value # "empty"

\* Mutant of EndsCall: typeInto does not look at what the focus script returned.
EndsCallAfterFocus(c) == ~Succeeded(c) /\ CurrentStep(c) \notin Optional \cup {"focus"}

EndsCall(c) == ~Succeeded(c) /\ CurrentStep(c) \notin Optional

\* poll_until tries again after a sleep, unless the time is up.
PollsAgain(c) == CurrentStep(c) = "probe" /\ ~Succeeded(c) /\ waited[c] < WaitLimit

Poll(c) ==
    /\ PollsAgain(c)
    /\ Go(c, "answered", "sleep")
    /\ UNCHANGED <<sessionVars, wire, pieces, callVars>>

\* A sleep counts as a tick.
Wake(c) ==
    /\ Go(c, "sleep", "idle")
    /\ waited' = [waited EXCEPT ![c] = @ + 1]
    /\ UNCHANGED <<sessionVars, wire, pieces, tool, left, cmd, age, answer, result>>

Proceed(c) ==
    /\ pc[c] = "answered" /\ ~PollsAgain(c)
    /\ IF EndsCall(c) \/ Len(left[c]) = 1
       THEN /\ pc' = [pc EXCEPT ![c] = "done"]
            /\ result' = [result EXCEPT ![c] = IF Succeeded(c) THEN "ok" ELSE "err"]
            /\ UNCHANGED left
       ELSE /\ pc' = [pc EXCEPT ![c] = "idle"]
            /\ left' = [left EXCEPT ![c] = Tail(@)]
            /\ UNCHANGED result
    /\ cmd' = [cmd EXCEPT ![c] = None]
    /\ answer' = [answer EXCEPT ![c] = Failed]
    /\ UNCHANGED <<sessionVars, wire, pieces, tool, age, waited>>

(***************************************************************************)
(* The page and time.                                                      *)
(***************************************************************************)
Deliver(frame) ==
    /\ Len(toClient) < MaxFrames
    /\ toClient' = Append(toClient, frame)

PageRuns ==
    /\ page = "up" /\ toPage # <<>>
    /\ LET command == Head(toPage) IN
       \E reply \in {Failed} \cup
                    {Answered(v, command) : v \in ValuesOf(command.step)} :
          /\ Deliver([id |-> command.id, reply |-> reply])
          /\ log' = Append(log, [command |-> command, ok |-> reply.ok])
    /\ toPage' = Tail(toPage)
    /\ UNCHANGED <<sessionVars, sent, pieces, pc, callVars>>

PageEvent ==
    /\ page = "up"
    /\ Deliver([id |-> 0, reply |-> Failed])
    /\ UNCHANGED <<sessionVars, toPage, sent, log, pieces, pc, callVars>>

PageGoes ==
    /\ page = "up" /\ page' = "gone"
    /\ UNCHANGED <<boot, connected, msgId, wire, pieces, pc, callVars>>

\* Time passes for those inside a command; a receive whose time is up has
\* ended before.
Receiving(c) == pc[c] = "receive" /\ receipt[c].quiet < receipt[c].timeout
InCommand(c) == (pc[c] = "test" /\ age[c] < Limit) \/ Receiving(c)

Tick ==
    /\ \E c \in Callers : InCommand(c)
    /\ \A c \in Callers : pc[c] = "receive" => Receiving(c)
    /\ age' = [c \in Callers |->
                  age[c] + IF InCommand(c) /\ age[c] < Limit THEN 1 ELSE 0]
    /\ receipt' = [c \in Callers |->
                      IF Receiving(c) THEN [receipt[c] EXCEPT !.quiet = @ + 1] ELSE receipt[c]]
    /\ waited' = [c \in Callers |->
                     waited[c] + IF /\ InCommand(c) /\ CurrentStep(c) = "probe"
                                    /\ waited[c] < WaitLimit
                                 THEN 1 ELSE 0]
    /\ UNCHANGED <<sessionVars, wire, taken, pc, tool, left, cmd, answer, result>>

CallerStep(c) ==
    \/ NotConnected(c) \/ ReadId(c) \/ Send(c) \/ SendFails(c) \/ GiveUp(c)
    \/ AwaitFrame(c) \/ ReceivePiece(c) \/ Receive(c) \/ ReceiveFails(c)
    \/ Poll(c) \/ Wake(c) \/ Proceed(c)

PageStep == PageRuns \/ PageEvent \/ PageGoes

Next ==
    \/ Connect \/ Launch
    \/ \E c \in Callers : CallerStep(c)
    \/ PageStep \/ Tick

Spec == Init /\ [][Next]_vars

\* Threads go on and time passes; the page owes nothing.
FairSpec ==
    /\ Spec
    /\ WF_vars(Connect) /\ WF_vars(Launch) /\ WF_vars(Tick)
    /\ \A c \in Callers : WF_vars(CallerStep(c))

(***************************************************************************)
(* Properties.                                                             *)
(***************************************************************************)
Commands == [id : Nat, by : Callers, step : Steps, nth : Nat]

TypeOK ==
    /\ boot \in {"connect", "launch", "again", "done"}
    /\ page \in {"absent", "up", "gone"}
    /\ connected \in BOOLEAN /\ msgId \in Nat
    /\ toPage \in Seq(Commands)
    /\ taken \subseteq Callers
    /\ receipt \in [Callers -> [timeout : 0 .. Limit, quiet : 0 .. Limit, count : 0 .. 2]]
    /\ cmd \in [Callers -> Commands \cup {None}]
    /\ pc \in [Callers -> {"idle", "send", "test", "receive", "answered", "sleep", "done"}]
    /\ \A c \in Callers : /\ age[c] \in 0 .. Limit /\ waited[c] \in 0 .. WaitLimit
                          /\ result[c] \in {"none", "ok", "err"}

\* Two callers were in m_msgId++ at once, and two commands have one id.
IdsClash ==
    \E c, d \in Callers : \E m \in DOMAIN sent[c], n \in DOMAIN sent[d] :
        <<c, m>> # <<d, n>> /\ sent[c][m] = sent[d][n]

\* The answer a command returns is the page's answer to that very command, and
\* not a late one to a command that was given up, to another caller's, or an
\* event, as long as no two commands got the same id (BrowserAutomation.cpp:283).
OwnAnswer ==
    ~IdsClash => \A c \in Callers :
        (pc[c] = "answered" /\ answer[c].ok) => answer[c].to = cmd[c]

\* The n-th command that the page has run is the k-th of caller c.
Ran(c, k, n) == log[n].command.by = c /\ log[n].command.nth = k

\* The page is asked for the steps of a tool in order, none twice and none
\* after one that failed, and a tool that reports success had every step
\* carried out: a lost, late or failed answer never turns into a repeated or a
\* skipped key (typeInto, clickSelector, navigate then evalJs).  browserWaitFor
\* repeats its one command.
StepsAsPlanned ==
    \A c \in {d \in Callers : tool[d] # "wait"} :
        LET plan == Plans[tool[c]] IN
        /\ \A n \in DOMAIN log : log[n].command.by = c =>
              LET k == log[n].command.nth IN
              /\ k <= Len(plan) /\ log[n].command.step = plan[k]
              /\ \A i \in 1 .. n - 1 : ~Ran(c, k, i)
              /\ \A j \in 1 .. k - 1 : \E i \in 1 .. n - 1 :
                    Ran(c, j, i) /\ (log[i].ok \/ plan[j] \in Optional \/ IdsClash)
        /\ result[c] = "ok" /\ ~IdsClash =>
              \A k \in DOMAIN plan : \E n \in DOMAIN log : Ran(c, k, n)

\* Every call returns, whether the page answers, is silent, floods the socket
\* with events, is gone or never was there.
CallsEnd == <>(\A c \in Callers : pc[c] = "done")

=============================================================================
