----------------------------- MODULE McpServer ------------------------------
(***************************************************************************)
(* core/McpServer.cpp on top of core/ThreadPool.h: the thread in run()     *)
(* reads lines and answers most of them itself; a tools/call is registered *)
(* in m_activeRequests and handed to the pool, whose workers run the tool  *)
(* and answer; notifications/cancelled flags a registered request; stop()  *)
(* may be called by other threads; the kill switch may be pressed.         *)
(*                                                                         *)
(* A line stands for the message it carries and, when that is a request,   *)
(* for its ActiveRequest.  The pool is the module ThreadPool: its callers  *)
(* are the threads below, its tasks the lines that carry a tools/call.     *)
(***************************************************************************)
EXTENDS Naturals, Sequences, FiniteSets

CONSTANTS
    Lines,      \* the lines the client may send, each at most once
    Kinds,      \* the kinds of message considered, a subset of AllKinds
    Ids,        \* JSON-RPC ids, as m_activeRequests keys them (id.dump())
    IdOf,       \* the id of the request on each line
    Workers,    \* worker threads of the pool
    Reader,     \* the thread in run()
    Stoppers,   \* other threads, which call stop()
    KillSwitch, \* whether Ctrl+Alt+X may be pressed
    NoLine

\* A message, up to what processMessage does with it.
\*   garbled     not JSON                     badEnvelope  no jsonrpc "2.0"
\*   unprintable not JSON, with a byte that is not UTF-8 in what the parser
\*               quotes: the response that quotes it cannot be serialised
\*   ignored     blank, or a notification that changes nothing, or a bad
\*               envelope without id
\*   illTyped    a method that is no string, or params of a wrong type in an
\*               initialize: reading them throws
\*   noMethod    a request without method     unknown      an unknown method
\*   list        tools/list, resources/list, resources/templates/list,
\*               prompts/list                 callNoName   tools/call, no name
\*   callIllTyped  a tools/call whose params have a wrong type
Immediate == {"garbled", "badEnvelope", "illTyped", "noMethod", "ping", "list",
              "unknown", "callNoName", "callIllTyped"}
AllKinds == Immediate \cup {"unprintable", "ignored", "initialize", "call",
                          "cancel"}
Requests == AllKinds \ {"unprintable", "ignored", "cancel"}

ASSUME ServerAssumption ==
    /\ Kinds \subseteq AllKinds
    /\ IdOf \in [Lines -> Ids]
    /\ NoLine \notin Lines
    /\ IsFiniteSet(Workers) /\ Workers # {}
    /\ Reader \notin Stoppers
    /\ KillSwitch \in BOOLEAN

VARIABLES
    tasks, activeTasks, stopping, stopReq, wpc, held, cpc,  \* ThreadPool
    accepted, refused, finished,
    pc,           \* where each thread is in run() or stop()
    cur,          \* the line run() is processing
    kind,         \* history: what each line read turned out to be
    initialized,  \* m_initialized
    running,      \* m_running
    killed,       \* KillSwitch::isTriggered()
    active,       \* m_activeRequests
    cancelled,    \* the requests whose flag and stop source are set
    tpc,          \* where each worker is in the closure of handleToolsCall
    out,          \* the responses written to stdout, in order
    executed,     \* history: the calls whose tool was executed
    cancelAt,     \* history: where a request was when it was flagged
    shared        \* history: the calls whose id another call in flight had

poolVars == <<tasks, activeTasks, stopping, stopReq, wpc, held, cpc, accepted,
              refused, finished>>
readVars == <<cur, kind, initialized>>
flagVars == <<running, killed>>
requestVars == <<active, cancelled, cancelAt, shared>>
taskVars == <<tpc, executed>>
vars == <<poolVars, pc, readVars, flagVars, requestVars, taskVars, out>>

Threads == {Reader} \cup Stoppers

Pool == INSTANCE ThreadPool WITH
            Callers <- Threads, Tasks <- Lines, NoTask <- NoLine

-----------------------------------------------------------------------------
\* run(): before m_running = true, the test of the while, readLineStdin,
\* processMessage, between sendResult and m_initialized = true, between
\* registering and enqueueing, in enqueue, before and in waitIdle.
\* stop(): before m_running = false, before flagging, before and in the
\* pool's stop().  "out": stop() not called yet.  "returned": from run or stop.
ReaderStates == {"start", "loop", "poll", "handle", "initFlag", "enqueue",
                 "enqueued", "drain", "draining"}
StopStates == {"out", "stopFlag", "stopCancel", "stopPool", "joining",
               "returned"}

\* The closure: before the first check, before dispatch, in the tool, before
\* the second check, before sendResult, before the guard erases the request,
\* unwinding after an exception, before the error of the catch block.
TaskStates == {"none", "check", "dispatch", "tool", "recheck", "reply",
               "erase", "unwind", "catch"}

Codes == {"Result", "ParseError", "InvalidRequest", "MethodNotFound",
          "InvalidParams", "InternalError", "NotInitialized",
          "RequestCancelled"}

Init ==
    /\ Pool!Init
    /\ pc = [c \in Threads |-> IF c = Reader THEN "start" ELSE "out"]
    /\ cur = NoLine
    /\ kind = [l \in Lines |-> "unread"]
    /\ initialized = FALSE
    /\ running = FALSE
    /\ killed = FALSE
    /\ active = [i \in Ids |-> NoLine]
    /\ cancelled = {}
    /\ cancelAt = [l \in Lines |-> "never"]
    /\ tpc = [w \in Workers |-> "none"]
    /\ out = <<>>
    /\ executed = {}
    /\ shared = {}

Goto(c, from, to) ==
    /\ pc[c] = from
    /\ pc' = [pc EXCEPT ![c] = to]

Send(l, code) == out' = Append(out, [line |-> l, code |-> code])

-----------------------------------------------------------------------------
(* run(): reading.                                                         *)

RunBegins ==
    /\ Goto(Reader, "start", "loop")
    /\ running' = TRUE
    /\ UNCHANGED <<poolVars, readVars, killed, requestVars, taskVars, out>>

\* while (m_running && ...)
TestRunning ==
    /\ Goto(Reader, "loop", IF running THEN "poll" ELSE "drain")
    /\ UNCHANGED <<poolVars, readVars, flagVars, requestVars, taskVars, out>>

\* readLineStdin polls the kill switch and the pipe, and nothing else.
ReadLine(l, k) ==
    /\ ~killed
    /\ kind[l] = "unread"
    /\ Goto(Reader, "poll", "handle")
    /\ cur' = l
    /\ kind' = [kind EXCEPT ![l] = k]
    /\ UNCHANGED <<poolVars, initialized, flagVars, requestVars, taskVars, out>>

ReadEnds == \* the client closed the pipe
    /\ ~killed
    /\ Goto(Reader, "poll", "drain")
    /\ UNCHANGED <<poolVars, readVars, flagVars, requestVars, taskVars, out>>

ReadKilled ==
    /\ killed
    /\ Goto(Reader, "poll", "drain")
    /\ UNCHANGED <<poolVars, readVars, flagVars, requestVars, taskVars, out>>

PressKill ==
    /\ KillSwitch
    /\ killed' = TRUE
    /\ UNCHANGED <<poolVars, pc, readVars, running, requestVars, taskVars, out>>

-----------------------------------------------------------------------------
(* run(): processMessage.                                                  *)

\* The response to a message that run() answers by itself.
ReplyTo(k) ==
    IF /\ ~initialized
       /\ k \in {"list", "unknown", "call", "callNoName", "callIllTyped"}
    THEN "NotInitialized"
    ELSE CASE k = "garbled" -> "ParseError"
           [] k \in {"badEnvelope", "noMethod"} -> "InvalidRequest"
           [] k \in {"ping", "list"} -> "Result"
           [] k = "unknown" -> "MethodNotFound"
           [] k = "callNoName" -> "InvalidParams"
           [] k \in {"illTyped", "callIllTyped"} -> "InternalError"

Handling(k) == pc[Reader] = "handle" /\ kind[cur] = k

\* Mutant of Ignore: a notification is answered.
AnswerIgnored ==
    /\ Handling("ignored")
    /\ Goto(Reader, "handle", "loop")
    /\ Send(cur, "MethodNotFound")
    /\ UNCHANGED <<poolVars, readVars, flagVars, requestVars, taskVars>>

AnswerNow ==
    /\ \/ \E k \in Immediate : Handling(k)
       \/ Handling("call") /\ ~initialized
    /\ Goto(Reader, "handle", "loop")
    /\ Send(cur, ReplyTo(kind[cur]))
    /\ UNCHANGED <<poolVars, readVars, flagVars, requestVars, taskVars>>

\* Outside the try blocks of run(): the exception leaves run(), and main()
\* destroys the server, whose destructor calls stop().
AnswerThrows ==
    /\ Handling("unprintable")
    /\ Goto(Reader, "handle", "stopFlag")
    /\ UNCHANGED <<poolVars, readVars, flagVars, requestVars, taskVars, out>>

Ignore ==
    /\ Handling("ignored")
    /\ Goto(Reader, "handle", "loop")
    /\ UNCHANGED <<poolVars, readVars, flagVars, requestVars, taskVars, out>>

\* handleInitialize answers first and sets the flag afterwards.
SendInitialize ==
    /\ Handling("initialize")
    /\ Goto(Reader, "handle", "initFlag")
    /\ Send(cur, "Result")
    /\ UNCHANGED <<poolVars, readVars, flagVars, requestVars, taskVars>>

SetInitialized ==
    /\ Goto(Reader, "initFlag", "loop")
    /\ initialized' = TRUE
    /\ UNCHANGED <<poolVars, cur, kind, flagVars, requestVars, taskVars, out>>

Worker(l) == {w \in Workers : held[w] = l}

\* The request l is registered and not yet erased by its ActiveGuard.
InFlight(l) ==
    \/ l = cur /\ pc[Reader] = "enqueue"
    \/ l \in Pool!RangeOf(tasks)
    \/ \E w \in Worker(l) : tpc[w] # "catch"

\* The calls in flight that a new one with the id i shares it with.
SameId(i) == {l \in Lines : InFlight(l) /\ IdOf[l] = i}

\* handleToolsCall: insert_or_assign replaces an entry with the same id.
Register ==
    /\ Handling("call")
    /\ initialized
    /\ Goto(Reader, "handle", "enqueue")
    /\ active' = [active EXCEPT ![IdOf[cur]] = cur]
    /\ shared' = IF SameId(IdOf[cur]) = {} THEN shared
                 ELSE shared \cup SameId(IdOf[cur]) \cup {cur}
    /\ UNCHANGED <<poolVars, readVars, flagVars, cancelled, cancelAt, taskVars,
                   out>>

\* Mutant of EnqueueCall: the reader waits for a free worker.
EnqueueBounded ==
    /\ activeTasks < Cardinality(Workers)
    /\ Pool!Enqueue(Reader, cur)
    /\ Goto(Reader, "enqueue", "enqueued")
    /\ UNCHANGED <<readVars, flagVars, requestVars, taskVars, out>>

EnqueueCall ==
    /\ Pool!Enqueue(Reader, cur)
    /\ Goto(Reader, "enqueue", "enqueued")
    /\ UNCHANGED <<readVars, flagVars, requestVars, taskVars, out>>

\* The pool is stopping: the false that enqueue returns is ignored.
EnqueueRefused ==
    /\ Pool!EnqueueRefused(Reader, cur)
    /\ Goto(Reader, "enqueue", "loop")
    /\ UNCHANGED <<readVars, flagVars, requestVars, taskVars, out>>

\* What has become of a request, for the history cancelAt.
Stage(l) ==
    IF \E w \in Worker(l) : TRUE
    THEN IF \E w \in Worker(l) : tpc[w] \in {"check", "dispatch", "tool", "recheck"}
         THEN "running" ELSE "late"
    ELSE "queued"

\* Sets the flag and the stop source of the requests in S.
Flag(S) ==
    /\ cancelled' = cancelled \cup S
    /\ cancelAt' = [l \in Lines |-> IF l \in S \ cancelled THEN Stage(l)
                                                           ELSE cancelAt[l]]

Registered == {active[i] : i \in Ids} \ {NoLine}

\* Mutant of CancelRequest: the entry is taken out of the map.
CancelTakesOut(i) ==
    /\ Handling("cancel")
    /\ Goto(Reader, "handle", "loop")
    /\ Flag({active[i]} \ {NoLine})
    /\ active' = [active EXCEPT ![i] = NoLine]
    /\ UNCHANGED <<poolVars, readVars, flagVars, shared, taskVars, out>>

\* notifications/cancelled -> cancelRequest: the request is looked up under
\* m_requestsMutex and flagged after the unlock; only run() registers, so the
\* entry cannot change hands in between, and nobody reads the flag of a
\* request that has ended meanwhile.
CancelRequest(i) ==
    /\ Handling("cancel")
    /\ Goto(Reader, "handle", "loop")
    /\ Flag({active[i]} \ {NoLine})
    /\ UNCHANGED <<poolVars, readVars, flagVars, active, shared, taskVars, out>>

-----------------------------------------------------------------------------
(* run() after its loop, and stop().                                       *)

\* Mutant of Drain: no waitIdle().
DrainAtOnce ==
    /\ Goto(Reader, "drain", "stopFlag")
    /\ UNCHANGED <<poolVars, readVars, flagVars, requestVars, taskVars, out>>

Drain ==
    /\ Pool!CallWaitIdle(Reader)
    /\ Goto(Reader, "drain", "draining")
    /\ UNCHANGED <<readVars, flagVars, requestVars, taskVars, out>>

CallStop(c) ==
    /\ c \in Stoppers
    /\ Goto(c, "out", "stopFlag")
    /\ UNCHANGED <<poolVars, readVars, flagVars, requestVars, taskVars, out>>

StopFlag(c) ==
    /\ Goto(c, "stopFlag", "stopCancel")
    /\ running' = FALSE
    /\ UNCHANGED <<poolVars, readVars, killed, requestVars, taskVars, out>>

StopCancelsAll(c) ==
    /\ Goto(c, "stopCancel", "stopPool")
    /\ Flag(Registered)
    /\ UNCHANGED <<poolVars, readVars, flagVars, active, shared, taskVars, out>>

StopPool(c) ==
    /\ Pool!CallStop(c)
    /\ Goto(c, "stopPool", "joining")
    /\ UNCHANGED <<readVars, flagVars, requestVars, taskVars, out>>

\* Where a thread goes on when its call of the pool returns.
AfterPool(s) ==
    CASE s = "enqueued" -> "loop"
      [] s = "draining" -> "stopFlag"
      [] s = "joining" -> "returned"

InPool(c) ==
    /\ Pool!CallerStep(c)
    /\ pc' = [pc EXCEPT ![c] = IF cpc'[c] = "free" THEN AfterPool(@) ELSE @]
    /\ UNCHANGED <<readVars, flagVars, requestVars, taskVars, out>>

-----------------------------------------------------------------------------
(* The workers: the closure of handleToolsCall.                            *)

\* workerLoop, up to the start of a closure and after its end
WorkerInPool(w) ==
    /\ Pool!WorkerStep(w)
    /\ tpc' = [tpc EXCEPT ![w] = IF wpc'[w] = "run" THEN "check" ELSE @]
    /\ UNCHANGED <<pc, readVars, flagVars, requestVars, executed, out>>

TGoto(w, from, to) ==
    /\ tpc[w] = from
    /\ tpc' = [tpc EXCEPT ![w] = to]

\* Both checks: a request found cancelled is answered and given up.
GiveUp(w, at) ==
    /\ held[w] \in cancelled
    /\ TGoto(w, at, "erase")
    /\ Send(held[w], "RequestCancelled")
    /\ UNCHANGED <<poolVars, pc, readVars, flagVars, requestVars, executed>>

GoOn(w, at, to) ==
    /\ held[w] \notin cancelled
    /\ TGoto(w, at, to)
    /\ UNCHANGED <<poolVars, pc, readVars, flagVars, requestVars, executed, out>>

CheckBefore(w) == GiveUp(w, "check") \/ GoOn(w, "check", "dispatch")

\* Mutant of CheckAfter: the second check is missing.
NoCheckAfter(w) ==
    /\ TGoto(w, "recheck", "reply")
    /\ UNCHANGED <<poolVars, pc, readVars, flagVars, requestVars, executed, out>>

CheckAfter(w) == GiveUp(w, "recheck") \/ GoOn(w, "recheck", "reply")

\* ToolRegistry::dispatch: an unknown tool is an error result, and a known one
\* is executed outside the registry's lock.
DispatchUnknown(w) ==
    /\ TGoto(w, "dispatch", "recheck")
    /\ UNCHANGED <<poolVars, pc, readVars, flagVars, requestVars, executed, out>>

Dispatch(w) ==
    /\ TGoto(w, "dispatch", "tool")
    /\ executed' = executed \cup {held[w]}
    /\ UNCHANGED <<poolVars, pc, readVars, flagVars, requestVars, out>>

ToolReturns(w) ==
    /\ TGoto(w, "tool", "recheck")
    /\ UNCHANGED <<poolVars, pc, readVars, flagVars, requestVars, executed, out>>

\* The result of the tool, or its error, is sent; the action delay that
\* follows is time spent before Erase.
SendReply(w) ==
    /\ TGoto(w, "reply", "erase")
    /\ Send(held[w], "Result")
    /\ UNCHANGED <<poolVars, pc, readVars, flagVars, requestVars, executed>>

\* Serialising the result throws (text that is not UTF-8): nothing was sent.
ReplyThrows(w) ==
    /\ TGoto(w, "reply", "unwind")
    /\ UNCHANGED <<poolVars, pc, readVars, flagVars, requestVars, executed, out>>

\* Mutant of EraseEntry: no ActiveGuard.
KeepEntry(w) == UNCHANGED active

\* ActiveGuard erases whatever the map holds under the id.
EraseEntry(w) == active' = [active EXCEPT ![IdOf[held[w]]] = NoLine]

Erase(w) ==
    /\ Pool!TaskReturns(w)
    /\ TGoto(w, "erase", "none")
    /\ EraseEntry(w)
    /\ UNCHANGED <<pc, readVars, flagVars, cancelled, cancelAt, shared,
                   executed, out>>

Unwind(w) ==
    /\ TGoto(w, "unwind", "catch")
    /\ EraseEntry(w)
    /\ UNCHANGED <<poolVars, pc, readVars, flagVars, cancelled, cancelAt,
                   shared, executed, out>>

\* Mutant of Catch: the exception is only logged.
CatchSilently(w) ==
    /\ Pool!TaskReturns(w)
    /\ TGoto(w, "catch", "none")
    /\ UNCHANGED <<pc, readVars, flagVars, requestVars, executed, out>>

Catch(w) ==
    /\ Pool!TaskReturns(w)
    /\ TGoto(w, "catch", "none")
    /\ Send(held[w], "InternalError")
    /\ UNCHANGED <<pc, readVars, flagVars, requestVars, executed>>

-----------------------------------------------------------------------------
\* The condition variables may wake a thread that nobody notified.
SpuriousWakeups ==
    /\ \/ \E c \in Threads : Pool!SpuriousIdleWakeup(c)
       \/ \E w \in Workers : Pool!SpuriousWakeup(w)
    /\ UNCHANGED <<pc, readVars, flagVars, requestVars, taskVars, out>>

ReadSomething == ReadEnds \/ \E l \in Lines, k \in Kinds : ReadLine(l, k)

Process ==
    \/ AnswerNow \/ AnswerThrows \/ Ignore \/ SendInitialize \/ SetInitialized
    \/ Register \/ EnqueueCall \/ EnqueueRefused
    \/ \E i \in Ids : CancelRequest(i)

ReaderStep == RunBegins \/ TestRunning \/ ReadKilled \/ Process \/ Drain

StopStep(c) == StopFlag(c) \/ StopCancelsAll(c) \/ StopPool(c)

TaskStep(w) ==
    \/ CheckBefore(w) \/ Dispatch(w) \/ DispatchUnknown(w)
    \/ CheckAfter(w) \/ SendReply(w) \/ ReplyThrows(w)
    \/ Erase(w) \/ Unwind(w) \/ Catch(w)

Next ==
    \/ ReadSomething \/ ReaderStep \/ PressKill \/ SpuriousWakeups
    \/ \E c \in Threads : CallStop(c) \/ StopStep(c) \/ InPool(c)
    \/ \E w \in Workers : WorkerInPool(w) \/ TaskStep(w) \/ ToolReturns(w)

Spec == Init /\ [][Next]_vars

\* Every thread of the server goes on running.  Nothing is said of tools, of
\* the client, of the keyboard or of the threads that may call stop().
ThreadFairness ==
    /\ WF_vars(ReaderStep)
    /\ \A c \in Threads : WF_vars(StopStep(c)) /\ WF_vars(InPool(c))
    /\ \A w \in Workers : WF_vars(WorkerInPool(w)) /\ WF_vars(TaskStep(w))

\* Every tool returns (each one has a timeout or a bounded amount of work).
ToolFairness == \A w \in Workers : WF_vars(ToolReturns(w))

\* The client sends a line or closes the pipe.
ClientFairness == WF_vars(ReadSomething)

FairSpec == Spec /\ ThreadFairness /\ ClientFairness
-----------------------------------------------------------------------------
(* Properties.                                                             *)

TypeOK ==
    /\ Pool!TypeOK
    /\ pc \in [Threads -> ReaderStates \cup StopStates]
    /\ cur \in Lines \cup {NoLine}
    /\ kind \in [Lines -> Kinds \cup {"unread"}]
    /\ initialized \in BOOLEAN
    /\ running \in BOOLEAN
    /\ killed \in BOOLEAN
    /\ active \in [Ids -> Lines \cup {NoLine}]
    /\ cancelled \in SUBSET Lines
    /\ tpc \in [Workers -> TaskStates]
    /\ out \in Seq([line : Lines, code : Codes])
    /\ executed \in SUBSET Lines
    /\ cancelAt \in [Lines -> {"never", "queued", "running", "late"}]
    /\ shared \in SUBSET Lines

Replies(l) == {n \in 1 .. Len(out) : out[n].line = l}

Request(l) == kind[l] \in Requests

\* A request gets one response at most and anything else gets none, whichever
\* of run(), the two checks, the tool and the catch block answers, and
\* whatever is cancelled or stopped in between.
OneReply ==
    \A l \in Lines :
        /\ Cardinality(Replies(l)) <= 1
        /\ Replies(l) # {} => Request(l)

\* A cancellation that arrives while the call is queued keeps its tool from
\* being executed, and one that arrives before the second check of the
\* closure keeps its result from being sent (McpServer.cpp:381, 391).
CancelHonoured ==
    \A l \in Lines :
        /\ cancelAt[l] = "queued" => l \notin executed
        /\ cancelAt[l] \in {"queued", "running"} =>
              \A n \in Replies(l) : out[n].code # "Result"

\* As long as ids are unique and nobody stops the server, m_activeRequests
\* holds the calls in flight and nothing else: none is out of reach of a
\* cancellation, and no entry outlives its call.
ActiveExact ==
    \A l \in Lines : active[IdOf[l]] = l <=> InFlight(l)

\* With any ids, and whoever stops the server: a call in flight is within
\* reach of a cancellation unless its id was used again while a call that had
\* it was in flight (McpServer.cpp:353, 369), and what the map holds is a call
\* in flight or one that the stopped pool refused.
ActiveUnlessShared ==
    /\ \A l \in Lines : InFlight(l) /\ l \notin shared => active[IdOf[l]] = l
    /\ \A i \in Ids : active[i] # NoLine =>
          InFlight(active[i]) \/ active[i] \in refused

\* A line that ends run() by an exception has been read.
Escaped == \E l \in Lines : kind[l] = "unprintable"

\* run() has left its waitIdle(), or was left by that exception.
Drained == pc[Reader] \in StopStates

\* Before run() stops the pool, every request that was read has been
\* answered: closing stdin, or the kill switch, loses no response.
DrainAnswersAll ==
    Drained /\ ~Escaped => \A l \in Lines : Request(l) => Replies(l) # {}

\* Once run() has returned nothing is written to stdout and no tool is
\* executed any more, also when another thread is in stop(), whose join run()
\* then skips: main() tears the tools and the streams down.
QuietAfterRun ==
    [][pc[Reader] = "returned" /\ ~Escaped
         => UNCHANGED <<out, executed, active>>]_vars

\* If tools return, every request that is read is answered; when an exception
\* has ended run(), every one but those that no worker has taken up by the end
\* of stop().
EveryRequestAnswered ==
    ToolFairness =>
        \A l \in Lines :
            Request(l) ~>
                \/ Replies(l) # {}
                \/ /\ Escaped /\ pc[Reader] = "returned"
                   /\ l \in Pool!RangeOf(tasks)

\* If tools return, run() returns once the client is done or the kill switch is
\* pressed.
RunEnds == ToolFairness => <>(pc[Reader] = "returned")

\* "Reading from stdin never blocks on tool execution" (McpServer.h:30): even if
\* tools never return, the reader comes back to reading, or to its end.
ReaderNeverBlocks ==
    pc[Reader] \in {"handle", "initFlag", "enqueue", "enqueued", "loop"} ~>
        pc[Reader] \in {"poll", "drain", "stopFlag"}

\* run() serves "until stdin closes or stop() is called" (McpServer.h:54): if
\* tools return, it returns once a stop() by another thread has.
StopEndsRun ==
    ToolFairness =>
        \A c \in Stoppers : pc[c] = "returned" ~> pc[Reader] = "returned"

=============================================================================
