-------------------------- MODULE McpServerProofs ---------------------------
(***************************************************************************)
(* First, the server uses its pool as the pool requires, for every value   *)
(* of the constants (StepInPool).  The step that could go wrong is   *)
(* enqueue, which the pool allows once per task: the invariant follows a   *)
(* line from the client to its enqueue.  Then, from what ThreadPoolProofs  *)
(* proves of such a pool, what the server promises: an answer to each      *)
(* request, cancellations that are honoured, and nothing lost at the end.  *)
(***************************************************************************)
EXTENDS McpServer, FiniteSetTheorems, SequenceTheorems, TLAPS

Arriving == {"handle", "initFlag", "enqueue"}
Calling == {"enqueued", "draining", "joining"}

\* A line that is unread or on its way has not been handed to the pool, and a
\* thread inside a call of the pool is where it waits for that call.
LineInv ==
    /\ cur \in Lines \cup {NoLine}
    /\ kind \in [Lines -> Kinds \cup {"unread"}]
    /\ accepted \in Seq(Lines)
    /\ refused \in SUBSET Lines
    /\ pc \in [Threads -> ReaderStates \cup StopStates]
    /\ cpc \in [Threads -> Pool!CallerStates]
    /\ \A l \in Lines : kind[l] = "unread" => ~Pool!Submitted(l)
    /\ pc[Reader] \in Arriving =>
          cur \in Lines /\ kind[cur] # "unread" /\ ~Pool!Submitted(cur)
    /\ \A c \in Threads : cpc[c] # "free" => pc[c] \in Calling

USE DEF ReaderStates, StopStates

\* The elements of a sequence with one more element.
LEMMA AppendedLines ==
    ASSUME NEW s \in Seq(Lines), NEW l \in Lines
    PROVE  /\ Append(s, l) \in Seq(Lines)
           /\ Pool!RangeOf(Append(s, l)) = Pool!RangeOf(s) \cup {l}
<1>1. Len(Append(s, l)) = Len(s) + 1 /\ Append(s, l)[Len(s) + 1] = l
  OBVIOUS
<1>2. \A i \in 1 .. Len(s) : Append(s, l)[i] = s[i]
  OBVIOUS
<1>3. 1 .. Len(s) + 1 = (1 .. Len(s)) \cup {Len(s) + 1}
  OBVIOUS
<1>. QED  BY <1>1, <1>2, <1>3 DEF Pool!RangeOf

\* The reader's thread is one of the threads, and a line that is read is of a
\* known kind.
LEMMA ReaderIsThread == Reader \in Threads /\ "unread" \notin Kinds
BY ServerAssumption DEF Threads, AllKinds, Immediate

\* Initially nothing has been read and nothing submitted.
LEMMA LineInit == Init => LineInv
<1>. SUFFICES ASSUME Init PROVE LineInv
  OBVIOUS
<1>1. accepted = <<>> /\ refused = {} /\ cpc = [c \in Threads |-> "free"]
  BY DEF Init, Pool!Init
<1>2. \A l \in Lines : ~Pool!Submitted(l)
  BY <1>1 DEF Pool!Submitted, Pool!RangeOf
<1>. QED
  BY <1>1, <1>2, ReaderIsThread DEF Init, LineInv, Pool!CallerStates, Arriving

-----------------------------------------------------------------------------
(* LineInv is preserved.                                                   *)

\* Of what LineInv speaks about, the pool's own steps change cpc alone, and
\* no step of a worker takes a caller into or out of a call.
LEMMA PoolCallerFrame ==
    ASSUME NEW c \in Threads, Pool!CallerStep(c) \/ Pool!SpuriousIdleWakeup(c),
           cpc \in [Threads -> Pool!CallerStates]
    PROVE  /\ UNCHANGED <<accepted, refused>>
           /\ cpc[c] # "free"
           /\ cpc' \in [Threads -> Pool!CallerStates]
           /\ \A d \in Threads \ {c} : cpc'[d] # "free" => cpc[d] # "free"
<1>. USE DEF Pool!history, Pool!workerVars, Pool!Goto, Pool!CallerStates
<1>1. CASE Pool!StopWakesWaiters(c)
  BY <1>1 DEF Pool!StopWakesWaiters, Pool!WakeIdleWaiters
<1>2. CASE \E w \in Workers : Pool!RequestStop(c, w)
  BY <1>2 DEF Pool!RequestStop
<1>3. CASE \/ Pool!NotifyOne(c) \/ Pool!WaitIdleReturns(c)
          \/ Pool!WaitIdleSleeps(c) \/ Pool!SpuriousIdleWakeup(c)
  BY <1>3 DEF Pool!NotifyOne, Pool!WaitIdleReturns, Pool!WaitIdleSleeps,
              Pool!SpuriousIdleWakeup
<1>4. CASE \/ Pool!StopAgain(c) \/ Pool!StopFirst(c)
          \/ Pool!StopWakesWorkers(c) \/ Pool!Join(c)
  BY <1>4 DEF Pool!StopAgain, Pool!StopFirst, Pool!StopWakesWorkers, Pool!Join
<1>. QED  BY <1>1, <1>2, <1>3, <1>4 DEF Pool!CallerStep

LEMMA PoolWorkerFrame ==
    ASSUME NEW w \in Workers,
           \/ Pool!WorkerStep(w) \/ Pool!TaskReturns(w) \/ Pool!SpuriousWakeup(w),
           cpc \in [Threads -> Pool!CallerStates]
    PROVE  /\ UNCHANGED <<accepted, refused>>
           /\ cpc' \in [Threads -> Pool!CallerStates]
           /\ \A d \in Threads : cpc'[d] # "free" => cpc[d] # "free"
<1>. USE DEF Pool!history, Pool!CallerStates
<1>1. CASE Pool!NotifyIdle(w)
  BY <1>1 DEF Pool!NotifyIdle, Pool!WakeIdleWaiters
<1>2. CASE \/ Pool!LoopTest(w) \/ Pool!Sleep(w) \/ Pool!ExitEmpty(w)
          \/ Pool!Take(w) \/ Pool!Decrement(w) \/ Pool!SpuriousWakeup(w)
          \/ Pool!TaskReturns(w)
  BY <1>2 DEF Pool!LoopTest, Pool!Sleep, Pool!ExitEmpty, Pool!Take,
              Pool!Decrement, Pool!SpuriousWakeup, Pool!TaskReturns
<1>. QED  BY <1>1, <1>2 DEF Pool!WorkerStep

\* A step that hands nothing to the pool, reads nothing and takes no thread to
\* where a line arrives, unless the reader was there already with its line.
LEMMA LineFrame ==
    ASSUME LineInv, UNCHANGED <<cur, kind, accepted, refused>>,
           pc' \in [Threads -> ReaderStates \cup StopStates],
           cpc' \in [Threads -> Pool!CallerStates],
           pc'[Reader] \in Arriving => pc[Reader] \in Arriving,
           \A c \in Threads : cpc'[c] # "free" => pc'[c] \in Calling
    PROVE  LineInv'
BY DEF LineInv, Pool!Submitted, Pool!CallerStates, Pool!RangeOf

\* The steps of run(), stop() and the closure outside the pool.
LEMMA LinePlainSteps ==
    ASSUME LineInv, UNCHANGED <<cpc, accepted, refused, cur, kind>>,
           \/ UNCHANGED pc
           \/ \E c \in Threads, from, to \in ReaderStates \cup StopStates :
                 /\ Goto(c, from, to)
                 /\ from \notin Calling
                 /\ to \in Arriving => from \in Arriving
    PROVE  LineInv'
<1>1. CASE UNCHANGED pc
  BY <1>1, LineFrame DEF LineInv
<1>2. ASSUME NEW c \in Threads, NEW from \in ReaderStates \cup StopStates,
             NEW to \in ReaderStates \cup StopStates,
             Goto(c, from, to), from \notin Calling,
             to \in Arriving => from \in Arriving
      PROVE  LineInv'
  <2>1. pc \in [Threads -> ReaderStates \cup StopStates] /\ cpc[c] = "free"
    BY <1>2 DEF LineInv, Goto
  <2>2. pc'[c] = to /\ \A d \in Threads \ {c} : pc'[d] = pc[d]
    BY <1>2, <2>1 DEF Goto
  <2>3. pc' \in [Threads -> ReaderStates \cup StopStates]
    BY <1>2, <2>1 DEF Goto
  <2>4. pc'[Reader] \in Arriving => pc[Reader] \in Arriving
    BY <1>2, <2>2, ReaderIsThread DEF Goto
  <2>5. \A d \in Threads : cpc'[d] # "free" => pc'[d] \in Calling
    BY <2>1, <2>2 DEF LineInv
  <2>. QED  BY <2>3, <2>4, <2>5, LineFrame DEF LineInv
<1>. QED  BY <1>1, <1>2

\* A line that is read was unread, hence never submitted.
LEMMA LineRead ==
    ASSUME LineInv, NEW l \in Lines, NEW k \in Kinds, ReadLine(l, k)
    PROVE  LineInv'
<1>1. /\ UNCHANGED <<accepted, refused, cpc>>
      /\ cur' = l
      /\ kind' = [kind EXCEPT ![l] = k]
      /\ ~Pool!Submitted(l)
      /\ k # "unread"
  BY ReaderIsThread DEF ReadLine, poolVars, LineInv
<1>2. pc \in [Threads -> ReaderStates \cup StopStates]
  BY DEF LineInv
<1>3. pc' = [pc EXCEPT ![Reader] = "handle"] /\ pc[Reader] = "poll"
  BY DEF ReadLine, Goto
<1>4. pc' \in [Threads -> ReaderStates \cup StopStates]
  BY <1>2, <1>3
<1>5. \A c \in Threads : cpc'[c] # "free" => pc'[c] \in Calling
  BY <1>1, <1>2, <1>3, ReaderIsThread DEF LineInv, Calling
<1>6. kind' \in [Lines -> Kinds \cup {"unread"}] /\ kind'[cur'] # "unread"
  BY <1>1 DEF LineInv
<1>7. \A m \in Lines : kind'[m] = "unread" => ~(Pool!Submitted(m))'
  BY <1>1 DEF LineInv, Pool!Submitted, Pool!RangeOf
<1>8. ~(Pool!Submitted(l))'
  BY <1>1 DEF Pool!Submitted, Pool!RangeOf
<1>. QED  BY <1>1, <1>4, <1>5, <1>6, <1>7, <1>8 DEF LineInv, Pool!Submitted,
             Pool!RangeOf

\* Once handed over, a line is neither unread nor on its way any more.
LEMMA LineEnqueued ==
    ASSUME LineInv, EnqueueCall \/ EnqueueRefused
    PROVE  LineInv'
<1>1. /\ pc[Reader] = "enqueue"
      /\ cur \in Lines /\ kind[cur] # "unread"
      /\ UNCHANGED <<cur, kind>>
  BY DEF EnqueueCall, EnqueueRefused, Goto, LineInv, Arriving, readVars
<1>2. /\ accepted' \in Seq(Lines) /\ refused' \in SUBSET Lines
      /\ \A l \in Lines \ {cur} : Pool!Submitted(l)' => Pool!Submitted(l)
      /\ cpc' \in [Threads -> Pool!CallerStates]
      /\ \A c \in Threads \ {Reader} : cpc'[c] = cpc[c]
  <2>1. CASE EnqueueCall
    <3>1. accepted' = Append(accepted, cur) /\ refused' = refused
      BY <2>1 DEF EnqueueCall, Pool!Enqueue
    <3>2. cpc' = [cpc EXCEPT ![Reader] = "enqueued"]
      BY <2>1 DEF EnqueueCall, Pool!Enqueue, Pool!Goto
    <3>3. /\ accepted' \in Seq(Lines)
          /\ Pool!RangeOf(accepted') = Pool!RangeOf(accepted) \cup {cur}
      BY <1>1, <3>1, AppendedLines DEF LineInv
    <3>4. \A l \in Lines \ {cur} : Pool!Submitted(l)' => Pool!Submitted(l)
      BY <3>1, <3>3 DEF Pool!Submitted
    <3>. QED  BY <3>1, <3>2, <3>3, <3>4, ReaderIsThread
              DEF LineInv, Pool!CallerStates
  <2>2. CASE EnqueueRefused
    <3>1. /\ accepted' = accepted /\ refused' = refused \cup {cur}
          /\ cpc' = cpc
      BY <2>2 DEF EnqueueRefused, Pool!EnqueueRefused
    <3>. QED  BY <1>1, <3>1 DEF LineInv, Pool!Submitted, Pool!RangeOf
  <2>. QED  BY <2>1, <2>2
<1>3. /\ pc' \in [Threads -> ReaderStates \cup StopStates]
      /\ pc'[Reader] \notin Arriving
      /\ \A c \in Threads : cpc'[c] # "free" => pc'[c] \in Calling
  <2>1. CASE EnqueueCall
    <3>1. pc' = [pc EXCEPT ![Reader] = "enqueued"]
      BY <2>1 DEF EnqueueCall, Goto
    <3>. QED  BY <3>1, <1>2, ReaderIsThread DEF LineInv, Calling, Arriving
  <2>2. CASE EnqueueRefused
    <3>1. pc' = [pc EXCEPT ![Reader] = "loop"] /\ cpc' = cpc
          /\ cpc[Reader] = "free"
      BY <2>2 DEF EnqueueRefused, Pool!EnqueueRefused, Goto
    <3>. QED  BY <3>1, <1>2, ReaderIsThread DEF LineInv, Calling, Arriving
  <2>. QED  BY <2>1, <2>2
<1>. QED  BY <1>1, <1>2, <1>3 DEF LineInv

\* A thread that calls the pool goes to where it waits for that call.
LEMMA LineCalls ==
    ASSUME LineInv, NEW c \in Threads,
           \/ c = Reader /\ Drain
           \/ StopPool(c)
    PROVE  LineInv'
<1>1. UNCHANGED <<cur, kind, accepted, refused>>
  BY DEF Drain, StopPool, readVars, Pool!CallWaitIdle, Pool!CallStop,
         Pool!history
<1>2. /\ pc' \in [Threads -> ReaderStates \cup StopStates]
      /\ pc'[c] \in Calling
      /\ \A d \in Threads \ {c} : pc'[d] = pc[d]
  BY DEF Drain, StopPool, Goto, LineInv, Calling
<1>3. /\ cpc' \in [Threads -> Pool!CallerStates]
      /\ \A d \in Threads \ {c} : cpc'[d] = cpc[d]
  BY DEF Drain, StopPool, Pool!CallWaitIdle, Pool!CallStop, Pool!Goto, LineInv,
         Pool!CallerStates
<1>4. pc'[Reader] \in Arriving => pc[Reader] \in Arriving
  BY <1>2, ReaderIsThread DEF Arriving, Calling
<1>5. \A d \in Threads : cpc'[d] # "free" => pc'[d] \in Calling
  BY <1>2, <1>3 DEF LineInv
<1>. QED  BY <1>1, <1>2, <1>3, <1>4, <1>5, LineFrame

\* A thread inside a call goes on, or returns to where it called from.
LEMMA LineInPool ==
    ASSUME LineInv, NEW c \in Threads, InPool(c)
    PROVE  LineInv'
<1>1. /\ Pool!CallerStep(c)
      /\ pc' = [pc EXCEPT ![c] = IF cpc'[c] = "free" THEN AfterPool(pc[c])
                                                     ELSE pc[c]]
      /\ UNCHANGED <<cur, kind>>
  BY DEF InPool, readVars
<1>2. cpc \in [Threads -> Pool!CallerStates]
  BY DEF LineInv
<1>3. /\ UNCHANGED <<accepted, refused>>
      /\ cpc[c] # "free"
      /\ cpc' \in [Threads -> Pool!CallerStates]
      /\ \A d \in Threads \ {c} : cpc'[d] # "free" => cpc[d] # "free"
  BY <1>1, <1>2, PoolCallerFrame
<1>4. pc[c] \in Calling /\ AfterPool(pc[c]) \in {"loop", "stopFlag", "returned"}
  BY <1>3 DEF LineInv, Calling, AfterPool
<1>5. pc' \in [Threads -> ReaderStates \cup StopStates]
  BY <1>1, <1>4 DEF LineInv
<1>6. pc'[Reader] \in Arriving => pc[Reader] \in Arriving
  BY <1>1, <1>4, ReaderIsThread DEF LineInv, Arriving, Calling
<1>7. \A d \in Threads : cpc'[d] # "free" => pc'[d] \in Calling
  BY <1>1, <1>3, <1>4 DEF LineInv
<1>. QED  BY <1>1, <1>3, <1>5, <1>6, <1>7, LineFrame

\* A worker's steps in the pool, and wakeups, leave the callers where they are.
LEMMA LineWorkers ==
    ASSUME LineInv,
           \/ \E w \in Workers : WorkerInPool(w) \/ Erase(w) \/ Catch(w)
           \/ SpuriousWakeups
    PROVE  LineInv'
<1>1. UNCHANGED <<pc, cur, kind>>
  BY DEF WorkerInPool, Erase, Catch, SpuriousWakeups, readVars
<1>2. cpc \in [Threads -> Pool!CallerStates]
  BY DEF LineInv
<1>3. /\ UNCHANGED <<accepted, refused>>
      /\ cpc' \in [Threads -> Pool!CallerStates]
      /\ \A d \in Threads : cpc'[d] # "free" => cpc[d] # "free"
  <2>1. CASE \E w \in Workers :
               Pool!WorkerStep(w) \/ Pool!TaskReturns(w) \/ Pool!SpuriousWakeup(w)
    BY <2>1, <1>2, PoolWorkerFrame
  <2>2. CASE \E c \in Threads : Pool!SpuriousIdleWakeup(c)
    BY <2>2, <1>2, PoolCallerFrame
  <2>. QED  BY <2>1, <2>2 DEF WorkerInPool, Erase, Catch, SpuriousWakeups
<1>. QED  BY <1>1, <1>3, LineFrame DEF LineInv

\* Every step preserves LineInv.
LEMMA LineNext == LineInv /\ [Next]_vars => LineInv'
<1>. SUFFICES ASSUME LineInv, [Next]_vars PROVE LineInv'
  OBVIOUS
<1>. USE DEF readVars, poolVars
<1>1. CASE UNCHANGED vars
  BY <1>1, LinePlainSteps DEF vars
<1>2. CASE \E l \in Lines, k \in Kinds : ReadLine(l, k)
  BY <1>2, LineRead
<1>3. CASE EnqueueCall \/ EnqueueRefused
  BY <1>3, LineEnqueued
<1>4. CASE Drain \/ \E c \in Threads : StopPool(c)
  BY <1>4, ReaderIsThread, LineCalls
<1>5. CASE \E c \in Threads : InPool(c)
  BY <1>5, LineInPool
<1>6. CASE \/ SpuriousWakeups
          \/ \E w \in Workers : WorkerInPool(w) \/ Erase(w) \/ Catch(w)
  BY <1>6, LineWorkers
<1>7. CASE PressKill \/ \E w \in Workers : ToolReturns(w)
  BY <1>7, LinePlainSteps DEF PressKill, ToolReturns
<1>8. CASE \E w \in Workers :
             \/ CheckBefore(w) \/ Dispatch(w) \/ DispatchUnknown(w)
             \/ CheckAfter(w) \/ SendReply(w) \/ ReplyThrows(w) \/ Unwind(w)
  BY <1>8, LinePlainSteps DEF CheckBefore, Dispatch, DispatchUnknown, CheckAfter,
     SendReply, ReplyThrows, Unwind, GiveUp, GoOn
<1>9. CASE RunBegins \/ TestRunning \/ ReadKilled \/ ReadEnds
  <2>1. \E from, to \in {"start", "loop", "poll", "drain"} : Goto(Reader, from, to)
    BY <1>9 DEF RunBegins, TestRunning, ReadKilled, ReadEnds
  <2>2. UNCHANGED <<cpc, accepted, refused, cur, kind>>
    BY <1>9 DEF RunBegins, TestRunning, ReadKilled, ReadEnds
  <2>. QED  BY <2>1, <2>2, ReaderIsThread, LinePlainSteps DEF Calling, Arriving
<1>10. CASE \/ AnswerNow \/ Ignore \/ SendInitialize \/ SetInitialized
           \/ Register \/ \E i \in Ids : CancelRequest(i)
  <2>1. \E from \in {"handle", "initFlag"}, to \in {"loop", "initFlag", "enqueue"} :
           Goto(Reader, from, to)
    BY <1>10 DEF AnswerNow, Ignore, SendInitialize, SetInitialized, Register,
       CancelRequest
  <2>2. UNCHANGED <<cpc, accepted, refused, cur, kind>>
    BY <1>10 DEF AnswerNow, Ignore, SendInitialize, SetInitialized, Register,
       CancelRequest
  <2>. QED  BY <2>1, <2>2, ReaderIsThread, LinePlainSteps DEF Calling, Arriving
<1>12. CASE AnswerThrows
  <2>1. /\ Goto(Reader, "handle", "stopFlag")
        /\ UNCHANGED <<cpc, accepted, refused, cur, kind>>
    BY <1>12 DEF AnswerThrows
  <2>. QED  BY <2>1, ReaderIsThread, LinePlainSteps DEF Calling, Arriving
<1>11. CASE \E c \in Threads : CallStop(c) \/ StopFlag(c) \/ StopCancelsAll(c)
  <2>1. PICK c \in Threads : CallStop(c) \/ StopFlag(c) \/ StopCancelsAll(c)
    BY <1>11
  <2>2. \E from \in {"out", "stopFlag", "stopCancel"},
           to \in {"stopFlag", "stopCancel", "stopPool"} : Goto(c, from, to)
    BY <2>1 DEF CallStop, StopFlag, StopCancelsAll
  <2>3. UNCHANGED <<cpc, accepted, refused, cur, kind>>
    BY <2>1 DEF CallStop, StopFlag, StopCancelsAll
  <2>. QED  BY <2>2, <2>3, LinePlainSteps DEF Calling, Arriving
<1>. QED
  BY <1>1, <1>2, <1>3, <1>4, <1>5, <1>6, <1>7, <1>8, <1>9, <1>10, <1>11, <1>12
  DEF Next, ReadSomething, ReaderStep, Process, StopStep, TaskStep

-----------------------------------------------------------------------------
(* Every step of the server is a step of the pool, or none there.          *)

\* Each action of the server is one action of the pool with the same actor, or
\* leaves the pool alone.
LEMMA StepInPool == LineInv /\ [Next]_vars => [Pool!Next]_(Pool!vars)
<1>. SUFFICES ASSUME LineInv, [Next]_vars
              PROVE  Pool!Next \/ UNCHANGED Pool!vars
  OBVIOUS
<1>. USE DEF poolVars
<1>0. UNCHANGED poolVars => UNCHANGED Pool!vars
  BY DEF Pool!vars, Pool!workerVars, Pool!history
<1>1. CASE UNCHANGED vars
  BY <1>0, <1>1 DEF vars
<1>2. CASE EnqueueCall \/ EnqueueRefused
  <2>1. cur \in Lines /\ ~Pool!Submitted(cur)
    BY <1>2 DEF EnqueueCall, EnqueueRefused, Goto, LineInv, Arriving
  <2>2. Pool!Enqueue(Reader, cur) \/ Pool!EnqueueRefused(Reader, cur)
    BY <1>2 DEF EnqueueCall, EnqueueRefused
  <2>3. Pool!Call(Reader)
    BY <2>1, <2>2 DEF Pool!Call
  <2>. QED  BY <2>3, ReaderIsThread DEF Pool!Next
<1>3. CASE Drain \/ \E c \in Threads : StopPool(c)
  BY <1>3, ReaderIsThread DEF Drain, StopPool, Pool!Next, Pool!Call
<1>4. CASE \E c \in Threads : InPool(c)
  BY <1>4 DEF InPool, Pool!Next
<1>5. CASE \/ SpuriousWakeups
          \/ \E w \in Workers : WorkerInPool(w) \/ Erase(w) \/ Catch(w)
  BY <1>5 DEF SpuriousWakeups, WorkerInPool, Erase, Catch, Pool!Next
<1>6. CASE PressKill \/ ReadSomething
  BY <1>0, <1>6 DEF PressKill, ReadSomething, ReadEnds, ReadLine
<1>7. CASE \E w \in Workers :
             \/ CheckBefore(w) \/ Dispatch(w) \/ DispatchUnknown(w)
             \/ CheckAfter(w) \/ SendReply(w) \/ ReplyThrows(w) \/ Unwind(w)
             \/ ToolReturns(w)
  BY <1>0, <1>7 DEF CheckBefore, Dispatch, DispatchUnknown, CheckAfter,
     SendReply, ReplyThrows, Unwind, GiveUp, GoOn, ToolReturns
<1>8. CASE \/ RunBegins \/ TestRunning \/ ReadKilled
          \/ AnswerNow \/ AnswerThrows \/ Ignore \/ SendInitialize
          \/ SetInitialized \/ Register \/ \E i \in Ids : CancelRequest(i)
  BY <1>0, <1>8 DEF RunBegins, TestRunning, ReadKilled, AnswerNow, Ignore,
     AnswerThrows, SendInitialize, SetInitialized, Register, CancelRequest
<1>9. CASE \E c \in Threads : CallStop(c) \/ StopFlag(c) \/ StopCancelsAll(c)
  BY <1>0, <1>9 DEF CallStop, StopFlag, StopCancelsAll
<1>. QED
  BY <1>1, <1>2, <1>3, <1>4, <1>5, <1>6, <1>7, <1>8, <1>9
  DEF Next, ReaderStep, Process, StopStep, TaskStep

-----------------------------------------------------------------------------
(***************************************************************************)
(* What becomes of the calls of the server, for every value of the         *)
(* constants: one reply at most, cancellations honoured, nothing lost by   *)
(* the drain, silence after run().                                         *)
(*                                                                         *)
(* The proof has three layers.  The pool's own invariant, proved of        *)
(* ThreadPool, is carried over to the server's pool (as shown above, the   *)
(* server's steps are the pool's) and reduced to Places: where a line that *)
(* was handed over is.  Every step of the server then leaves all lines     *)
(* alone or is one of ten kinds of step (LineStep).  The invariants about  *)
(* replies, registrations and cancellations are preserved by each kind.    *)
(***************************************************************************)
PoolProofs == INSTANCE ThreadPoolProofs WITH
                  Callers <- Threads, Tasks <- Lines, NoTask <- NoLine

\* The pool's own invariant, proved in ThreadPoolProofs, holds of the server's
\* pool: an instance of the same specification.
LEMMA SamePool ==
    /\ Pool!Init => PoolProofs!Init
    /\ [Pool!Next]_(Pool!vars) => [PoolProofs!Next]_(PoolProofs!vars)
<1>1. Pool!Init => PoolProofs!Init
  BY DEF Pool!Init, PoolProofs!Init
<1>2. ASSUME NEW c \in Threads
      PROVE  /\ Pool!Call(c) => PoolProofs!Call(c)
             /\ Pool!CallerStep(c) => PoolProofs!CallerStep(c)
             /\ Pool!SpuriousIdleWakeup(c) => PoolProofs!SpuriousIdleWakeup(c)
  BY DEF Pool!Call, PoolProofs!Call, Pool!CallerStep, PoolProofs!CallerStep,
     Pool!SpuriousIdleWakeup, PoolProofs!SpuriousIdleWakeup,
     Pool!Submitted, PoolProofs!Submitted, Pool!RangeOf, PoolProofs!RangeOf,
     Pool!Goto, PoolProofs!Goto, Pool!history, PoolProofs!history,
     Pool!workerVars, PoolProofs!workerVars, Pool!Enqueue, PoolProofs!Enqueue,
     Pool!EnqueueRefused, PoolProofs!EnqueueRefused, Pool!CallWaitIdle,
     PoolProofs!CallWaitIdle, Pool!CallStop, PoolProofs!CallStop,
     Pool!NotifyOne, PoolProofs!NotifyOne, Pool!Asleep, PoolProofs!Asleep,
     Pool!WaitIdleReturns, PoolProofs!WaitIdleReturns, Pool!Idle,
     PoolProofs!Idle, Pool!WaitIdleSleeps, PoolProofs!WaitIdleSleeps,
     Pool!StopAgain, PoolProofs!StopAgain, Pool!StopFirst,
     PoolProofs!StopFirst, Pool!StopWakesWorkers, PoolProofs!StopWakesWorkers,
     Pool!StopWakesWaiters, PoolProofs!StopWakesWaiters,
     Pool!WakeIdleWaiters, PoolProofs!WakeIdleWaiters, Pool!RequestStop,
     PoolProofs!RequestStop, Pool!Join, PoolProofs!Join, Pool!Exited,
     PoolProofs!Exited
<1>3. ASSUME NEW w \in Workers
      PROVE  /\ Pool!WorkerStep(w) => PoolProofs!WorkerStep(w)
             /\ Pool!TaskReturns(w) => PoolProofs!TaskReturns(w)
             /\ Pool!SpuriousWakeup(w) => PoolProofs!SpuriousWakeup(w)
  BY DEF Pool!WorkerStep, PoolProofs!WorkerStep, Pool!TaskReturns,
     PoolProofs!TaskReturns, Pool!SpuriousWakeup, PoolProofs!SpuriousWakeup,
     Pool!WGoto, PoolProofs!WGoto, Pool!history, PoolProofs!history,
     Pool!LoopTest, PoolProofs!LoopTest, Pool!Sleep, PoolProofs!Sleep,
     Pool!MustStop, PoolProofs!MustStop, Pool!ExitEmpty,
     PoolProofs!ExitEmpty, Pool!Take, PoolProofs!Take, Pool!Decrement,
     PoolProofs!Decrement, Pool!NotifyIdle, PoolProofs!NotifyIdle,
     Pool!WakeIdleWaiters, PoolProofs!WakeIdleWaiters
<1>4. Pool!Next => PoolProofs!Next
  BY <1>2, <1>3 DEF Pool!Next, PoolProofs!Next
<1>5. UNCHANGED Pool!vars => UNCHANGED PoolProofs!vars
  BY DEF Pool!vars, PoolProofs!vars, Pool!workerVars, PoolProofs!workerVars,
     Pool!history, PoolProofs!history
<1>. QED  BY <1>1, <1>4, <1>5

\* So the invariant of the pool is one of the server.
LEMMA PoolInvHere ==
    /\ Init => PoolProofs!PoolInv
    /\ LineInv /\ PoolProofs!PoolInv /\ [Next]_vars => PoolProofs!PoolInv'
<1>1. PoolProofs!IsFiniteSet(Workers) /\ Workers # {} /\ NoLine \notin Lines
  BY ServerAssumption DEF PoolProofs!IsFiniteSet, IsFiniteSet
<1>2. Init => PoolProofs!PoolInv
  <2>1. PoolProofs!Init => PoolProofs!PoolInv
    BY <1>1, PoolProofs!InitInv
  <2>. QED  BY <2>1, SamePool DEF Init
<1>3. LineInv /\ PoolProofs!PoolInv /\ [Next]_vars => PoolProofs!PoolInv'
  <2>1. PoolProofs!PoolInv /\ [PoolProofs!Next]_(PoolProofs!vars)
     => PoolProofs!PoolInv'
    BY <1>1, PoolProofs!NextInv
  <2>. QED  BY <2>1, SamePool, StepInPool
<1>. QED  BY <1>2, <1>3

-----------------------------------------------------------------------------
\* The lines in the queue of the pool, and those it ever accepted.
Accepted == Pool!RangeOf(accepted)
Queued == Pool!RangeOf(tasks)

\* A line handed to the pool is in the queue, with one worker, or finished,
\* and in one of these places only.
Places ==
    /\ held \in [Workers -> Lines \cup {NoLine}]
    /\ Accepted \subseteq Lines
    /\ refused \subseteq Lines
    /\ finished \subseteq Accepted
    /\ \A l \in Queued : l \in Accepted /\ l \notin finished
    /\ \A l \in Queued, w \in Workers : held[w] # l
    /\ \A w \in Workers : held[w] = NoLine <=> wpc[w] # "run"
    /\ \A w \in Workers : held[w] # NoLine => held[w] \in Accepted \ finished
    /\ \A v, w \in Workers : held[v] = held[w] /\ held[v] # NoLine => v = w
    /\ \A l \in Accepted :
          l \in Queued \/ l \in finished \/ \E w \in Workers : held[w] = l

\* The queue is what is left of the accepted lines, and so on: Places sums up
\* FifoNoLoss, RunOnce and OnePlaceEach as sets.
LEMMA PoolPlaces == PoolProofs!PoolInv => Places
<1>. SUFFICES ASSUME PoolProofs!PoolInv PROVE Places
  OBVIOUS
<1>. USE DEF Accepted, Queued, Pool!RangeOf
<1>1. /\ tasks \in Seq(Lines) /\ accepted \in Seq(Lines)
      /\ held \in [Workers -> Lines \cup {NoLine}]
      /\ finished \in SUBSET Lines /\ refused \in SUBSET Lines
  BY DEF PoolProofs!PoolInv, PoolProofs!TypeOK
<1>2. /\ \A w \in Workers : held[w] # NoLine <=> wpc[w] = "run"
      /\ \A w \in Workers : wpc[w] = "run" => held[w] \in Accepted
      /\ finished \subseteq Accepted
      /\ \A i \in 1 .. Len(tasks) :
          /\ tasks[i] \notin finished
          /\ \A w \in Workers : wpc[w] = "run" => held[w] # tasks[i]
  BY DEF PoolProofs!PoolInv, PoolProofs!OnePlaceEach, PoolProofs!Running,
     PoolProofs!RangeOf
<1>3. /\ \A v, w \in Workers :
            wpc[v] = "run" /\ wpc[w] = "run" /\ held[v] = held[w] => v = w
      /\ \A w \in Workers : wpc[w] = "run" => held[w] \notin finished
  BY DEF PoolProofs!PoolInv, PoolProofs!RunOnce, PoolProofs!Running
<1>4. /\ Len(tasks) <= Len(accepted)
      /\ \A i \in 1 .. Len(tasks) :
            tasks[i] = accepted[Len(accepted) - Len(tasks) + i]
      /\ \A i \in 1 .. Len(accepted) - Len(tasks) :
            \/ accepted[i] \in finished
            \/ \E w \in Workers : held[w] = accepted[i]
  BY DEF PoolProofs!PoolInv, PoolProofs!FifoNoLoss, PoolProofs!Started,
     PoolProofs!Running
<1>5. Len(tasks) \in Nat /\ Len(accepted) \in Nat
  BY <1>1
<1>6. Accepted \subseteq Lines
  BY <1>1
<1>7. ASSUME NEW l \in Queued PROVE l \in Accepted
  <2>1. PICK i \in 1 .. Len(tasks) : l = tasks[i]
    OBVIOUS
  <2>2. Len(accepted) - Len(tasks) + i \in 1 .. Len(accepted)
    BY <1>4, <1>5
  <2>. QED  BY <1>4, <2>1, <2>2
<1>8. ASSUME NEW l \in Accepted
      PROVE  l \in Queued \/ l \in finished \/ \E w \in Workers : held[w] = l
  <2>1. PICK i \in 1 .. Len(accepted) : l = accepted[i]
    OBVIOUS
  <2>2. CASE i <= Len(accepted) - Len(tasks)
    BY <1>4, <1>5, <2>1, <2>2
  <2>3. CASE i > Len(accepted) - Len(tasks)
    <3>1. /\ i - (Len(accepted) - Len(tasks)) \in 1 .. Len(tasks)
          /\ Len(accepted) - Len(tasks) + (i - (Len(accepted) - Len(tasks))) = i
      BY <1>4, <1>5, <2>3
    <3>. QED  BY <1>4, <2>1, <3>1
  <2>. QED  BY <1>5, <2>2, <2>3
<1>9. \A l \in Queued : l \notin finished
  BY <1>2
<1>10. \A l \in Queued, w \in Workers : held[w] # l
  <2>1. NoLine \notin Lines /\ \A l \in Queued : l \in Lines
    BY <1>1, ServerAssumption
  <2>. QED  BY <1>2, <2>1
<1>. HIDE DEF Accepted, Queued
<1>. QED
  BY <1>1, <1>2, <1>3, <1>6, <1>7, <1>8, <1>9, <1>10 DEF Places

\* The same in the next state.
LEMMA PoolPlacesNext == PoolProofs!PoolInv' => Places'
BY PoolPlaces, PTL

-----------------------------------------------------------------------------
(* The invariant.                                                          *)

\* The types of the state the closure and the cancellations use.
RequestTypes ==
    /\ active \in [Ids -> Lines \cup {NoLine}]
    /\ cancelled \in SUBSET Lines
    /\ tpc \in [Workers -> TaskStates]
    /\ out \in Seq([line : Lines, code : Codes])
    /\ executed \in SUBSET Lines
    /\ cancelAt \in [Lines -> {"never", "queued", "running", "late"}]

\* Where a thread of the server is agrees with where it is in the pool, and a
\* worker is in a closure exactly while it holds a line.
InStop == {"stopLock", "stopCv", "stopIdleCv", "stopTokens", "join"}
CallsMatch ==
    /\ \A c \in Threads :
          /\ pc[c] = "enqueued" <=> cpc[c] = "enqueued"
          /\ pc[c] = "draining" <=> cpc[c] \in {"waiting", "idleAsleep"}
          /\ pc[c] = "joining" <=> cpc[c] \in InStop
          /\ c # Reader => pc[c] \in StopStates
    /\ pc[Reader] # "out"
    /\ \A w \in Workers : tpc[w] = "none" <=> held[w] = NoLine

\* The pool is handed tools/call lines only, and refuses none it accepted.
OnlyCalls ==
    /\ \A l \in Accepted \cup refused : kind[l] = "call"
    /\ pc[Reader] = "enqueue" => kind[cur] = "call"
    /\ Accepted \cap refused = {}

\* A reply for l may still come: it is with the reader, refused (then it never
\* comes), queued, or in a closure that has not sent one yet.
Unanswered(l) ==
    \/ l = cur /\ pc[Reader] \in {"handle", "enqueue"}
    \/ l \in refused
    \/ l \in Queued
    \/ \E w \in Workers : held[w] = l /\ tpc[w] # "erase"
Settled(l) == Request(l) /\ ~Unanswered(l)

\* The replies are those of the settled requests, one for each.
Answers ==
    /\ \A l \in Lines :
          Settled(l) <=> \E n \in 1 .. Len(out) : out[n].line = l
    /\ \A m, n \in 1 .. Len(out) : out[m].line = out[n].line => m = n

\* What is registered under an id is a call with this id that is in flight, or
\* one the pool refused.
EntriesInFlight ==
    \A i \in Ids : active[i] # NoLine =>
       IdOf[active[i]] = i /\ (InFlight(active[i]) \/ active[i] \in refused)

\* The converse holds of a call that never shared its id with another call in
\* flight.
UniqueIds == \A l, m \in Lines : IdOf[l] = IdOf[m] => l = m
AllRegistered ==
    /\ \A l \in Lines : InFlight(l) /\ l \notin shared => active[IdOf[l]] = l
    /\ \A l, m \in Lines :
          InFlight(l) /\ InFlight(m) /\ IdOf[l] = IdOf[m] /\ l # m => l \in shared
    /\ \A l \in shared : l \in Lines /\ \E m \in Lines \ {l} : IdOf[m] = IdOf[l]

\* A tool that was executed belongs to a closure past its dispatch.
ExecutedByWorker ==
    \A l \in executed :
        \/ l \in finished
        \/ \E w \in Workers : held[w] = l /\ tpc[w] \notin {"check", "dispatch"}

\* Only a call that was registered is flagged, once; one flagged in the queue
\* is not executed, and one flagged before the second check never reaches the
\* point where its result is sent.
Cancellation ==
    /\ \A l \in cancelled :
          l \in Accepted \cup refused \/ (l = cur /\ pc[Reader] = "enqueue")
    /\ \A l \in Lines : cancelAt[l] # "never" => l \in cancelled
    /\ \A l \in Lines : cancelAt[l] = "queued" =>
          /\ l \notin executed
          /\ \A w \in Workers : held[w] = l => tpc[w] \in {"check", "erase"}
    /\ \A l \in Lines : cancelAt[l] \in {"queued", "running"} =>
          \A w \in Workers :
              held[w] = l => tpc[w] \notin {"reply", "unwind", "catch"}
    /\ \A n \in 1 .. Len(out) :
          cancelAt[out[n].line] \in {"queued", "running"} =>
              out[n].code # "Result"

\* The flags of the server; nobody stops the pool before the drain unless
\* another thread calls stop(); after the drain the pool has nothing to do.
FlagTypes == initialized \in BOOLEAN /\ running \in BOOLEAN /\ killed \in BOOLEAN
NoEarlyStop == refused = {} /\ (stopping => Drained)
DrainedPool == Drained /\ ~Escaped => Accepted \subseteq finished

\* The inductive invariant.
ServerInv ==
    /\ LineInv
    /\ PoolProofs!PoolInv
    /\ RequestTypes
    /\ CallsMatch
    /\ OnlyCalls
    /\ Answers
    /\ EntriesInFlight
    /\ AllRegistered
    /\ ExecutedByWorker
    /\ Cancellation
    /\ DrainedPool

-----------------------------------------------------------------------------
(* The kinds of step of a line.                                            *)

\* Every line stays in its place in the pool.
Kept ==
    /\ Queued' = Queued /\ Accepted' = Accepted
    /\ UNCHANGED <<held, finished, refused>>

\* The line with the reader stays there, unless it needs no reply.
ReaderStays ==
    /\ \A s \in {"handle", "enqueue"} : pc'[Reader] = s => pc[Reader] = s
    /\ pc[Reader] = "enqueue" => pc'[Reader] = "enqueue"
    /\ pc[Reader] = "handle" => pc'[Reader] = "handle" \/ ~Request(cur)

\* Nothing happens to any line.
Elsewhere ==
    /\ Kept /\ ReaderStays
    /\ UNCHANGED <<cur, kind, requestVars, taskVars, out>>

\* A line is read; answered by run(); registered; handed over or refused.
ReadsOne ==
    \E l \in Lines, k \in Kinds :
      /\ kind[l] = "unread"
      /\ Goto(Reader, "poll", "handle")
      /\ cur' = l
      /\ kind' = [kind EXCEPT ![l] = k]
      /\ Kept
      /\ UNCHANGED <<requestVars, taskVars, out>>

AnswersOne ==
    /\ pc[Reader] = "handle" /\ pc'[Reader] \notin {"handle", "enqueue"}
    /\ cur \in Lines /\ Request(cur)
    /\ \E code \in Codes : Send(cur, code)
    /\ Kept
    /\ UNCHANGED <<cur, kind, requestVars, taskVars>>

RegistersOne ==
    /\ Goto(Reader, "handle", "enqueue")
    /\ cur \in Lines /\ kind[cur] = "call"
    /\ active' = [active EXCEPT ![IdOf[cur]] = cur]
    /\ shared' = IF SameId(IdOf[cur]) = {} THEN shared
                 ELSE shared \cup SameId(IdOf[cur]) \cup {cur}
    /\ Kept
    /\ UNCHANGED <<cur, kind, cancelled, cancelAt, taskVars, out>>

SubmitsOne ==
    /\ pc[Reader] = "enqueue" /\ pc'[Reader] \notin {"handle", "enqueue"}
    /\ cur \in Lines /\ cur \notin Accepted \cup refused
    /\ \/ /\ Queued' = Queued \cup {cur} /\ Accepted' = Accepted \cup {cur}
          /\ refused' = refused
       \/ /\ Queued' = Queued /\ Accepted' = Accepted
          /\ refused' = refused \cup {cur}
    /\ UNCHANGED <<cur, kind, held, finished, requestVars, taskVars, out>>

\* Registered calls are flagged.
FlagsSome ==
    /\ \E S \in SUBSET Registered : Flag(S)
    /\ Kept /\ ReaderStays
    /\ UNCHANGED <<cur, kind, active, shared, taskVars, out>>

\* A worker takes a line; its closure sends a reply, goes on, loses its entry
\* to an exception; the worker is done with it.
TakesOne(w) ==
    /\ held[w] = NoLine
    /\ \E l \in Queued :
          /\ held' = [held EXCEPT ![w] = l]
          /\ Queued = Queued' \cup {l}
          /\ l \notin Queued'
    /\ tpc' = [tpc EXCEPT ![w] = "check"]
    /\ Accepted' = Accepted
    /\ UNCHANGED <<pc, cur, kind, refused, finished, requestVars, executed, out>>

ClosureSends(w) ==
    /\ \/ /\ \E at \in {"check", "recheck"} : TGoto(w, at, "erase")
          /\ held[w] \in cancelled
          /\ Send(held[w], "RequestCancelled")
       \/ TGoto(w, "reply", "erase") /\ Send(held[w], "Result")
    /\ Kept
    /\ UNCHANGED <<pc, cur, kind, requestVars, executed>>

ClosureMoves(w) ==
    /\ \/ /\ TGoto(w, "check", "dispatch") \/ TGoto(w, "recheck", "reply")
          /\ held[w] \notin cancelled
          /\ executed' = executed
       \/ /\ \/ TGoto(w, "dispatch", "recheck") \/ TGoto(w, "tool", "recheck")
             \/ TGoto(w, "reply", "unwind")
          /\ executed' = executed
       \/ /\ TGoto(w, "dispatch", "tool")
          /\ executed' = executed \cup {held[w]}
    /\ Kept
    /\ UNCHANGED <<pc, cur, kind, requestVars, out>>

ClosureUnwinds(w) ==
    /\ TGoto(w, "unwind", "catch")
    /\ EraseEntry(w)
    /\ Kept
    /\ UNCHANGED <<pc, cur, kind, cancelled, cancelAt, shared, executed, out>>

EndsOne(w) ==
    /\ \/ TGoto(w, "erase", "none") /\ EraseEntry(w) /\ out' = out
       \/ TGoto(w, "catch", "none") /\ Send(held[w], "InternalError")
            /\ active' = active
    /\ held' = [held EXCEPT ![w] = NoLine]
    /\ finished' = finished \cup {held[w]}
    /\ Queued' = Queued /\ Accepted' = Accepted
    /\ UNCHANGED <<pc, cur, kind, refused, cancelled, cancelAt, shared, executed>>

(* Every step is one of them.                                              *)

\* What callers do inside the pool moves no line.
LEMMA CallersKeep ==
    ASSUME NEW c \in Threads,
           \/ Pool!CallerStep(c) \/ Pool!SpuriousIdleWakeup(c)
           \/ Pool!CallWaitIdle(c) \/ Pool!CallStop(c)
    PROVE  UNCHANGED <<tasks, held, accepted, refused, finished>>
BY DEF Pool!CallerStep, Pool!SpuriousIdleWakeup, Pool!CallWaitIdle,
       Pool!CallStop, Pool!NotifyOne, Pool!WaitIdleReturns,
       Pool!WaitIdleSleeps, Pool!StopAgain, Pool!StopFirst,
       Pool!StopWakesWorkers, Pool!StopWakesWaiters, Pool!RequestStop,
       Pool!Join, Pool!history, Pool!workerVars

\* Kept in terms of the variables of the pool.
LEMMA UnchangedKeeps ==
    UNCHANGED <<tasks, held, accepted, refused, finished>> => Kept
BY DEF Kept, Queued, Accepted, Pool!RangeOf

\* Of a worker's steps in the pool, Take alone moves a line: the head of the
\* queue, which is not in the queue any more.
LEMMA WorkerKeepsOrTakes ==
    ASSUME PoolProofs!PoolInv, PoolProofs!PoolInv', NEW w \in Workers,
           WorkerInPool(w), RequestTypes
    PROVE  \/ Kept /\ UNCHANGED tpc
           \/ TakesOne(w)
<1>1. /\ wpc \in [Workers -> Pool!WorkerStates] /\ tasks \in Seq(Lines)
      /\ held \in [Workers -> Lines \cup {NoLine}] 
      /\ tasks' \in Seq(Lines)
  BY DEF PoolProofs!PoolInv, PoolProofs!TypeOK, Pool!WorkerStates,
     PoolProofs!WorkerStates
<1>2. /\ Pool!WorkerStep(w)
      /\ tpc' = [tpc EXCEPT ![w] = IF wpc'[w] = "run" THEN "check" ELSE tpc[w]]
  BY DEF WorkerInPool
<1>3. CASE Pool!Take(w)
  <2>1. /\ tasks # <<>> /\ tasks' = Tail(tasks)
        /\ held' = [held EXCEPT ![w] = Head(tasks)]
        /\ wpc[w] = "lock" /\ wpc' = [wpc EXCEPT ![w] = "run"]
        /\ UNCHANGED <<accepted, refused, finished>>
    BY <1>3 DEF Pool!Take, Pool!WGoto, Pool!history
  <2>2. tpc' = [tpc EXCEPT ![w] = "check"]
    BY <1>1, <1>2, <2>1
  <2>3. Queued = Queued' \cup {Head(tasks)}
    <3>1. Len(tasks) \in Nat /\ Len(tasks) >= 1 /\ Head(tasks) = tasks[1]
      BY <1>1, <2>1
    <3>2. /\ Len(tasks') = Len(tasks) - 1
          /\ \A i \in 1 .. Len(tasks) - 1 : tasks'[i] = tasks[i + 1]
      BY <1>1, <2>1
    <3>3. \A i \in 1 .. Len(tasks) : i = 1
       \/ (i - 1 \in 1 .. Len(tasks) - 1 /\ (i - 1) + 1 = i)
      BY <3>1
    <3>4. \A i \in 1 .. Len(tasks) - 1 : i + 1 \in 1 .. Len(tasks)
      BY <3>1
    <3>5. 1 \in 1 .. Len(tasks)
      BY <3>1
    <3>6. ASSUME NEW l \in Queued PROVE l \in Queued' \cup {Head(tasks)}
      <4>1. PICK i \in 1 .. Len(tasks) : l = tasks[i]
        BY DEF Queued, Pool!RangeOf
      <4>2. CASE i = 1
        BY <4>1, <4>2, <3>1
      <4>3. CASE i # 1
        <5>1. i - 1 \in 1 .. Len(tasks') /\ tasks'[i - 1] = l
          BY <4>1, <4>3, <3>2, <3>3
        <5>. QED  BY <5>1 DEF Queued, Pool!RangeOf
      <4>. QED  BY <4>2, <4>3
    <3>7. ASSUME NEW l \in Queued' PROVE l \in Queued
      <4>1. PICK i \in 1 .. Len(tasks') : l = tasks'[i]
        BY DEF Queued, Pool!RangeOf
      <4>2. i + 1 \in 1 .. Len(tasks) /\ tasks[i + 1] = l
        BY <4>1, <3>2, <3>4
      <4>. QED  BY <4>2 DEF Queued, Pool!RangeOf
    <3>8. Head(tasks) \in Queued
      BY <3>1, <3>5 DEF Queued, Pool!RangeOf
    <3>. QED  BY <3>6, <3>7, <3>8
  <2>4. held[w] = NoLine /\ held'[w] = Head(tasks)
    BY <1>1, <2>1, PoolPlaces DEF Places
  <2>5. Head(tasks) \notin Queued'
    BY <2>4, PoolPlacesNext DEF Places
  <2>6. Accepted' = Accepted
    BY <2>1 DEF Accepted, Pool!RangeOf
  <2>. QED  BY <2>1, <2>2, <2>3, <2>4, <2>5, <2>6 DEF TakesOne, WorkerInPool,
       readVars,
               flagVars
<1>4. CASE ~Pool!Take(w)
  <2>1. /\ UNCHANGED <<tasks, held, accepted, refused, finished>>
        /\ wpc'[w] # "run"
    BY <1>1, <1>2, <1>4 DEF Pool!WorkerStep, Pool!LoopTest, Pool!Sleep,
       Pool!ExitEmpty,
       Pool!Decrement, Pool!NotifyIdle, Pool!WGoto, Pool!history, Pool!WorkerStates
  <2>2. tpc' = tpc
    BY <1>2, <2>1 DEF RequestTypes
  <2>. QED  BY <2>1, <2>2, UnchangedKeeps
<1>. QED  BY <1>3, <1>4

\* The steps that concern no line: of run(), of stop(), inside the pool.
LEMMA ElsewhereSteps ==
    ASSUME LineInv, RequestTypes, PoolProofs!PoolInv, PoolProofs!PoolInv',
           \/ UNCHANGED vars
           \/ RunBegins \/ TestRunning \/ ReadKilled \/ ReadEnds \/ PressKill
           \/ SetInitialized \/ Ignore \/ AnswerThrows \/ Drain
           \/ SpuriousWakeups
           \/ \E c \in Threads : CallStop(c) \/ StopFlag(c) \/ StopPool(c)
                \/ InPool(c)
    PROVE  Elsewhere
<1>. USE DEF poolVars, readVars, flagVars, requestVars, taskVars
<1>1. pc \in [Threads -> ReaderStates \cup StopStates] /\ Reader \in Threads
  BY ReaderIsThread DEF LineInv
<1>2. CASE UNCHANGED vars
  BY <1>2, UnchangedKeeps DEF vars, Elsewhere, ReaderStays
<1>3. CASE \/ RunBegins \/ TestRunning \/ ReadKilled \/ ReadEnds \/ PressKill
           \/ SetInitialized \/ Ignore \/ AnswerThrows
  <2>1. Kept /\ UNCHANGED <<cur, kind, requestVars, taskVars, out>>
    BY <1>3, UnchangedKeeps DEF RunBegins, TestRunning, ReadKilled, ReadEnds,
       PressKill, SetInitialized, Ignore, AnswerThrows
  <2>2. ReaderStays
    BY <1>1, <1>3 DEF ReaderStays, RunBegins, TestRunning, ReadKilled, ReadEnds,
       PressKill, SetInitialized, Ignore, AnswerThrows, Goto, Handling, Request,
       Requests
  <2>. QED  BY <2>1, <2>2 DEF Elsewhere
<1>4. CASE SpuriousWakeups
  <2>1. UNCHANGED <<tasks, held, accepted, refused, finished>>
    BY <1>4, CallersKeep DEF SpuriousWakeups, Pool!SpuriousWakeup, Pool!history
  <2>. QED  BY <1>4, <2>1, UnchangedKeeps DEF SpuriousWakeups, Elsewhere,
       ReaderStays
<1>5. CASE Drain \/ \E c \in Threads : CallStop(c) \/ StopFlag(c) \/ StopPool(c)
  <2>1. UNCHANGED <<tasks, held, accepted, refused, finished>>
    BY <1>1, <1>5, CallersKeep DEF Drain, CallStop, StopFlag, StopPool
  <2>2. ReaderStays
    BY <1>1, <1>5 DEF ReaderStays, Drain, CallStop, StopFlag, StopPool, Goto
  <2>3. UNCHANGED <<cur, kind, requestVars, taskVars, out>>
    BY <1>5 DEF Drain, CallStop, StopFlag, StopPool
  <2>. QED  BY <2>1, <2>2, <2>3, UnchangedKeeps DEF Elsewhere
<1>6. ASSUME NEW c \in Threads, InPool(c) PROVE Elsewhere
  <2>1. UNCHANGED <<tasks, held, accepted, refused, finished>>
    BY <1>6, CallersKeep DEF InPool
  <2>2. cpc[c] # "free"
    BY <1>6, PoolCallerFrame DEF LineInv, InPool
  <2>3. pc[c] \in Calling /\ AfterPool(pc[c]) \in {"loop", "stopFlag", "returned"}
    BY <2>2 DEF LineInv, Calling, AfterPool
  <2>4. ReaderStays
    BY <1>1, <1>6, <2>3 DEF ReaderStays, InPool, Calling
  <2>5. UNCHANGED <<cur, kind, requestVars, taskVars, out>>
    BY <1>6 DEF InPool
  <2>. QED  BY <2>1, <2>4, <2>5, UnchangedKeeps DEF Elsewhere
<1>. QED  BY <1>2, <1>3, <1>4, <1>5, <1>6

\* Both cancelRequest and stop() flag registered calls.
LEMMA FlaggingSteps ==
    ASSUME LineInv, 
           (\E i \in Ids : CancelRequest(i)) \/ \E c \in Threads : StopCancelsAll(c)
    PROVE  FlagsSome
<1>. USE DEF poolVars, readVars, flagVars, requestVars, taskVars
<1>1. pc \in [Threads -> ReaderStates \cup StopStates] /\ Reader \in Threads
  BY ReaderIsThread DEF LineInv
<1>2. \E S \in SUBSET Registered : Flag(S)
  <2>1. CASE \E i \in Ids : CancelRequest(i)
    <3>1. PICK i \in Ids : Flag({active[i]} \ {NoLine})
      BY <2>1 DEF CancelRequest
    <3>2. {active[i]} \ {NoLine} \in SUBSET Registered
      BY DEF Registered
    <3>. QED  BY <3>1, <3>2
  <2>2. CASE \E c \in Threads : StopCancelsAll(c)
    BY <2>2 DEF StopCancelsAll
  <2>. QED  BY <2>1, <2>2
<1>3. Kept /\ UNCHANGED <<cur, kind, active, shared, taskVars, out>>
  BY UnchangedKeeps DEF CancelRequest, StopCancelsAll
<1>4. ReaderStays
  BY <1>1 DEF ReaderStays, CancelRequest, StopCancelsAll, Goto, Handling,
     Request, Requests
<1>. QED  BY <1>2, <1>3, <1>4 DEF FlagsSome

\* What run() does with a line.
LEMMA ReaderSteps ==
    ASSUME LineInv, OnlyCalls, RequestTypes, PoolProofs!PoolInv,
           \/ \E l \in Lines, k \in Kinds : ReadLine(l, k)
           \/ AnswerNow \/ SendInitialize \/ Register \/ EnqueueCall
                \/ EnqueueRefused
    PROVE  ReadsOne \/ AnswersOne \/ RegistersOne \/ SubmitsOne
<1>. USE DEF poolVars, readVars, flagVars, requestVars, taskVars
<1>1. pc \in [Threads -> ReaderStates \cup StopStates] /\ Reader \in Threads
  BY ReaderIsThread DEF LineInv
<1>2. pc[Reader] \in {"handle", "initFlag", "enqueue"} =>
         /\ cur \in Lines /\ kind[cur] # "unread"
         /\ cur \notin Accepted \cup refused
  BY DEF LineInv, Arriving, Pool!Submitted, Accepted
<1>3. CASE \E l \in Lines, k \in Kinds : ReadLine(l, k)
  BY <1>3, UnchangedKeeps DEF ReadLine, ReadsOne
<1>4. CASE AnswerNow
  <2>1. pc[Reader] = "handle" /\ pc'[Reader] = "loop"
    BY <1>1, <1>4 DEF AnswerNow, Goto
  <2>2. kind[cur] \in Immediate \/ (kind[cur] = "call" /\ ~initialized)
    BY <1>4 DEF AnswerNow, Handling
  <2>3. ReplyTo(kind[cur]) \in Codes
    <3>. DEFINE k == kind[cur]
    <3>1. CASE ~initialized
               /\ k \in {"list", "unknown", "call", "callNoName", "callIllTyped"}
      BY <3>1 DEF ReplyTo, Codes
    <3>2. CASE \/ initialized
               \/ k \notin {"list", "unknown", "call", "callNoName", "callIllTyped"}
      <4>1. ReplyTo(k) \in Codes \/ k \notin Immediate
        BY ONLY <3>2, k = kind[cur] DEF ReplyTo, Codes, Immediate
      <4>. QED  BY <2>2, <3>2, <4>1
    <3>. QED  BY <3>1, <3>2
  <2>4. Request(cur)
    BY <2>2 DEF Request, Requests, AllKinds, Immediate
  <2>5. Kept /\ UNCHANGED <<cur, kind, requestVars, taskVars>>
    BY <1>4, UnchangedKeeps DEF AnswerNow
  <2>6. Send(cur, ReplyTo(kind[cur]))
    BY <1>4 DEF AnswerNow
  <2>. QED  BY <1>2, <2>1, <2>3, <2>4, <2>5, <2>6 DEF AnswersOne
<1>5. CASE SendInitialize
  <2>1. pc[Reader] = "handle" /\ pc'[Reader] = "initFlag"
    BY <1>1, <1>5 DEF SendInitialize, Goto
  <2>2. Request(cur) /\ "Result" \in Codes
    BY <1>5 DEF SendInitialize, Handling, Request, Requests, AllKinds, Codes
  <2>3. Kept /\ UNCHANGED <<cur, kind, requestVars, taskVars>>
    BY <1>5, UnchangedKeeps DEF SendInitialize
  <2>. QED  BY <1>2, <1>5, <2>1, <2>2, <2>3 DEF AnswersOne, SendInitialize
<1>6. CASE Register
  BY <1>1, <1>2, <1>6, UnchangedKeeps DEF Register, RegistersOne, Goto, Handling
<1>7. CASE EnqueueCall
  <2>1. /\ tasks' = Append(tasks, cur) /\ accepted' = Append(accepted, cur)
        /\ UNCHANGED <<held, refused, finished, cur, kind, requestVars, taskVars,
             out>>
    BY <1>7 DEF EnqueueCall, Pool!Enqueue, Pool!workerVars
  <2>2. pc[Reader] = "enqueue" /\ pc'[Reader] = "enqueued"
    BY <1>1, <1>7 DEF EnqueueCall, Goto
  <2>3. tasks \in Seq(Lines) /\ accepted \in Seq(Lines)
    BY DEF PoolProofs!PoolInv, PoolProofs!TypeOK
  <2>4. Queued' = Queued \cup {cur} /\ Accepted' = Accepted \cup {cur}
    BY <1>2, <2>1, <2>2, <2>3, AppendedLines DEF Queued, Accepted, Pool!RangeOf
  <2>. QED  BY <1>2, <2>1, <2>2, <2>4 DEF SubmitsOne
<1>8. CASE EnqueueRefused
  <2>1. /\ tasks' = tasks /\ accepted' = accepted /\ refused' = refused \cup {cur}
        /\ UNCHANGED <<held, finished, cur, kind, requestVars, taskVars, out>>
    BY <1>8 DEF EnqueueRefused, Pool!EnqueueRefused, Pool!workerVars
  <2>2. pc[Reader] = "enqueue" /\ pc'[Reader] = "loop"
    BY <1>1, <1>8 DEF EnqueueRefused, Goto
  <2>3. Queued' = Queued /\ Accepted' = Accepted
    BY <2>1 DEF Queued, Accepted, Pool!RangeOf
  <2>. QED  BY <1>2, <2>1, <2>2, <2>3 DEF SubmitsOne
<1>. QED  BY <1>3, <1>4, <1>5, <1>6, <1>7, <1>8

\* What the closure of handleToolsCall does.
LEMMA ClosureSteps ==
    ASSUME NEW w \in Workers, TaskStep(w) \/ ToolReturns(w)
    PROVE  ClosureSends(w) \/ ClosureMoves(w) \/ ClosureUnwinds(w) \/ EndsOne(w)
<1>. USE DEF poolVars, readVars, flagVars, requestVars, taskVars
<1>1. CASE \/ CheckBefore(w) \/ Dispatch(w) \/ DispatchUnknown(w) \/ ToolReturns(w)
           \/ CheckAfter(w) \/ SendReply(w) \/ ReplyThrows(w) \/ Unwind(w)
  <2>1. UNCHANGED <<poolVars, pc, cur, kind>>
    BY <1>1 DEF CheckBefore, Dispatch, DispatchUnknown, ToolReturns,
       CheckAfter, SendReply, ReplyThrows, Unwind, GiveUp, GoOn
  <2>2. Kept
    BY <2>1, UnchangedKeeps
  <2>3. CASE Unwind(w)
    BY <2>1, <2>2, <2>3 DEF Unwind, ClosureUnwinds
  <2>4. CASE SendReply(w) \/ GiveUp(w, "check") \/ GiveUp(w, "recheck")
    BY <2>1, <2>2, <2>4 DEF SendReply, GiveUp, ClosureSends
  <2>5. CASE \/ GoOn(w, "check", "dispatch") \/ GoOn(w, "recheck", "reply")
             \/ Dispatch(w) \/ DispatchUnknown(w) \/ ToolReturns(w)
                  \/ ReplyThrows(w)
    BY <2>1, <2>2, <2>5 DEF GoOn, Dispatch, DispatchUnknown, ToolReturns,
       ReplyThrows, ClosureMoves
  <2>. QED  BY <1>1, <2>3, <2>4, <2>5 DEF CheckBefore, CheckAfter
<1>2. CASE Erase(w) \/ Catch(w)
  <2>1. /\ UNCHANGED <<tasks, accepted, refused>>
        /\ held' = [held EXCEPT ![w] = NoLine]
        /\ finished' = finished \cup {held[w]}
    BY <1>2 DEF Erase, Catch, Pool!TaskReturns
  <2>2. Queued' = Queued /\ Accepted' = Accepted
    BY <2>1 DEF Queued, Accepted, Pool!RangeOf
  <2>. QED  BY <1>2, <2>1, <2>2 DEF Erase, Catch, EndsOne
<1>. QED  BY <1>1, <1>2 DEF TaskStep

\* All of them.
LineStep ==
    \/ Elsewhere \/ ReadsOne \/ AnswersOne \/ RegistersOne \/ SubmitsOne
    \/ FlagsSome
    \/ \E w \in Workers : \/ TakesOne(w) \/ ClosureSends(w) \/ ClosureMoves(w)
                         \/ ClosureUnwinds(w) \/ EndsOne(w)

\* No step of the server does anything else to a line.
LEMMA EveryStepIsLineStep ==
    ASSUME LineInv, OnlyCalls, RequestTypes, PoolProofs!PoolInv, [Next]_vars
    PROVE  LineStep
<1>1. PoolProofs!PoolInv'
  BY PoolInvHere
<1>2. CASE UNCHANGED vars \/ RunBegins \/ TestRunning \/ ReadKilled \/ ReadEnds
           \/ PressKill \/ SetInitialized \/ Ignore \/ AnswerThrows \/ Drain
           \/ SpuriousWakeups
           \/ \E c \in Threads : CallStop(c) \/ StopFlag(c) \/ StopPool(c)
                \/ InPool(c)
  BY <1>1, <1>2, ElsewhereSteps DEF LineStep
<1>3. CASE (\E i \in Ids : CancelRequest(i)) \/ \E c \in Threads : StopCancelsAll(c)
  BY <1>3, FlaggingSteps DEF LineStep
<1>4. CASE (\E l \in Lines, k \in Kinds : ReadLine(l, k)) \/ AnswerNow
           \/ SendInitialize \/ Register \/ EnqueueCall \/ EnqueueRefused
  BY <1>4, ReaderSteps DEF LineStep
<1>5. CASE \E w \in Workers : TaskStep(w) \/ ToolReturns(w)
  BY <1>5, ClosureSteps DEF LineStep
<1>6. ASSUME NEW w \in Workers, WorkerInPool(w) PROVE LineStep
  <2>1. UNCHANGED <<pc, cur, kind, requestVars, executed, out>>
    BY <1>6 DEF WorkerInPool, readVars
  <2>2. (Kept /\ UNCHANGED tpc) \/ TakesOne(w)
    BY <1>1, <1>6, WorkerKeepsOrTakes
  <2>3. CASE Kept /\ UNCHANGED tpc
    BY <2>1, <2>3 DEF LineStep, Elsewhere, ReaderStays, taskVars
  <2>. QED  BY <2>2, <2>3 DEF LineStep
<1>. QED
  BY <1>2, <1>3, <1>4, <1>5, <1>6
  DEF Next, ReadSomething, ReaderStep, Process, StopStep

-----------------------------------------------------------------------------
(* The invariant is preserved by every kind of step.                       *)

\* What the lemmas below assume of the present state.
CodeInv == LineInv /\ Places /\ RequestTypes /\ CallsMatch /\ OnlyCalls

\* The types are preserved.
LEMMA TypesNext == CodeInv /\ Places' /\ LineStep => RequestTypes'
<1>. SUFFICES ASSUME CodeInv, Places', LineStep PROVE RequestTypes'
  OBVIOUS
<1>. USE DEF CodeInv, RequestTypes, requestVars, taskVars
<1>1. CASE Elsewhere \/ ReadsOne
  BY <1>1 DEF Elsewhere, ReadsOne
<1>2. CASE AnswersOne
  <2>1. PICK code \in Codes : out' = Append(out, [line |-> cur, code |-> code])
    BY <1>2 DEF AnswersOne, Send
  <2>2. out' \in Seq([line : Lines, code : Codes])
    BY <1>2, <2>1 DEF AnswersOne
  <2>. QED  BY <1>2, <2>2 DEF AnswersOne
<1>3. CASE RegistersOne
  <2>1. active' \in [Ids -> Lines \cup {NoLine}]
    BY <1>3 DEF RegistersOne
  <2>. QED  BY <1>3, <2>1 DEF RegistersOne
<1>4. CASE SubmitsOne
  BY <1>4 DEF SubmitsOne
<1>5. CASE FlagsSome
  <2>1. PICK S \in SUBSET Registered : Flag(S)
    BY <1>5 DEF FlagsSome
  <2>2. S \subseteq Lines
    BY <2>1 DEF Registered
  <2>3. cancelled' \in SUBSET Lines
    BY <2>1, <2>2 DEF Flag
  <2>4. \A l \in Lines : Stage(l) \in {"queued", "running", "late"}
    BY DEF Stage
  <2>5. cancelAt' \in [Lines -> {"never", "queued", "running", "late"}]
    BY <2>1, <2>4 DEF Flag
  <2>. QED  BY <1>5, <2>3, <2>5 DEF FlagsSome
<1>6. ASSUME NEW w \in Workers, TakesOne(w) PROVE RequestTypes'
  <2>1. tpc' \in [Workers -> TaskStates]
    BY <1>6 DEF TakesOne, TaskStates
  <2>. QED  BY <1>6, <2>1 DEF TakesOne
<1>7. ASSUME NEW w \in Workers, tpc[w] # "none" PROVE held[w] \in Lines
  BY <1>7 DEF Places, CallsMatch
<1>8. ASSUME NEW w \in Workers, ClosureSends(w) PROVE RequestTypes'
  <2>1. tpc' \in [Workers -> TaskStates] /\ tpc[w] # "none"
    BY <1>8 DEF ClosureSends, TGoto, TaskStates
  <2>2. PICK code \in Codes : out' = Append(out, [line |-> held[w], code |-> code])
    BY <1>8 DEF ClosureSends, Send, Codes
  <2>3. out' \in Seq([line : Lines, code : Codes])
    BY <1>7, <2>1, <2>2
  <2>. QED  BY <1>8, <2>1, <2>3 DEF ClosureSends
<1>9. ASSUME NEW w \in Workers, ClosureMoves(w) PROVE RequestTypes'
  <2>1. tpc' \in [Workers -> TaskStates] /\ tpc[w] # "none"
    BY <1>9 DEF ClosureMoves, TGoto, TaskStates
  <2>2. executed' \in SUBSET Lines
    BY <1>7, <1>9, <2>1 DEF ClosureMoves
  <2>. QED  BY <1>9, <2>1, <2>2 DEF ClosureMoves
<1>10. ASSUME NEW w \in Workers, ClosureUnwinds(w) PROVE RequestTypes'
  <2>1. tpc' \in [Workers -> TaskStates] /\ tpc[w] # "none"
    BY <1>10 DEF ClosureUnwinds, TGoto, TaskStates
  <2>2. active' \in [Ids -> Lines \cup {NoLine}]
    BY <1>10 DEF ClosureUnwinds, EraseEntry
  <2>. QED  BY <1>10, <2>1, <2>2 DEF ClosureUnwinds
<1>11. ASSUME NEW w \in Workers, EndsOne(w) PROVE RequestTypes'
  <2>1. tpc' \in [Workers -> TaskStates] /\ tpc[w] # "none"
    BY <1>11 DEF EndsOne, TGoto, TaskStates
  <2>2. active' \in [Ids -> Lines \cup {NoLine}]
    BY <1>11 DEF EndsOne, EraseEntry
  <2>3. \/ out' = out
        \/ \E code \in Codes : out' = Append(out, [line |-> held[w], code |-> code])
    BY <1>11 DEF EndsOne, Send, Codes
  <2>4. out' \in Seq([line : Lines, code : Codes])
    <3>1. ASSUME NEW code \in Codes,
                 out' = Append(out, [line |-> held[w], code |-> code])
          PROVE  out' \in Seq([line : Lines, code : Codes])
      BY <1>7, <2>1, <3>1
    <3>. QED  BY <2>3, <3>1
  <2>. QED  BY <1>11, <2>1, <2>2, <2>4 DEF EndsOne
<1>. QED
  BY <1>1, <1>2, <1>3, <1>4, <1>5, <1>6, <1>8, <1>9, <1>10, <1>11 DEF LineStep

\* Only a registered call is handed over.
LEMMA OnlyCallsNext == CodeInv /\ LineStep => OnlyCalls'
<1>. SUFFICES ASSUME CodeInv, LineStep PROVE OnlyCalls'
  OBVIOUS
<1>. USE DEF CodeInv, OnlyCalls
<1>0. /\ pc \in [Threads -> ReaderStates \cup StopStates] /\ Reader \in Threads
      /\ kind \in [Lines -> Kinds \cup {"unread"}] /\ "unread" \notin Kinds
  BY ReaderIsThread DEF LineInv
<1>1. CASE Elsewhere \/ FlagsSome
  BY <1>1 DEF Elsewhere, FlagsSome, Kept, ReaderStays
<1>2. CASE AnswersOne
  BY <1>2 DEF AnswersOne, Kept
<1>3. CASE ReadsOne
  <2>1. pc'[Reader] = "handle"
    BY <1>0, <1>3 DEF ReadsOne, Goto
  <2>2. \A l \in Accepted \cup refused : kind'[l] = kind[l]
    BY <1>0, <1>3 DEF ReadsOne, Places
  <2>. QED  BY <1>3, <2>1, <2>2 DEF ReadsOne, Kept
<1>4. CASE RegistersOne
  BY <1>4 DEF RegistersOne, Kept
<1>5. CASE SubmitsOne
  BY <1>5 DEF SubmitsOne
<1>6. ASSUME NEW w \in Workers, TakesOne(w) \/ EndsOne(w) PROVE OnlyCalls'
  BY <1>6 DEF TakesOne, EndsOne
<1>7. ASSUME NEW w \in Workers,
             ClosureSends(w) \/ ClosureMoves(w) \/ ClosureUnwinds(w)
      PROVE  OnlyCalls'
  BY <1>7 DEF ClosureSends, ClosureMoves, ClosureUnwinds, Kept
<1>. QED  BY <1>1, <1>2, <1>3, <1>4, <1>5, <1>6, <1>7 DEF LineStep

\* Nothing is sent and no request becomes settled, or the other way round.
LEMMA AnswersFrame ==
    ASSUME Answers, RequestTypes, out' = out,
           \A l \in Lines : Settled(l)' <=> Settled(l)
    PROVE  Answers'
BY DEF Answers

\* One reply is sent and settles the request it is for.
LEMMA AnswersSend ==
    ASSUME Answers, RequestTypes, NEW m \in Lines, NEW code, Send(m, code),
           ~Settled(m), Settled(m)',
           \A l \in Lines \ {m} : Settled(l)' <=> Settled(l)
    PROVE  Answers'
<1>1. Len(out) \in Nat
  BY DEF RequestTypes
<1>2. /\ Len(out') = Len(out) + 1
      /\ \A n \in 1 .. Len(out) : out'[n] = out[n]
      /\ out'[Len(out) + 1].line = m
  BY DEF Send, RequestTypes
<1>3. 1 .. Len(out') = (1 .. Len(out)) \cup {Len(out) + 1}
  BY <1>1, <1>2
<1>4. \A n \in 1 .. Len(out) : out[n].line # m
  BY DEF Answers
<1>5. ASSUME NEW l \in Lines
      PROVE  Settled(l)' <=> \E n \in 1 .. Len(out') : out'[n].line = l
  <2>1. CASE l = m
    BY <1>2, <1>3, <2>1
  <2>2. CASE l # m
    <3>1. (\E n \in 1 .. Len(out') : out'[n].line = l) <=>
            \E n \in 1 .. Len(out) : out[n].line = l
      BY <1>2, <1>3, <2>2
    <3>2. Settled(l)' <=> Settled(l)
      BY <2>2
    <3>. QED  BY <3>1, <3>2 DEF Answers
  <2>. QED  BY <2>1, <2>2
<1>6. \A k, n \in 1 .. Len(out') : out'[k].line = out'[n].line => k = n
  BY <1>1, <1>2, <1>3, <1>4 DEF Answers
<1>. QED  BY <1>5, <1>6 DEF Answers

\* What the invariant says about a line, in one place.
LEMMA LineFacts ==
    ASSUME CodeInv
    PROVE  /\ pc \in [Threads -> ReaderStates \cup StopStates] /\ Reader \in Threads
           /\ kind \in [Lines -> Kinds \cup {"unread"}] /\ "unread" \notin Kinds
           /\ NoLine \notin Lines
           /\ tpc \in [Workers -> TaskStates]
           /\ held \in [Workers -> Lines \cup {NoLine}]
           /\ pc[Reader] \in {"handle", "initFlag", "enqueue"} =>
                 cur \in Lines /\ cur \notin Accepted \cup refused
           /\ \A l \in Accepted \cup refused : l \in Lines /\ kind[l] = "call"
           /\ Accepted \cap refused = {}
           /\ Queued \subseteq Accepted /\ finished \subseteq Accepted
           /\ \A l \in Queued : l \notin finished /\ \A w \in Workers : held[w] # l
           /\ \A w \in Workers : held[w] # NoLine => held[w] \in Accepted \ finished
           /\ \A v, w \in Workers : held[v] = held[w] /\ held[v] # NoLine => v = w
           /\ \A w \in Workers : tpc[w] = "none" <=> held[w] = NoLine
<1>1. /\ pc \in [Threads -> ReaderStates \cup StopStates] /\ Reader \in Threads
      /\ kind \in [Lines -> Kinds \cup {"unread"}] /\ "unread" \notin Kinds
      /\ NoLine \notin Lines
      /\ tpc \in [Workers -> TaskStates]
  BY ReaderIsThread, ServerAssumption DEF LineInv, CodeInv, RequestTypes
<1>2. pc[Reader] \in {"handle", "initFlag", "enqueue"} =>
         cur \in Lines /\ cur \notin Accepted \cup refused
  BY DEF LineInv, Arriving, Pool!Submitted, Accepted, CodeInv
<1>. QED  BY <1>1, <1>2 DEF CodeInv, Places, OnlyCalls, CallsMatch

\* A reply is sent exactly when its request becomes settled.
LEMMA AnswersNext == CodeInv /\ Answers /\ LineStep => Answers'
<1>. SUFFICES ASSUME CodeInv, Answers, LineStep PROVE Answers'
  OBVIOUS
<1>0. /\ pc \in [Threads -> ReaderStates \cup StopStates] /\ Reader \in Threads
      /\ kind \in [Lines -> Kinds \cup {"unread"}] /\ "unread" \notin Kinds
      /\ NoLine \notin Lines
      /\ tpc \in [Workers -> TaskStates]
      /\ RequestTypes
  BY ReaderIsThread, ServerAssumption DEF LineInv, CodeInv, RequestTypes
<1>1. pc[Reader] \in {"handle", "initFlag", "enqueue"} =>
         cur \in Lines /\ cur \notin Accepted \cup refused
  BY DEF LineInv, Arriving, Pool!Submitted, Accepted, CodeInv
<1>2. /\ held \in [Workers -> Lines \cup {NoLine}]
      /\ \A l \in Accepted \cup refused : l \in Lines /\ kind[l] = "call"
      /\ Accepted \cap refused = {}
      /\ Queued \subseteq Accepted
      /\ \A l \in Queued, w \in Workers : held[w] # l
      /\ \A w \in Workers : held[w] # NoLine => held[w] \in Accepted
      /\ \A v, w \in Workers : held[v] = held[w] /\ held[v] # NoLine => v = w
      /\ \A w \in Workers : tpc[w] = "none" <=> held[w] = NoLine
  BY DEF CodeInv, Places, OnlyCalls, CallsMatch
<1>. USE DEF Settled, Unanswered, Request
<1>3. CASE Elsewhere \/ FlagsSome \/ RegistersOne \/ SubmitsOne
  <2>1. out' = out
    BY <1>3 DEF Elsewhere, FlagsSome, RegistersOne, SubmitsOne
  <2>2. CASE Elsewhere \/ FlagsSome
    <3>1. \A l \in Lines : Settled(l)' <=> Settled(l)
      BY <2>2, <1>0 DEF Elsewhere, FlagsSome, Kept, ReaderStays, taskVars
    <3>. QED  BY <1>0, <2>1, <3>1, AnswersFrame
  <2>3. CASE RegistersOne \/ SubmitsOne
    <3>1. \A l \in Lines : Settled(l)' <=> Settled(l)
      BY <2>3, <1>0, <1>1 DEF RegistersOne, SubmitsOne, Kept, taskVars, Goto
    <3>. QED  BY <1>0, <2>1, <3>1, AnswersFrame
  <2>. QED  BY <1>3, <2>2, <2>3
<1>4. CASE ReadsOne
  <2>1. \A l \in Lines : Settled(l)' <=> Settled(l)
    BY <1>0, <1>4 DEF ReadsOne, Goto, Kept, taskVars, Requests, AllKinds, Immediate
  <2>. QED  BY <1>0, <1>4, <2>1, AnswersFrame DEF ReadsOne
<1>5. CASE AnswersOne
  <2>1. ~Settled(cur) /\ cur \in Lines
    BY <1>5 DEF AnswersOne
  <2>2. \A w \in Workers : held[w] # cur
    BY <1>0, <1>1, <1>2, <1>5 DEF AnswersOne
  <2>3. Settled(cur)'
    BY <1>1, <1>2, <1>5, <2>2 DEF AnswersOne, Kept
  <2>4. \A l \in Lines \ {cur} : Settled(l)' <=> Settled(l)
    BY <1>5 DEF AnswersOne, Kept, taskVars
  <2>. QED  BY <1>0, <1>5, <2>1, <2>3, <2>4, AnswersSend DEF AnswersOne
<1>6. ASSUME NEW w \in Workers, TakesOne(w) PROVE Answers'
  <2>1. \A l \in Lines : Settled(l)' <=> Settled(l)
    <3>1. PICK q \in Queued :
             /\ held' = [held EXCEPT ![w] = q]
             /\ Queued = Queued' \cup {q} /\ q \notin Queued'
      BY <1>6 DEF TakesOne
    <3>2. held[w] = NoLine /\ held'[w] = q /\ tpc'[w] = "check" /\ tpc[w] = "none"
      BY <1>0, <1>2, <1>6, <3>1 DEF TakesOne
    <3>3. \A v \in Workers \ {w} : held'[v] = held[v] /\ tpc'[v] = tpc[v]
      BY <1>0, <1>2, <1>6, <3>1 DEF TakesOne
    <3>4. \A l \in Lines :
             (\E v \in Workers : held'[v] = l /\ tpc'[v] # "erase") <=>
                l = q \/ \E v \in Workers : held[v] = l /\ tpc[v] # "erase"
      BY <1>0, <3>2, <3>3
    <3>. QED  BY <1>6, <3>1, <3>4 DEF TakesOne
  <2>. QED  BY <1>0, <1>6, <2>1, AnswersFrame DEF TakesOne
<1>7. ASSUME NEW w \in Workers, ClosureMoves(w) \/ ClosureUnwinds(w) PROVE Answers'
  <2>1. /\ \A v \in Workers \ {w} : tpc'[v] = tpc[v]
        /\ tpc[w] # "erase" /\ tpc'[w] # "erase"
    BY <1>0, <1>7 DEF ClosureMoves, ClosureUnwinds, TGoto
  <2>2. \A v \in Workers : tpc'[v] # "erase" <=> tpc[v] # "erase"
    BY <2>1
  <2>3. Kept /\ UNCHANGED <<pc, cur, kind, out>>
    BY <1>7 DEF ClosureMoves, ClosureUnwinds
  <2>4. \A l \in Lines : Settled(l)' <=> Settled(l)
    BY <2>2, <2>3 DEF Kept
  <2>. QED  BY <1>0, <2>3, <2>4, AnswersFrame
<1>8. ASSUME NEW w \in Workers, tpc[w] # "none", tpc[w] # "erase",
             held'[w] = NoLine \/ (held'[w] = held[w] /\ tpc'[w] = "erase"),
             \A v \in Workers \ {w} : held'[v] = held[v] /\ tpc'[v] = tpc[v],
             Queued' = Queued, refused' = refused,
             UNCHANGED <<pc, cur, kind>>, \E code : Send(held[w], code)
      PROVE  Answers'
  <2>0. PICK m \in Lines : m = held[w]
    BY <1>2, <1>8
  <2>1. m \in Accepted /\ m \notin Queued \cup refused /\ kind[m] = "call"
    BY <1>2, <1>8, <2>0
  <2>2. ~Settled(m)
    BY <1>8, <2>0
  <2>3. ~(m = cur /\ pc[Reader] \in {"handle", "enqueue"})
    BY <1>1, <2>1
  <2>4. \A v \in Workers : held'[v] = m => tpc'[v] = "erase"
    BY <1>0, <1>2, <1>8, <2>0
  <2>5. Settled(m)'
    BY <1>8, <2>1, <2>3, <2>4 DEF Requests, AllKinds
  <2>6. \A l \in Lines \ {m} : Settled(l)' <=> Settled(l)
    <3>1. \A l \in Lines \ {m}, v \in Workers :
            (held'[v] = l /\ tpc'[v] # "erase")
              <=> (held[v] = l /\ tpc[v] # "erase")
      BY <1>0, <1>8, <2>0
    <3>. QED  BY <1>8, <3>1
  <2>. QED  BY <1>0, <1>8, <2>0, <2>2, <2>5, <2>6, AnswersSend
<1>9. ASSUME NEW w \in Workers, ClosureSends(w) PROVE Answers'
  <2>1. /\ tpc[w] \notin {"none", "erase"} /\ tpc'[w] = "erase"
        /\ \A v \in Workers \ {w} : tpc'[v] = tpc[v]
    BY <1>0, <1>9 DEF ClosureSends, TGoto
  <2>. QED  BY <1>8, <1>9, <2>1 DEF ClosureSends, Kept
<1>10. ASSUME NEW w \in Workers, EndsOne(w) PROVE Answers'
  <2>1. /\ held'[w] = NoLine
        /\ \A v \in Workers \ {w} : held'[v] = held[v] /\ tpc'[v] = tpc[v]
        /\ Queued' = Queued /\ UNCHANGED <<pc, cur, kind, refused>>
    BY <1>0, <1>2, <1>10 DEF EndsOne, TGoto
  <2>2. CASE tpc[w] = "erase"
    <3>1. out' = out
      BY <1>10, <2>2 DEF EndsOne, TGoto
    <3>2. \A l \in Lines, v \in Workers :
            (held'[v] = l /\ tpc'[v] # "erase")
              <=> (held[v] = l /\ tpc[v] # "erase")
      BY <1>0, <2>1, <2>2
    <3>3. \A l \in Lines : Settled(l)' <=> Settled(l)
      BY <2>1, <3>2
    <3>. QED  BY <1>0, <3>1, <3>3, AnswersFrame
  <2>3. CASE tpc[w] # "erase"
    <3>1. tpc[w] = "catch" /\ Send(held[w], "InternalError")
      BY <1>10, <2>3 DEF EndsOne, TGoto
    <3>. QED  BY <1>8, <2>1, <3>1
  <2>. QED  BY <2>2, <2>3
<1>. QED
  BY <1>3, <1>4, <1>5, <1>6, <1>7, <1>9, <1>10 DEF LineStep

\* The guard erases whatever is registered under its id, hence its own call
\* in particular, before the call stops being in flight.
LEMMA EntriesNext == CodeInv /\ EntriesInFlight /\ LineStep => EntriesInFlight'
<1>. SUFFICES ASSUME CodeInv, EntriesInFlight, LineStep PROVE EntriesInFlight'
  OBVIOUS
<1>0. RequestTypes /\ IdOf \in [Lines -> Ids]
  BY ServerAssumption DEF CodeInv
<1>1. active \in [Ids -> Lines \cup {NoLine}]
  BY <1>0 DEF RequestTypes
<1>2. ASSUME NEW l PROVE
         InFlight(l) <=> \/ l = cur /\ pc[Reader] = "enqueue"
                         \/ l \in Queued
                         \/ \E w \in Workers : held[w] = l /\ tpc[w] # "catch"
  BY DEF InFlight, Worker, Queued
<1>3. ASSUME NEW l PROVE
         InFlight(l)' <=> \/ l = cur' /\ pc'[Reader] = "enqueue"
                          \/ l \in Queued'
                          \/ \E w \in Workers : held'[w] = l /\ tpc'[w] # "catch"
  BY DEF InFlight, Worker, Queued
<1>4. ASSUME active' = active, refused \subseteq refused',
             \A l \in Lines : InFlight(l) \/ l \in refused =>
                                InFlight(l)' \/ l \in refused'
      PROVE  EntriesInFlight'
  BY <1>1, <1>4 DEF EntriesInFlight
<1>5. CASE Elsewhere \/ FlagsSome
  BY <1>2, <1>3, <1>4, <1>5 DEF Elsewhere, FlagsSome, Kept, ReaderStays,
     requestVars, taskVars
<1>6. CASE ReadsOne \/ AnswersOne
  BY <1>2, <1>3, <1>4, <1>6 DEF ReadsOne, AnswersOne, Kept, requestVars, taskVars,
     Goto
<1>7. CASE SubmitsOne
  BY <1>2, <1>3, <1>4, <1>7 DEF SubmitsOne, requestVars, taskVars
<1>8. CASE RegistersOne
  <2>1. /\ cur \in Lines /\ pc'[Reader] = "enqueue" /\ cur' = cur
        /\ active' = [active EXCEPT ![IdOf[cur]] = cur]
    BY <1>8, LineFacts DEF RegistersOne, Goto
  <2>2. \A l \in Lines : InFlight(l) => InFlight(l)'
    BY <1>2, <1>3, <1>8, <2>1 DEF RegistersOne, Kept, taskVars
  <2>3. InFlight(cur)'
    BY <1>3, <2>1
  <2>4. refused' = refused
    BY <1>8 DEF RegistersOne, Kept
  <2>5. ASSUME NEW i \in Ids, active'[i] # NoLine
        PROVE  /\ IdOf[active'[i]] = i
               /\ active'[i] \in Lines
               /\ active'[i] = cur \/ InFlight(active'[i]) \/ active'[i] \in refused
    BY <1>0, <1>1, <2>1, <2>5 DEF EntriesInFlight
  <2>6. ASSUME NEW i \in Ids, active'[i] # NoLine
        PROVE  InFlight(active[i])' \/ active'[i] \in refused'
    <3>1. PICK l \in Lines : l = active'[i]
      BY <2>5, <2>6
    <3>2. InFlight(l)' \/ l \in refused'
      BY <2>1, <2>2, <2>3, <2>4, <2>5, <2>6, <3>1
    <3>. QED  BY <3>1, <3>2 DEF InFlight
  <2>. QED  BY <2>5, <2>6 DEF EntriesInFlight
<1>9. ASSUME NEW w \in Workers, TakesOne(w) PROVE EntriesInFlight'
  <2>1. PICK q \in Queued :
           /\ held' = [held EXCEPT ![w] = q]
           /\ Queued = Queued' \cup {q} /\ q \notin Queued'
    BY <1>9 DEF TakesOne
  <2>2. held[w] = NoLine /\ held'[w] = q /\ tpc'[w] = "check"
    BY <1>9, <2>1, LineFacts DEF TakesOne
  <2>3. \A v \in Workers \ {w} : held'[v] = held[v] /\ tpc'[v] = tpc[v]
    BY <1>9, <2>1, LineFacts DEF TakesOne
  <2>4. \A l \in Lines : InFlight(l) => InFlight(l)'
    BY <1>2, <1>3, <1>9, <2>1, <2>2, <2>3, LineFacts DEF TakesOne
  <2>. QED  BY <1>4, <1>9, <2>4 DEF TakesOne, requestVars
<1>10. ASSUME NEW w \in Workers, ClosureSends(w) \/ ClosureMoves(w)
   PROVE EntriesInFlight'
  <2>1. /\ \A v \in Workers \ {w} : tpc'[v] = tpc[v]
        /\ tpc'[w] # "catch"
    BY <1>10, LineFacts DEF ClosureSends, ClosureMoves, TGoto
  <2>2. \A l \in Lines : InFlight(l) => InFlight(l)'
    BY <1>2, <1>3, <1>10, <2>1 DEF ClosureSends, ClosureMoves, Kept
  <2>. QED  BY <1>4, <1>10, <2>2 DEF ClosureSends, ClosureMoves, Kept, requestVars
<1>11. ASSUME NEW w \in Workers, held[w] \in Lines,
              EraseEntry(w) \/ (active' = active /\ tpc[w] = "catch"),
              \A v \in Workers \ {w} : held'[v] = held[v] /\ tpc'[v] = tpc[v],
              Queued' = Queued, refused' = refused, UNCHANGED <<pc, cur>>
       PROVE  EntriesInFlight'
  <2>1. ASSUME NEW l \in Lines, l # held[w], InFlight(l) PROVE InFlight(l)'
    BY <1>2, <1>3, <1>11, <2>1
  <2>2. ASSUME NEW i \in Ids, active'[i] # NoLine
        PROVE  /\ active'[i] = active[i] /\ active[i] \in Lines
               /\ active[i] = held[w] => tpc[w] = "catch"
    BY <1>0, <1>1, <1>11, <2>2 DEF EraseEntry, EntriesInFlight
  <2>3. ASSUME NEW i \in Ids, active'[i] # NoLine
        PROVE  active[i] # held[w]
    <3>. SUFFICES ASSUME active[i] = held[w] PROVE FALSE
      OBVIOUS
    <3>1. tpc[w] = "catch" /\ active[i] \in Lines
      BY <2>2, <2>3
    <3>2. InFlight(active[i]) \/ active[i] \in refused
      BY <2>2, <2>3 DEF EntriesInFlight
    <3>3. ~InFlight(active[i])
      BY <1>2, <3>1, LineFacts
    <3>. QED  BY <3>1, <3>2, <3>3, LineFacts
  <2>4. ASSUME NEW i \in Ids, active'[i] # NoLine
        PROVE  /\ IdOf[active'[i]] = i
               /\ InFlight(active[i])' \/ active'[i] \in refused'
    <3>1. PICK l \in Lines : l = active'[i] /\ l = active[i] /\ l # held[w]
      BY <2>2, <2>3, <2>4
    <3>2. IdOf[l] = i /\ (InFlight(l)' \/ l \in refused')
      BY <1>11, <2>1, <2>4, <3>1 DEF EntriesInFlight
    <3>. QED  BY <3>1, <3>2 DEF InFlight
  <2>. QED  BY <2>4 DEF EntriesInFlight
<1>12. ASSUME NEW w \in Workers, ClosureUnwinds(w) \/ EndsOne(w)
   PROVE EntriesInFlight'
  <2>1. tpc[w] # "none" /\ (EraseEntry(w) \/ (active' = active /\ tpc[w] = "catch"))
    BY <1>12, LineFacts DEF ClosureUnwinds, EndsOne, TGoto
  <2>2. held[w] \in Lines
    BY <2>1, LineFacts
  <2>3. \A v \in Workers \ {w} : held'[v] = held[v] /\ tpc'[v] = tpc[v]
    BY <1>12, LineFacts DEF ClosureUnwinds, EndsOne, TGoto, Kept
  <2>. QED  BY <1>11, <1>12, <2>1, <2>2, <2>3 DEF ClosureUnwinds, EndsOne, Kept
<1>. QED
  BY <1>5, <1>6, <1>7, <1>8, <1>9, <1>10, <1>12 DEF LineStep

\* Only a call in flight with the same id replaces or erases an entry, and then
\* both are among the calls that share one.
LEMMA AllRegisteredNext ==
    ASSUME CodeInv, AllRegistered, LineStep
    PROVE  AllRegistered'
<1>0. IdOf \in [Lines -> Ids] /\ active \in [Ids -> Lines \cup {NoLine}]
  BY ServerAssumption DEF CodeInv, RequestTypes
<1>1. ASSUME NEW l PROVE
         /\ InFlight(l) <=> \/ l = cur /\ pc[Reader] = "enqueue"
                            \/ l \in Queued
                            \/ \E w \in Workers : held[w] = l /\ tpc[w] # "catch"
         /\ InFlight(l)' <=> \/ l = cur' /\ pc'[Reader] = "enqueue"
                             \/ l \in Queued'
                             \/ \E w \in Workers : held'[w] = l /\ tpc'[w] # "catch"
  BY DEF InFlight, Worker, Queued
<1>2. ASSUME active' = active, shared' = shared,
             \A l \in Lines : InFlight(l)' => InFlight(l)
      PROVE  AllRegistered'
  BY <1>2 DEF AllRegistered
<1>3. CASE Elsewhere \/ FlagsSome
  BY <1>1, <1>2, <1>3 DEF Elsewhere, FlagsSome, Kept, ReaderStays, requestVars,
     taskVars
<1>4. CASE ReadsOne \/ AnswersOne
  BY <1>1, <1>2, <1>4, LineFacts DEF ReadsOne, AnswersOne, Kept, requestVars,
     taskVars, Goto
<1>5. CASE SubmitsOne
  BY <1>1, <1>2, <1>5 DEF SubmitsOne, requestVars, taskVars
<1>6. CASE RegistersOne
  <2>. DEFINE same == SameId(IdOf[cur])
  <2>1. /\ cur \in Lines /\ cur' = cur
        /\ active' = [active EXCEPT ![IdOf[cur]] = cur]
        /\ shared' = IF same = {} THEN shared ELSE shared \cup same \cup {cur}
    BY <1>6 DEF RegistersOne
  <2>2. \A l \in Lines \ {cur} : InFlight(l)' => InFlight(l)
    BY <1>1, <1>6, <2>1 DEF RegistersOne, Kept, taskVars
  <2>3. ~InFlight(cur)
    BY <1>1, <1>6, LineFacts DEF RegistersOne, Goto
  <2>4. /\ same \subseteq Lines \ {cur}
        /\ \A l \in Lines : l \in same <=> InFlight(l) /\ IdOf[l] = IdOf[cur]
    BY <2>3 DEF SameId
  <2>5. shared \subseteq shared' /\ same \subseteq shared'
    BY <2>1
  <2>. HIDE DEF same
  <2>6. active'[IdOf[cur]] = cur /\ \A l \in Lines :
           IdOf[l] # IdOf[cur] => active'[IdOf[l]] = active[IdOf[l]]
    BY <1>0, <2>1
  <2>7. ASSUME NEW l \in Lines, InFlight(l)', l \notin shared'
        PROVE  active'[IdOf[l]] = l
    BY <2>2, <2>4, <2>5, <2>6, <2>7 DEF AllRegistered
  <2>8. ASSUME NEW l \in Lines, NEW m \in Lines, InFlight(l)', InFlight(m)',
               IdOf[l] = IdOf[m], l # m
        PROVE  l \in shared'
    BY <2>1, <2>2, <2>4, <2>5, <2>8 DEF AllRegistered
  <2>9. ASSUME NEW l \in shared'
        PROVE  l \in Lines /\ \E m \in Lines \ {l} : IdOf[m] = IdOf[l]
    <3>1. CASE l \in shared
      BY <3>1 DEF AllRegistered
    <3>2. CASE l \in same
      BY <2>1, <2>4, <3>2
    <3>3. CASE l = cur /\ same # {}
      BY <2>1, <2>4, <3>3
    <3>. QED  BY <2>1, <2>9, <3>1, <3>2, <3>3
  <2>. QED  BY <2>7, <2>8, <2>9 DEF AllRegistered
<1>7. ASSUME NEW w \in Workers, TakesOne(w) PROVE AllRegistered'
  <2>1. PICK q \in Queued :
           /\ held' = [held EXCEPT ![w] = q]
           /\ Queued = Queued' \cup {q} /\ q \notin Queued'
    BY <1>7 DEF TakesOne
  <2>2. held[w] = NoLine /\ held'[w] = q
    BY <1>7, <2>1, LineFacts DEF TakesOne
  <2>3. \A v \in Workers \ {w} : held'[v] = held[v] /\ tpc'[v] = tpc[v]
    BY <1>7, <2>1, LineFacts DEF TakesOne
  <2>4. \A l \in Lines : InFlight(l)' => InFlight(l)
    BY <1>1, <1>7, <2>1, <2>2, <2>3, LineFacts DEF TakesOne
  <2>. QED  BY <1>2, <1>7, <2>4 DEF TakesOne, requestVars
<1>8. ASSUME NEW w \in Workers, ClosureSends(w) \/ ClosureMoves(w)
   PROVE AllRegistered'
  <2>1. /\ \A v \in Workers \ {w} : tpc'[v] = tpc[v]
        /\ tpc[w] # "catch"
    BY <1>8, LineFacts DEF ClosureSends, ClosureMoves, TGoto
  <2>2. \A l \in Lines : InFlight(l)' => InFlight(l)
    BY <1>1, <1>8, <2>1 DEF ClosureSends, ClosureMoves, Kept
  <2>. QED  BY <1>2, <1>8, <2>2 DEF ClosureSends, ClosureMoves, requestVars
<1>9. ASSUME NEW w \in Workers, ClosureUnwinds(w) \/ EndsOne(w) PROVE AllRegistered'
  <2>1. /\ \A v \in Workers \ {w} : held'[v] = held[v] /\ tpc'[v] = tpc[v]
        /\ held'[w] = NoLine \/ (held'[w] = held[w] /\ tpc'[w] = "catch")
        /\ tpc[w] # "none"
    BY <1>9, LineFacts DEF ClosureUnwinds, EndsOne, TGoto, Kept
  <2>2. Queued' = Queued /\ UNCHANGED <<pc, cur>>
    BY <1>9 DEF ClosureUnwinds, EndsOne, Kept
  <2>3. PICK m \in Lines : m = held[w]
    BY <2>1, LineFacts
  <2>4. ASSUME NEW l \in Lines, InFlight(l)' PROVE InFlight(l) /\ l # m
    BY <1>1, <2>1, <2>2, <2>3, <2>4, LineFacts
  <2>5. shared' = shared
    BY <1>9 DEF ClosureUnwinds, EndsOne
  <2>6. \/ active' = active
        \/ (active' = [active EXCEPT ![IdOf[m]] = NoLine] /\ InFlight(m))
    <3>1. active' = active \/ (EraseEntry(w) /\ tpc[w] # "catch")
      BY <1>9 DEF ClosureUnwinds, EndsOne, TGoto
    <3>. QED  BY <1>1, <2>3, <3>1 DEF EraseEntry
  <2>7. ASSUME NEW l \in Lines, InFlight(l)', l \notin shared
        PROVE  active'[IdOf[l]] = l
    <3>1. InFlight(l) /\ l # m /\ active[IdOf[l]] = l
      BY <2>4, <2>7 DEF AllRegistered
    <3>2. CASE InFlight(m)
      <4>1. IdOf[l] # IdOf[m]
        BY <2>7, <3>1, <3>2 DEF AllRegistered
      <4>. QED  BY <1>0, <2>6, <3>1, <4>1
    <3>3. CASE active' = active
      BY <3>1, <3>3
    <3>. QED  BY <2>6, <3>2, <3>3
  <2>. QED  BY <2>4, <2>5, <2>7 DEF AllRegistered
<1>. QED
  BY <1>3, <1>4, <1>5, <1>6, <1>7, <1>8, <1>9 DEF LineStep

\* A tool is executed by the dispatch of its closure.
LEMMA ExecutedNext == CodeInv /\ ExecutedByWorker /\ LineStep => ExecutedByWorker'
<1>. SUFFICES ASSUME CodeInv, ExecutedByWorker, LineStep PROVE ExecutedByWorker'
  OBVIOUS
<1>1. executed \subseteq Lines
  BY DEF CodeInv, RequestTypes
<1>2. CASE Elsewhere \/ ReadsOne \/ AnswersOne \/ RegistersOne \/ SubmitsOne
   \/ FlagsSome
  BY <1>2 DEF ExecutedByWorker, Elsewhere, ReadsOne, AnswersOne, RegistersOne,
     SubmitsOne, FlagsSome, Kept, taskVars
<1>3. ASSUME NEW w \in Workers, TakesOne(w) PROVE ExecutedByWorker'
  <2>1. \A v \in Workers \ {w} : held'[v] = held[v] /\ tpc'[v] = tpc[v]
    BY <1>3, LineFacts DEF TakesOne
  <2>. QED  BY <1>1, <1>3, <2>1, LineFacts DEF TakesOne, ExecutedByWorker
<1>4. ASSUME NEW w \in Workers, ClosureSends(w) \/ ClosureMoves(w)
   \/ ClosureUnwinds(w)
      PROVE  ExecutedByWorker'
  <2>1. /\ \A v \in Workers \ {w} : tpc'[v] = tpc[v]
        /\ tpc[w] \notin {"check", "dispatch"}
             => tpc'[w] \notin {"check", "dispatch"}
        /\ \/ executed' = executed
           \/ /\ executed' = executed \cup {held[w]}
              /\ tpc'[w] = "tool"
        /\ UNCHANGED <<held, finished>>
    BY <1>4, LineFacts DEF ClosureSends, ClosureMoves, ClosureUnwinds, TGoto, Kept
  <2>. QED  BY <2>1 DEF ExecutedByWorker
<1>5. ASSUME NEW w \in Workers, EndsOne(w) PROVE ExecutedByWorker'
  <2>1. /\ \A v \in Workers \ {w} : held'[v] = held[v] /\ tpc'[v] = tpc[v]
        /\ finished' = finished \cup {held[w]} /\ executed' = executed
    BY <1>5, LineFacts DEF EndsOne, TGoto
  <2>. QED  BY <2>1 DEF ExecutedByWorker
<1>. QED  BY <1>2, <1>3, <1>4, <1>5 DEF LineStep

\* Steps that flag nothing, send nothing and move no closure forward.
LEMMA CancellationFrame ==
    ASSUME Cancellation, UNCHANGED <<cancelled, cancelAt, executed, out>>,
           CodeInv,
           \A l \in Lines :
              l \in Accepted \cup refused \/ (l = cur /\ pc[Reader] = "enqueue") =>
              l \in Accepted' \cup refused'
                \/ (l = cur' /\ pc'[Reader] = "enqueue"),
           \A w \in Workers :
              \/ held'[w] = NoLine \/ tpc'[w] = "check"
              \/ held'[w] = held[w] /\ tpc'[w] = tpc[w]
    PROVE  Cancellation'
BY LineFacts DEF Cancellation, CodeInv, RequestTypes

\* A call that is flagged is in flight, or refused: if queued it has not been
\* executed, and if before its second check it has not been answered.
LEMMA CancellationFlags ==
    ASSUME CodeInv, Answers, EntriesInFlight, ExecutedByWorker, Cancellation,
           FlagsSome
    PROVE  Cancellation'
<1>1. PICK S \in SUBSET Registered : Flag(S)
  BY DEF FlagsSome
<1>2. /\ cancelAt \in [Lines -> {"never", "queued", "running", "late"}]
      /\ cancelled \subseteq Lines /\ out \in Seq([line : Lines, code : Codes])
      /\ active \in [Ids -> Lines \cup {NoLine}] /\ executed \subseteq Lines
  BY DEF CodeInv, RequestTypes
<1>3. /\ cancelled' = cancelled \cup S
      /\ \A l \in Lines :
            cancelAt'[l] = IF l \in S \ cancelled THEN Stage(l) ELSE cancelAt[l]
      /\ Kept /\ ReaderStays /\ UNCHANGED <<cur, tpc, executed, out>>
  BY <1>1 DEF Flag, FlagsSome, taskVars
<1>4. ASSUME NEW l \in S
      PROVE  /\ l \in Lines
             /\ \/ l = cur /\ pc[Reader] = "enqueue"
                \/ l \in Queued \/ l \in refused
                \/ \E w \in Workers : held[w] = l /\ tpc[w] # "catch"
  BY <1>2 DEF Registered, EntriesInFlight, InFlight, Queued, Worker
<1>5. ASSUME NEW l \in Lines
      PROVE  /\ Stage(l) = "queued" => \A w \in Workers : held[w] # l
             /\ Stage(l) = "running" =>
                   \E w \in Workers : held[w] = l /\
                      tpc[w] \in {"check", "dispatch", "tool", "recheck"}
  BY DEF Stage, Worker
<1>6. ASSUME NEW l \in S, Stage(l) = "queued" PROVE l \notin executed
  <2>1. \A w \in Workers : held[w] # l
    BY <1>4, <1>5, <1>6
  <2>2. l \notin finished
    BY <1>4, <2>1, LineFacts
  <2>. QED  BY <2>1, <2>2 DEF ExecutedByWorker
<1>7. ASSUME NEW l \in S, Stage(l) = "running", NEW w \in Workers, held[w] = l
      PROVE  tpc[w] \in {"check", "dispatch", "tool", "recheck"}
  BY <1>4, <1>5, <1>7, LineFacts
<1>8. ASSUME NEW l \in S, Stage(l) \in {"queued", "running"},
   NEW n \in 1 .. Len(out)
      PROVE  out[n].line # l
  <2>1. Unanswered(l)
    BY <1>4, <1>5, <1>8 DEF Unanswered
  <2>. QED  BY <1>4, <2>1 DEF Answers, Settled
<1>9. \A l \in cancelled' :
         l \in Accepted' \cup refused' \/ (l = cur' /\ pc'[Reader] = "enqueue")
  BY <1>3, <1>4, LineFacts DEF Cancellation, Kept, ReaderStays
<1>10. \A l \in Lines : cancelAt'[l] # "never" => l \in cancelled'
  BY <1>3 DEF Cancellation
<1>11. \A l \in Lines : cancelAt'[l] = "queued" =>
          /\ l \notin executed'
          /\ \A w \in Workers : held'[w] = l => tpc'[w] \in {"check", "erase"}
  BY <1>3, <1>5, <1>6 DEF Cancellation, Kept
<1>12. \A l \in Lines : cancelAt'[l] \in {"queued", "running"} =>
          \A w \in Workers :
              held'[w] = l => tpc'[w] \notin {"reply", "unwind", "catch"}
  BY <1>3, <1>5, <1>7 DEF Cancellation, Kept
<1>13. \A n \in 1 .. Len(out') :
          cancelAt'[out'[n].line] \in {"queued", "running"}
            => out'[n].code # "Result"
  <2>0. out \in Seq([line : Lines, code : Codes])
    BY <1>2
  <2>1. ASSUME NEW n \in 1 .. Len(out) PROVE out[n].line \in Lines
    <3>1. out[n] \in [line : Lines, code : Codes]
      BY <2>0, ElementOfSeq
    <3>. QED  BY <3>1
  <2>. QED  BY <1>3, <1>8, <2>1 DEF Cancellation
<1>. QED  BY <1>9, <1>10, <1>11, <1>12, <1>13 DEF Cancellation

\* A flagged closure is stopped by its next check.
LEMMA CancellationNext ==
    ASSUME CodeInv, Answers, EntriesInFlight, ExecutedByWorker, Cancellation,
           LineStep
    PROVE  Cancellation'
<1>1. CASE FlagsSome
  BY <1>1, CancellationFlags
<1>2. CASE Elsewhere \/ ReadsOne
  BY <1>2, CancellationFrame, LineFacts
     DEF Elsewhere, ReadsOne, Kept, ReaderStays, requestVars, taskVars, Goto
<1>3. CASE RegistersOne \/ SubmitsOne
  BY <1>3, CancellationFrame, LineFacts
     DEF RegistersOne, SubmitsOne, Kept, requestVars, taskVars, Goto
<1>4. ASSUME NEW m \in Lines, NEW code, Send(m, code),
             code = "Result" => cancelAt[m] \notin {"queued", "running"}
      PROVE  \A n \in 1 .. Len(out') :
                cancelAt[out'[n].line] \in {"queued", "running"}
                  => out'[n].code # "Result"
  <2>1. /\ Len(out') = Len(out) + 1 /\ Len(out) \in Nat
        /\ \A n \in 1 .. Len(out) : out'[n] = out[n]
        /\ out'[Len(out) + 1].line = m /\ out'[Len(out) + 1].code = code
    BY <1>4 DEF Send, CodeInv, RequestTypes
  <2>2. 1 .. Len(out') = (1 .. Len(out)) \cup {Len(out) + 1}
    BY <2>1
  <2>. QED  BY <1>4, <2>1, <2>2 DEF Cancellation
<1>5. CASE AnswersOne
  <2>1. cur \in Lines /\ cur \notin cancelled
    BY <1>5, LineFacts DEF AnswersOne, Cancellation
  <2>2. cancelAt[cur] = "never"
    BY <2>1 DEF Cancellation
  <2>3. \A n \in 1 .. Len(out') :
          cancelAt[out'[n].line] \in {"queued", "running"}
            => out'[n].code # "Result"
    BY <1>4, <1>5, <2>1, <2>2 DEF AnswersOne
  <2>. QED  BY <1>5, <2>3 DEF AnswersOne, Cancellation, Kept, requestVars, taskVars
<1>6. ASSUME NEW w \in Workers, TakesOne(w) PROVE Cancellation'
  BY <1>6, CancellationFrame, LineFacts DEF TakesOne, requestVars
<1>7. ASSUME NEW w \in Workers, tpc[w] # "none" PROVE held[w] \in Lines
  BY <1>7, LineFacts
<1>8. ASSUME NEW w \in Workers, ClosureSends(w) PROVE Cancellation'
  <2>1. /\ tpc[w] # "none" /\ tpc'[w] = "erase"
        /\ \A v \in Workers \ {w} : tpc'[v] = tpc[v]
        /\ \E code : /\ Send(held[w], code)
                     /\ code = "Result" => tpc[w] = "reply"
    BY <1>8, LineFacts DEF ClosureSends, TGoto
  <2>2. tpc[w] = "reply" => cancelAt[held[w]] \notin {"queued", "running"}
    BY <1>7 DEF Cancellation
  <2>3. \A n \in 1 .. Len(out') :
          cancelAt[out'[n].line] \in {"queued", "running"}
            => out'[n].code # "Result"
    BY <1>4, <1>7, <2>1, <2>2
  <2>. QED  BY <1>8, <2>1, <2>3 DEF ClosureSends, Cancellation, Kept, requestVars
<1>9. ASSUME NEW w \in Workers, ClosureMoves(w) PROVE Cancellation'
  <2>1. /\ tpc[w] # "none" /\ \A v \in Workers \ {w} : tpc'[v] = tpc[v]
        /\ tpc'[w] # "catch"
        /\ tpc'[w] \in {"reply", "unwind"} =>
              (tpc[w] = "recheck" /\ held[w] \notin cancelled) \/ tpc[w] = "reply"
        /\ tpc[w] = "check" => held[w] \notin cancelled
        /\ \/ executed' = executed
           \/ executed' = executed \cup {held[w]} /\ tpc[w] = "dispatch"
        /\ tpc[w] \in {"check", "dispatch", "tool", "recheck", "reply"}
    BY <1>9, LineFacts DEF ClosureMoves, TGoto
  <2>2. cancelAt[held[w]] # "queued"
    BY <1>7, <2>1 DEF Cancellation
  <2>3. tpc'[w] \in {"reply", "unwind"}
     => cancelAt[held[w]] \notin {"queued", "running"}
    BY <1>7, <2>1 DEF Cancellation
  <2>. QED  BY <1>9, <2>1, <2>2, <2>3 DEF ClosureMoves, Cancellation, Kept,
       requestVars
<1>10. ASSUME NEW w \in Workers, ClosureUnwinds(w) PROVE Cancellation'
  <2>1. /\ tpc[w] = "unwind" /\ \A v \in Workers \ {w} : tpc'[v] = tpc[v]
    BY <1>10, LineFacts DEF ClosureUnwinds, TGoto
  <2>2. cancelAt[held[w]] \notin {"queued", "running"}
    BY <1>7, <2>1 DEF Cancellation
  <2>. QED  BY <1>10, <2>1, <2>2 DEF ClosureUnwinds, Cancellation, Kept
<1>11. ASSUME NEW w \in Workers, EndsOne(w) PROVE Cancellation'
  <2>1. /\ \A v \in Workers \ {w} : held'[v] = held[v] /\ tpc'[v] = tpc[v]
        /\ held'[w] = NoLine /\ tpc[w] # "none"
        /\ out' = out \/ Send(held[w], "InternalError")
    BY <1>11, LineFacts DEF EndsOne, TGoto
  <2>2. \A n \in 1 .. Len(out') :
          cancelAt[out'[n].line] \in {"queued", "running"}
            => out'[n].code # "Result"
    BY <1>4, <1>7, <2>1 DEF Cancellation
  <2>. QED  BY <1>11, <2>1, <2>2, LineFacts DEF EndsOne, Cancellation
<1>. QED
  BY <1>1, <1>2, <1>3, <1>5, <1>6, <1>8, <1>9, <1>10, <1>11 DEF LineStep

-----------------------------------------------------------------------------
\* A thread of the server and its call in the pool move together.
LEMMA CallsMatchNext ==
    ASSUME CodeInv, Places', PoolProofs!PoolInv, LineStep, [Next]_vars
    PROVE  CallsMatch'
<1>. USE DEF InStop
<1>0. /\ pc \in [Threads -> ReaderStates \cup StopStates] /\ Reader \in Threads
      /\ cpc \in [Threads -> Pool!CallerStates]
      /\ CallsMatch
      /\ \A c \in Threads : cpc[c] # "free" => pc[c] \in Calling
  BY LineFacts DEF CodeInv, LineInv
<1>1. \A w \in Workers : tpc'[w] = "none" <=> held'[w] = NoLine
  <2>. USE DEF CallsMatch
  <2>1. CASE Elsewhere \/ ReadsOne \/ AnswersOne \/ RegistersOne \/ SubmitsOne
     \/ FlagsSome
    BY <1>0, <2>1 DEF Elsewhere, ReadsOne, AnswersOne, RegistersOne, SubmitsOne,
       FlagsSome, Kept, taskVars
  <2>2. ASSUME NEW w \in Workers, TakesOne(w)
        PROVE  \A v \in Workers : tpc'[v] = "none" <=> held'[v] = NoLine
    <3>1. held'[w] # NoLine /\ tpc'[w] = "check"
      BY <2>2, LineFacts DEF TakesOne
    <3>2. \A v \in Workers \ {w} : held'[v] = held[v] /\ tpc'[v] = tpc[v]
      BY <2>2, LineFacts DEF TakesOne
    <3>. QED  BY <1>0, <3>1, <3>2
  <2>3. ASSUME NEW w \in Workers,
               ClosureSends(w) \/ ClosureMoves(w) \/ ClosureUnwinds(w)
        PROVE  \A v \in Workers : tpc'[v] = "none" <=> held'[v] = NoLine
    <3>1. /\ \A v \in Workers \ {w} : tpc'[v] = tpc[v]
          /\ tpc[w] # "none" /\ tpc'[w] # "none" /\ held' = held
      BY <2>3, LineFacts DEF ClosureSends, ClosureMoves, ClosureUnwinds, TGoto, Kept
    <3>. QED  BY <1>0, <3>1
  <2>4. ASSUME NEW w \in Workers, EndsOne(w)
        PROVE  \A v \in Workers : tpc'[v] = "none" <=> held'[v] = NoLine
    <3>1. /\ \A v \in Workers \ {w} : held'[v] = held[v] /\ tpc'[v] = tpc[v]
          /\ held'[w] = NoLine /\ tpc'[w] = "none"
      BY <2>4, LineFacts DEF EndsOne, TGoto
    <3>. QED  BY <1>0, <3>1
  <2>. QED  BY <2>1, <2>2, <2>3, <2>4 DEF LineStep
<1>2. ASSUME NEW c \in Threads,
             \A d \in Threads \ {c} : pc'[d] = pc[d],
             \A d \in Threads \ {c} :
                cpc'[d] = cpc[d] \/ (cpc[d] = "idleAsleep" /\ cpc'[d] = "waiting"),
             pc'[c] = "enqueued" <=> cpc'[c] = "enqueued",
             pc'[c] = "draining" <=> cpc'[c] \in {"waiting", "idleAsleep"},
             pc'[c] = "joining" <=> cpc'[c] \in InStop,
             c # Reader => pc'[c] \in StopStates,
             pc'[c] # "out" \/ pc'[c] = pc[c]
      PROVE  CallsMatch'
  <2>1. \A d \in Threads \ {c} :
          /\ pc'[d] = "enqueued" <=> cpc'[d] = "enqueued"
          /\ pc'[d] = "draining" <=> cpc'[d] \in {"waiting", "idleAsleep"}
          /\ pc'[d] = "joining" <=> cpc'[d] \in InStop
          /\ d # Reader => pc'[d] \in StopStates
    BY <1>0, <1>2 DEF CallsMatch
  <2>2. pc'[Reader] # "out"
    BY <1>0, <1>2 DEF CallsMatch
  <2>. QED  BY <1>1, <1>2, <2>1, <2>2 DEF CallsMatch
<1>3. ASSUME UNCHANGED pc,
             \A d \in Threads :
                cpc'[d] = cpc[d] \/ (cpc[d] = "idleAsleep" /\ cpc'[d] = "waiting")
      PROVE  CallsMatch'
  BY <1>0, <1>1, <1>3 DEF CallsMatch
<1>4. ASSUME NEW c \in Threads, NEW from, NEW to, Goto(c, from, to), UNCHANGED cpc,
             from \notin Calling, to \notin Calling, to # "out",
             c # Reader => to \in StopStates
      PROVE  CallsMatch'
  <2>1. pc[c] = from /\ pc'[c] = to /\ \A d \in Threads \ {c} : pc'[d] = pc[d]
    BY <1>0, <1>4 DEF Goto
  <2>2. cpc[c] = "free"
    BY <1>0, <1>4, <2>1
  <2>. QED  BY <1>2, <1>4, <2>1, <2>2 DEF Calling
<1>. USE DEF poolVars
<1>5. CASE \/ UNCHANGED vars \/ PressKill
           \/ \E w \in Workers : TaskStep(w) \/ ToolReturns(w)
  <2>1. UNCHANGED <<pc, cpc>>
    BY <1>5 DEF vars, PressKill, TaskStep, ToolReturns, CheckBefore, Dispatch,
       DispatchUnknown, CheckAfter, SendReply, ReplyThrows, Unwind, GiveUp, GoOn,
       Erase, Catch, Pool!TaskReturns
  <2>. QED  BY <1>3, <2>1
<1>6. CASE SpuriousWakeups \/ \E w \in Workers : WorkerInPool(w)
  <2>1. UNCHANGED pc
    BY <1>6 DEF SpuriousWakeups, WorkerInPool
  <2>2. CASE SpuriousWakeups
    BY <1>0, <1>3, <2>1, <2>2 DEF SpuriousWakeups, Pool!SpuriousWakeup,
       Pool!SpuriousIdleWakeup, Pool!Goto
  <2>3. CASE \E w \in Workers : WorkerInPool(w)
    <3>1. cpc' = cpc \/ cpc' = Pool!WakeIdleWaiters(cpc)
      BY <2>3 DEF WorkerInPool, Pool!WorkerStep, Pool!LoopTest, Pool!Sleep,
         Pool!ExitEmpty, Pool!Take, Pool!Decrement, Pool!NotifyIdle
    <3>. QED  BY <1>3, <2>1, <3>1 DEF Pool!WakeIdleWaiters
  <2>. QED  BY <1>6, <2>2, <2>3
<1>7. CASE \/ RunBegins \/ TestRunning \/ ReadKilled \/ ReadSomething
           \/ AnswerNow \/ AnswerThrows \/ Ignore \/ SendInitialize
           \/ SetInitialized
           \/ Register \/ (\E i \in Ids : CancelRequest(i)) \/ EnqueueRefused
  <2>1. \E from, to \in {"start", "loop", "poll", "drain", "handle", "initFlag",
                          "enqueue", "stopFlag"} : Goto(Reader, from, to)
    BY <1>7 DEF RunBegins, TestRunning, ReadKilled, ReadSomething, ReadEnds,
       ReadLine, AnswerNow, AnswerThrows, Ignore, SendInitialize, SetInitialized,
       Register,
       CancelRequest, EnqueueRefused
  <2>2. UNCHANGED cpc
    BY <1>7 DEF RunBegins, TestRunning, ReadKilled, ReadSomething, ReadEnds,
       ReadLine, AnswerNow, AnswerThrows, Ignore, SendInitialize, SetInitialized,
       Register,
       CancelRequest, EnqueueRefused, Pool!EnqueueRefused
  <2>. QED  BY <1>0, <1>4, <2>1, <2>2 DEF Calling
<1>8. CASE \E c \in Threads : CallStop(c) \/ StopFlag(c) \/ StopCancelsAll(c)
  <2>1. PICK c \in Threads : CallStop(c) \/ StopFlag(c) \/ StopCancelsAll(c)
    BY <1>8
  <2>2. \E from \in {"out", "stopFlag", "stopCancel"},
           to \in {"stopFlag", "stopCancel", "stopPool"} : Goto(c, from, to)
    BY <2>1 DEF CallStop, StopFlag, StopCancelsAll
  <2>3. UNCHANGED cpc
    BY <2>1 DEF CallStop, StopFlag, StopCancelsAll
  <2>. QED  BY <1>4, <2>2, <2>3 DEF Calling
<1>9. CASE EnqueueCall \/ Drain \/ \E c \in Threads : StopPool(c)
  <2>1. CASE EnqueueCall
    <3>1. Goto(Reader, "enqueue", "enqueued")
       /\ Pool!Goto(Reader, "free", "enqueued")
      BY <2>1 DEF EnqueueCall, Pool!Enqueue
    <3>. QED  BY <1>0, <1>2, <3>1 DEF Goto, Pool!Goto
  <2>2. CASE Drain
    <3>1. Goto(Reader, "drain", "draining") /\ Pool!Goto(Reader, "free", "waiting")
      BY <2>2 DEF Drain, Pool!CallWaitIdle
    <3>. QED  BY <1>0, <1>2, <3>1 DEF Goto, Pool!Goto
  <2>3. ASSUME NEW c \in Threads, StopPool(c) PROVE CallsMatch'
    <3>1. Goto(c, "stopPool", "joining") /\ Pool!Goto(c, "free", "stopLock")
      BY <2>3 DEF StopPool, Pool!CallStop
    <3>. QED  BY <1>0, <1>2, <3>1 DEF Goto, Pool!Goto
  <2>. QED  BY <1>9, <2>1, <2>2, <2>3
<1>10. ASSUME NEW c \in Threads, InPool(c) PROVE CallsMatch'
  <2>1. /\ Pool!CallerStep(c)
        /\ pc' = [pc EXCEPT ![c] =
                      IF cpc'[c] = "free" THEN AfterPool(pc[c]) ELSE pc[c]]
    BY <1>10 DEF InPool
  <2>2. \A d \in Threads \ {c} :
           cpc'[d] = cpc[d] \/ (cpc[d] = "idleAsleep" /\ cpc'[d] = "waiting")
    BY <1>0, <2>1 DEF Pool!CallerStep, Pool!NotifyOne, Pool!WaitIdleReturns,
       Pool!WaitIdleSleeps, Pool!StopAgain, Pool!StopFirst,
       Pool!StopWakesWorkers, Pool!StopWakesWaiters, Pool!RequestStop,
       Pool!Join, Pool!WakeIdleWaiters, Pool!Goto
  <2>3. \/ cpc'[c] = "free" /\ cpc[c] # "free"
        \/ cpc[c] = "waiting" /\ cpc'[c] = "idleAsleep"
        \/ cpc[c] \in InStop /\ cpc'[c] \in InStop
    BY <1>0, <2>1 DEF Pool!CallerStep, Pool!NotifyOne, Pool!WaitIdleReturns,
       Pool!WaitIdleSleeps, Pool!StopAgain, Pool!StopFirst,
       Pool!StopWakesWorkers, Pool!StopWakesWaiters, Pool!RequestStop,
       Pool!Join, Pool!WakeIdleWaiters, Pool!Goto
  <2>4. CASE cpc'[c] = "free" /\ cpc[c] # "free"
    <3>1. pc[c] \in Calling /\ pc'[c] = AfterPool(pc[c])
      BY <1>0, <2>1, <2>4
    <3>2. /\ pc'[c] \in {"loop", "stopFlag", "returned"}
          /\ pc[c] = "joining" => pc'[c] = "returned"
      BY <3>1 DEF AfterPool, Calling
    <3>3. c # Reader => pc[c] = "joining"
      BY <1>0, <3>1 DEF CallsMatch, Calling
    <3>. QED  BY <1>0, <1>2, <2>1, <2>2, <2>4, <3>2, <3>3
  <2>5. CASE cpc'[c] # "free"
    <3>1. pc' = pc
      BY <1>0, <2>1, <2>5
    <3>. QED  BY <1>0, <1>2, <2>2, <2>3, <2>5, <3>1 DEF CallsMatch
  <2>. QED  BY <2>4, <2>5, <2>3
<1>. QED
  BY <1>5, <1>6, <1>7, <1>8, <1>9, <1>10 DEF Next, ReaderStep, Process, StopStep

\* run() leaves its loop through waitIdle() or an exception and does not come back.
LEMMA ReaderAfterDrain ==
    ASSUME CodeInv, [Next]_vars
    PROVE  /\ Drained => Drained'
           /\ ~Drained /\ Drained' =>
                 \/ InPool(Reader) /\ pc[Reader] = "draining"
                 \/ AnswerThrows
<1>. USE DEF poolVars, Drained
<1>0. /\ pc \in [Threads -> ReaderStates \cup StopStates] /\ Reader \in Threads
      /\ Reader \notin Stoppers
      /\ CallsMatch
      /\ \A c \in Threads : cpc[c] # "free" => pc[c] \in Calling
  BY LineFacts, ServerAssumption DEF CodeInv, LineInv
<1>1. CASE UNCHANGED pc
  BY <1>1
<1>2. CASE \/ UNCHANGED vars \/ PressKill \/ SpuriousWakeups
           \/ \E w \in Workers : WorkerInPool(w) \/ TaskStep(w) \/ ToolReturns(w)
  BY <1>1, <1>2 DEF vars, PressKill, TaskStep, ToolReturns, CheckBefore, Dispatch,
     DispatchUnknown, CheckAfter, SendReply, ReplyThrows, Unwind, GiveUp, GoOn,
     Erase, Catch, SpuriousWakeups, WorkerInPool
<1>3. CASE (ReadSomething \/ ReaderStep) /\ ~AnswerThrows
  <2>1. \E from, to \in ReaderStates : Goto(Reader, from, to)
    BY <1>3 DEF RunBegins, TestRunning, ReadKilled, ReadSomething, ReadEnds,
       ReadLine, AnswerNow, Ignore, SendInitialize, SetInitialized, Register,
       CancelRequest, EnqueueRefused, EnqueueCall, Drain, ReaderStep, Process
  <2>. QED  BY <1>0, <2>1 DEF Goto
<1>6. CASE AnswerThrows
  BY <1>6, <1>0 DEF AnswerThrows, Goto
<1>4. CASE \E c \in Threads : CallStop(c) \/ StopStep(c)
  <2>1. PICK c \in Threads : CallStop(c) \/ StopStep(c)
    BY <1>4
  <2>2. \E from \in StopStates, to \in StopStates \cup {"joining"} :
           Goto(c, from, to)
    BY <2>1 DEF CallStop, StopFlag, StopCancelsAll, StopPool, StopStep
  <2>. QED  BY <1>0, <2>2 DEF Goto
<1>5. ASSUME NEW c \in Threads, InPool(c), ~UNCHANGED pc
      PROVE  /\ Drained => Drained'
             /\ ~Drained /\ Drained' => InPool(Reader) /\ pc[Reader] = "draining"
  <2>1. cpc[c] # "free" /\ pc' = [pc EXCEPT ![c] = IF cpc'[c] = "free"
                                                   THEN AfterPool(pc[c]) ELSE pc[c]]
    BY <1>5, PoolCallerFrame DEF InPool, CodeInv, LineInv
  <2>2. pc[c] \in Calling /\ pc'[c] = AfterPool(pc[c])
    BY <1>0, <1>5, <2>1
  <2>3. /\ pc[c] = "joining" => pc'[c] = "returned"
        /\ pc[c] = "enqueued" => pc'[c] = "loop"
        /\ pc[c] = "draining" => pc'[c] = "stopFlag"
    BY <2>2 DEF AfterPool
  <2>. QED  BY <1>0, <1>5, <2>1, <2>2, <2>3 DEF Calling
<1>. QED
  BY <1>1, <1>2, <1>3, <1>4, <1>5, <1>6 DEF Next

\* waitIdle() returns on an idle pool, and nothing is handed over afterwards.
LEMMA DrainedNext ==
    ASSUME CodeInv, PoolProofs!PoolInv, DrainedPool, LineStep, [Next]_vars
    PROVE  DrainedPool'
<1>3. Escaped => Escaped'
  <2>1. kind \in [Lines -> Kinds \cup {"unread"}]
    BY LineFacts
  <2>2. UNCHANGED kind \/ ReadsOne
    BY DEF LineStep, Elsewhere, AnswersOne, RegistersOne, SubmitsOne, FlagsSome,
       TakesOne, ClosureSends, ClosureMoves, ClosureUnwinds, EndsOne
  <2>. QED  BY <2>1, <2>2 DEF Escaped, ReadsOne
<1>1. CASE Drained
  <2>1. Accepted' = Accepted /\ finished \subseteq finished'
    BY <1>1 DEF Drained, LineStep, Elsewhere, ReadsOne, AnswersOne, RegistersOne,
       SubmitsOne, FlagsSome, TakesOne, ClosureSends, ClosureMoves,
       ClosureUnwinds, EndsOne, Kept
  <2>. QED  BY <1>1, <1>3, <2>1 DEF DrainedPool
<1>4. CASE AnswerThrows
  <2>1. kind' = kind /\ cur \in Lines /\ kind[cur] = "unprintable"
    BY <1>4, LineFacts DEF AnswerThrows, Handling, readVars
  <2>. QED  BY <2>1 DEF DrainedPool, Escaped
<1>2. CASE ~Drained /\ Drained' /\ ~AnswerThrows
  <2>1. InPool(Reader) /\ pc[Reader] = "draining" /\ pc'[Reader] # "draining"
    BY <1>2, ReaderAfterDrain DEF Drained
  <2>2. /\ Pool!CallerStep(Reader)
        /\ cpc[Reader] \in {"waiting", "idleAsleep"} /\ cpc'[Reader] = "free"
    BY <2>1, LineFacts DEF InPool, CodeInv, CallsMatch
  <2>3. Pool!WaitIdleReturns(Reader)
    BY <2>2, LineFacts DEF CodeInv, LineInv, Pool!CallerStep, Pool!NotifyOne,
       Pool!WaitIdleReturns, Pool!WaitIdleSleeps, Pool!StopAgain, Pool!StopFirst,
       Pool!StopWakesWorkers, Pool!StopWakesWaiters, Pool!RequestStop, Pool!Join,
       Pool!WakeIdleWaiters, Pool!Goto
  <2>4. PoolProofs!Idle /\ UNCHANGED <<accepted, finished>>
    BY <2>3 DEF Pool!WaitIdleReturns, Pool!Idle, PoolProofs!Idle, Pool!history
  <2>5. PoolProofs!IsFiniteSet(Workers) /\ Workers # {} /\ NoLine \notin Lines
    BY ServerAssumption DEF PoolProofs!IsFiniteSet, IsFiniteSet
  <2>6. PoolProofs!RangeOf(accepted) \subseteq finished
    BY <2>4, <2>5, PoolProofs!IdleMeansDone
  <2>. QED  BY <2>4, <2>6 DEF DrainedPool, Accepted, Pool!RangeOf,
       PoolProofs!RangeOf
<1>. QED  BY <1>1, <1>2, <1>4 DEF DrainedPool

\* Without another thread that calls stop(), the pool stops after the drain.
LEMMA NoStopperNext ==
    ASSUME Stoppers = {}, CodeInv, PoolProofs!PoolInv, NoEarlyStop, [Next]_vars
    PROVE  NoEarlyStop'
<1>0. Threads = {Reader} /\ CallsMatch
  BY DEF Threads, CodeInv
<1>1. ASSUME stopping' = stopping, refused' = refused PROVE NoEarlyStop'
  BY <1>1, ReaderAfterDrain DEF NoEarlyStop
<1>. USE DEF poolVars
<1>2. CASE EnqueueRefused
  <2>1. stopping /\ pc[Reader] = "enqueue"
    BY <1>2 DEF EnqueueRefused, Pool!EnqueueRefused, Goto
  <2>. QED  BY <2>1 DEF NoEarlyStop, Drained
<1>3. CASE \E c \in Threads : InPool(c)
  <2>1. Pool!CallerStep(Reader)
    BY <1>0, <1>3 DEF InPool
  <2>2. refused' = refused /\ (stopping' = stopping \/ Pool!StopFirst(Reader))
    BY <2>1 DEF Pool!CallerStep, Pool!NotifyOne, Pool!WaitIdleReturns,
       Pool!WaitIdleSleeps, Pool!StopAgain, Pool!StopFirst,
       Pool!StopWakesWorkers, Pool!StopWakesWaiters, Pool!RequestStop,
       Pool!Join, Pool!history
  <2>3. CASE Pool!StopFirst(Reader)
    <3>1. cpc[Reader] = "stopLock"
      BY <2>3 DEF Pool!StopFirst, Pool!Goto
    <3>2. Drained
      BY <1>0, <3>1 DEF CallsMatch, InStop, Drained
    <3>. QED  BY <2>2, <3>2, ReaderAfterDrain DEF NoEarlyStop
  <2>. QED  BY <1>1, <2>2, <2>3
<1>4. CASE ~EnqueueRefused /\ ~\E c \in Threads : InPool(c)
  <2>1. CASE SpuriousWakeups \/ \E w \in Workers : WorkerInPool(w)
    BY <1>1, <2>1 DEF SpuriousWakeups, WorkerInPool, Pool!SpuriousWakeup,
       Pool!SpuriousIdleWakeup, Pool!WorkerStep, Pool!LoopTest, Pool!Sleep,
       Pool!ExitEmpty, Pool!Take, Pool!Decrement, Pool!NotifyIdle, Pool!history
  <2>2. CASE UNCHANGED vars \/ PressKill
             \/ \E w \in Workers : TaskStep(w) \/ ToolReturns(w)
    BY <1>1, <2>2 DEF vars, PressKill, TaskStep, ToolReturns, CheckBefore, Dispatch,
       DispatchUnknown, CheckAfter, SendReply, ReplyThrows, Unwind, GiveUp, GoOn,
       Erase, Catch, Pool!TaskReturns
  <2>3. CASE ReadSomething \/ ReaderStep
    BY <1>1, <1>4, <2>3 DEF RunBegins, TestRunning, ReadKilled, ReadSomething,
       ReadEnds,
       ReadLine, AnswerNow, AnswerThrows, Ignore, SendInitialize,
       SetInitialized, Register,
       CancelRequest, EnqueueCall, Drain, ReaderStep, Process, Pool!Enqueue,
       Pool!CallWaitIdle, Pool!history
  <2>4. CASE \E c \in Threads : CallStop(c) \/ StopStep(c)
    BY <1>1, <2>4 DEF CallStop, StopFlag, StopCancelsAll, StopPool, StopStep,
       Pool!CallStop, Pool!history
  <2>. QED  BY <1>4, <2>1, <2>2, <2>3, <2>4 DEF Next
<1>. QED  BY <1>2, <1>3, <1>4

-----------------------------------------------------------------------------
(* The theorems.                                                           *)

\* The invariant holds initially.
LEMMA ServerInit == Init => ServerInv /\ NoEarlyStop
<1>. SUFFICES ASSUME Init PROVE ServerInv /\ NoEarlyStop
  OBVIOUS
<1>1. LineInv /\ PoolProofs!PoolInv
  BY LineInit, PoolInvHere
<1>2. /\ tasks = <<>> /\ accepted = <<>> /\ refused = {} /\ finished = {}
      /\ cpc = [c \in Threads |-> "free"] /\ held = [w \in Workers |-> NoLine]
      /\ ~stopping /\ out = <<>> /\ executed = {} /\ cancelled = {}
      /\ tpc = [w \in Workers |-> "none"] /\ active = [i \in Ids |-> NoLine]
      /\ pc = [c \in Threads |-> IF c = Reader THEN "start" ELSE "out"]
      /\ kind = [l \in Lines |-> "unread"] /\ cancelAt = [l \in Lines |-> "never"]
      /\ shared = {}
  BY DEF Init, Pool!Init
<1>3. Queued = {} /\ Accepted = {}
  BY <1>2 DEF Queued, Accepted, Pool!RangeOf
<1>4. RequestTypes
  BY <1>2 DEF RequestTypes, TaskStates
<1>5. CallsMatch /\ OnlyCalls /\ DrainedPool
  BY <1>2, <1>3, ReaderIsThread DEF CallsMatch, OnlyCalls, DrainedPool, InStop
<1>6. Answers
  BY <1>2, ReaderIsThread DEF Answers, Settled, Request, Requests, AllKinds,
     Immediate
<1>7. EntriesInFlight /\ ExecutedByWorker /\ Cancellation
  BY <1>2, <1>3 DEF EntriesInFlight, ExecutedByWorker, Cancellation
<1>8. NoEarlyStop
  BY <1>2 DEF NoEarlyStop
<1>9. AllRegistered
  BY <1>2, <1>3, ReaderIsThread, ServerAssumption
     DEF AllRegistered, InFlight, Worker, Queued
<1>. QED
  BY <1>1, <1>4, <1>5, <1>6, <1>7, <1>8, <1>9 DEF ServerInv

\* Every step preserves it.
LEMMA ServerNext == ServerInv /\ [Next]_vars => ServerInv'
<1>. SUFFICES ASSUME ServerInv, [Next]_vars PROVE ServerInv'
  OBVIOUS
<1>1. CodeInv /\ PoolProofs!PoolInv
  BY PoolPlaces DEF ServerInv, CodeInv
<1>2. LineInv' /\ PoolProofs!PoolInv' /\ Places'
  BY <1>1, LineNext, PoolInvHere, PoolPlacesNext DEF CodeInv
<1>3. LineStep
  BY <1>1, EveryStepIsLineStep DEF CodeInv
<1>4. RequestTypes' /\ OnlyCalls' /\ CallsMatch'
  BY <1>1, <1>2, <1>3, TypesNext, OnlyCallsNext, CallsMatchNext
<1>5. Answers' /\ EntriesInFlight' /\ AllRegistered' /\ ExecutedByWorker'
  BY <1>1, <1>3, AnswersNext, EntriesNext, AllRegisteredNext, ExecutedNext
     DEF ServerInv
<1>6. Cancellation' /\ DrainedPool'
  BY <1>1, <1>3, CancellationNext, DrainedNext DEF ServerInv
<1>. QED
  BY <1>2, <1>4, <1>5, <1>6 DEF ServerInv

\* The invariant in the form the lemmas above use.
LEMMA ServerInvImplies ==
    ASSUME ServerInv PROVE CodeInv /\ PoolProofs!PoolInv
BY PoolPlaces DEF ServerInv, CodeInv

\* The invariant holds in every state of every instance of the server.
THEOREM ServerInvariant == Spec => []ServerInv
<1>. QED  BY ServerInit, ServerNext, PTL DEF Spec

\* The flags stay Boolean.
LEMMA FlagTypesNext ==
    ASSUME FlagTypes, [Next]_vars PROVE FlagTypes'
<1>. USE DEF FlagTypes, readVars, flagVars
<1>1. CASE \/ UNCHANGED vars \/ PressKill \/ SpuriousWakeups
           \/ \E w \in Workers : WorkerInPool(w) \/ TaskStep(w) \/ ToolReturns(w)
  BY <1>1 DEF vars, PressKill, TaskStep, ToolReturns, CheckBefore, Dispatch,
     DispatchUnknown, CheckAfter, SendReply, ReplyThrows, Unwind, GiveUp, GoOn,
     Erase, Catch, SpuriousWakeups, WorkerInPool
<1>2. CASE ReadSomething \/ ReaderStep
  BY <1>2 DEF RunBegins, TestRunning, ReadKilled, ReadSomething, ReadEnds,
     ReadLine, AnswerNow, AnswerThrows, Ignore, SendInitialize, SetInitialized,
     Register, CancelRequest, EnqueueRefused, EnqueueCall, Drain, ReaderStep,
     Process
<1>3. CASE \E c \in Threads : CallStop(c) \/ StopStep(c) \/ InPool(c)
  BY <1>3 DEF CallStop, StopFlag, StopCancelsAll, StopPool, StopStep, InPool
<1>. QED  BY <1>1, <1>2, <1>3 DEF Next

\* Type correctness of the server and of its pool; in particular whatever is
\* written to stdout names a line that was read and a code of the protocol.
THEOREM ServerTypeCorrect == Spec => []TypeOK
<1>1. Init => FlagTypes
  BY DEF Init, FlagTypes
<1>2. ServerInv /\ FlagTypes => TypeOK
  <2>. SUFFICES ASSUME ServerInv, FlagTypes PROVE TypeOK
    OBVIOUS
  <2>1. PoolProofs!TypeOK
    BY DEF ServerInv, PoolProofs!PoolInv
  <2>2. Pool!TypeOK
    BY <2>1 DEF PoolProofs!TypeOK, Pool!TypeOK, PoolProofs!WorkerStates,
       Pool!WorkerStates, PoolProofs!CallerStates, Pool!CallerStates
  <2>3. shared \in SUBSET Lines
    BY DEF ServerInv, AllRegistered
  <2>. QED  BY <2>2, <2>3 DEF TypeOK, ServerInv, LineInv, RequestTypes, FlagTypes
<1>3. FlagTypes /\ [Next]_vars => FlagTypes'
  BY FlagTypesNext
<1>. QED  BY <1>1, <1>2, <1>3, ServerInvariant, PTL DEF Spec

\* A request gets one reply at most and anything else gets none, whoever
\* answers: run(), a check, the tool or the catch block (McpServer.cpp:357-419).
THEOREM ServerRepliesOnce == Spec => []OneReply
<1>1. ServerInv => OneReply
  <2>. SUFFICES ASSUME ServerInv, NEW l \in Lines
                PROVE  /\ Cardinality(Replies(l)) <= 1
                       /\ Replies(l) # {} => Request(l)
    BY DEF OneReply
  <2>1. Replies(l) # {} => Request(l)
    BY DEF ServerInv, Answers, Replies, Settled
  <2>2. CASE Replies(l) = {}
    BY <2>1, <2>2, FS_EmptySet
  <2>3. ASSUME NEW n \in Replies(l) PROVE Cardinality(Replies(l)) <= 1
    <3>1. Replies(l) = {n}
      BY <2>3 DEF ServerInv, Answers, Replies
    <3>2. Cardinality({n}) = 1
      BY FS_Singleton
    <3>. QED  BY <3>1, <3>2
  <2>. QED  BY <2>1, <2>2, <2>3
<1>. QED  BY <1>1, ServerInvariant, PTL

\* A call cancelled in the queue is not executed, and one cancelled before the
\* second check never sends its result, whether or not ids are shared and
\* whoever cancels (McpServer.cpp:381, 391).
THEOREM ServerHonoursCancel == Spec => []CancelHonoured
<1>1. ServerInv => CancelHonoured
  BY DEF ServerInv, Cancellation, CancelHonoured, Replies
<1>. QED  BY <1>1, ServerInvariant, PTL

\* After the drain the pool is empty and every worker is between tasks.
LEMMA NobodyHolds ==
    ASSUME ServerInv, Drained, ~Escaped
    PROVE  Queued = {} /\ \A w \in Workers : held[w] = NoLine /\ tpc[w] = "none"
<1>1. Accepted \subseteq finished
  BY DEF ServerInv, DrainedPool
<1>. QED  BY <1>1, ServerInvImplies, LineFacts

\* Once run() has returned, nothing is sent, executed or erased, also while
\* another thread is still inside stop(), unless an exception has ended run()
\* (McpServer.cpp:161-180).
THEOREM ServerQuietAfterRun == Spec => QuietAfterRun
<1>1. ServerInv /\ [Next]_vars =>
        [pc[Reader] = "returned" /\ ~Escaped
            => UNCHANGED <<out, executed, active>>]_vars
  <2>. SUFFICES ASSUME ServerInv, [Next]_vars, pc[Reader] = "returned", ~Escaped
                PROVE  UNCHANGED <<out, executed, active>>
    OBVIOUS
  <2>1. CodeInv /\ LineStep
    BY ServerInvImplies, EveryStepIsLineStep DEF CodeInv
  <2>2. \A w \in Workers : tpc[w] = "none"
    BY NobodyHolds DEF Drained
  <2>3. CASE Elsewhere \/ FlagsSome
    BY <2>3 DEF Elsewhere, FlagsSome, requestVars, taskVars
  <2>4. ~(ReadsOne \/ AnswersOne \/ RegistersOne \/ SubmitsOne)
    BY DEF ReadsOne, AnswersOne, RegistersOne, SubmitsOne, Goto
  <2>5. ASSUME NEW w \in Workers
        PROVE  ~(\/ ClosureSends(w) \/ ClosureMoves(w)
                 \/ ClosureUnwinds(w) \/ EndsOne(w))
    BY <2>2 DEF ClosureSends, ClosureMoves, ClosureUnwinds, EndsOne, TGoto
  <2>6. CASE \E w \in Workers : TakesOne(w)
    BY <2>6 DEF TakesOne, requestVars
  <2>. QED  BY <2>1, <2>3, <2>4, <2>5, <2>6 DEF LineStep
<1>. QED  BY <1>1, ServerInvariant, PTL DEF Spec, QuietAfterRun

\* What the drain guarantees whoever calls stop(): only a call that enqueue
\* refused goes without a reply.
AnsweredOrRefused ==
    Drained /\ ~Escaped =>
        \A l \in Lines : Request(l) => Replies(l) # {} \/ l \in refused

\* When run() has left waitIdle(), every request that was read has been answered
\* or was refused by a pool that another thread had stopped (McpServer.cpp:357).
THEOREM DrainLosesOnlyRefused == Spec => []AnsweredOrRefused
<1>1. ServerInv => AnsweredOrRefused
  <2>. SUFFICES ASSUME ServerInv, Drained, ~Escaped, NEW l \in Lines,
                       Request(l), l \notin refused
                PROVE  Replies(l) # {}
    BY DEF AnsweredOrRefused
  <2>1. ~Unanswered(l)
    BY NobodyHolds, ServerInvImplies, LineFacts DEF Unanswered, Drained
  <2>. QED  BY <2>1 DEF ServerInv, Answers, Settled, Replies
<1>. QED  BY <1>1, ServerInvariant, PTL

\* If only run() stops the server, the pool refuses nothing.
LEMMA NothingRefused ==
    ASSUME Stoppers = {} PROVE Spec => [](refused = {})
<1>1. Init => NoEarlyStop
  BY ServerInit
<1>2. ServerInv /\ NoEarlyStop /\ [Next]_vars => NoEarlyStop'
  BY ServerInvImplies, NoStopperNext
<1>3. NoEarlyStop => refused = {}
  BY DEF NoEarlyStop
<1>. QED  BY <1>1, <1>2, <1>3, ServerInvariant, PTL DEF Spec

\* Then the drain loses no reply, whatever the client sends and whenever the
\* pipe is closed or the kill switch pressed.
THEOREM DrainAnswersEverything ==
    ASSUME Stoppers = {} PROVE Spec => []DrainAnswersAll
<1>1. AnsweredOrRefused /\ refused = {} => DrainAnswersAll
  BY DEF AnsweredOrRefused, DrainAnswersAll
<1>. QED  BY <1>1, DrainLosesOnlyRefused, NothingRefused, PTL

\* For any ids and however many threads call stop(): a call in flight is
\* registered unless it shared its id with another call in flight, and what is
\* registered is in flight or refused (McpServer.cpp:353-374, 182-197).
THEOREM ActiveUnlessIdShared == Spec => []ActiveUnlessShared
<1>1. ServerInv => ActiveUnlessShared
  BY DEF ServerInv, AllRegistered, EntriesInFlight, ActiveUnlessShared
<1>. QED  BY <1>1, ServerInvariant, PTL

\* So if the client's ids are unique and only run() stops the server,
\* m_activeRequests holds exactly the calls in flight.
THEOREM ActiveIsInFlight ==
    ASSUME Stoppers = {}, UniqueIds PROVE Spec => []ActiveExact
<1>1. ServerInv /\ refused = {} => ActiveExact
  <2>. SUFFICES ASSUME ServerInv, refused = {}, NEW l \in Lines
                PROVE  active[IdOf[l]] = l <=> InFlight(l)
    BY DEF ActiveExact
  <2>1. l \notin shared
    BY DEF ServerInv, AllRegistered, UniqueIds
  <2>. QED
    BY <2>1, ServerAssumption DEF ServerInv, AllRegistered, EntriesInFlight
<1>. QED  BY <1>1, ServerInvariant, NothingRefused, PTL
=============================================================================
