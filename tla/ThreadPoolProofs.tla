-------------------------- MODULE ThreadPoolProofs --------------------------
(***************************************************************************)
(* Theorems about ThreadPool for any number of workers, callers and tasks. *)
(*                                                                         *)
(* PoolInv is inductive, its parts are not: that m_activeTasks, an         *)
(* unsigned counter, never wraps below zero (TypeOK) follows from what it  *)
(* counts (ActiveCount); that a worker's task is run once (RunOnce)        *)
(* follows from where tasks are (OnePlaceEach); the wakeup of waitIdle     *)
(* (NoLostIdleWakeup) from the counter again.  One lemma per part says     *)
(* that a step of a caller, and a step of a worker, preserves it.          *)
(***************************************************************************)
EXTENDS ThreadPoolRefinement, FiniteSetTheorems, SequenceTheorems, TLAPS

PoolInv ==
    /\ TypeOK
    /\ ActiveCount
    /\ OnePlaceEach
    /\ RunOnce
    /\ FifoNoLoss
    /\ OneStopper
    /\ NoLostWakeup
    /\ NoSleepThroughStop
    /\ NoLostIdleWakeup

\* What a thread does in one step, its calls and its spurious wakeups included.
CallerMove(c) == Call(c) \/ CallerStep(c) \/ SpuriousIdleWakeup(c)
WorkerMove(w) == WorkerStep(w) \/ TaskReturns(w) \/ SpuriousWakeup(w)

USE DEF workerVars, history

-----------------------------------------------------------------------------
(* Counting.                                                               *)

\* The counted workers are finitely many, and taking one in or out changes
\* their number by one.
LEMMA CountedCardinality ==
    /\ IsFiniteSet(Counted)
    /\ Cardinality(Counted) \in Nat
    /\ Cardinality(Counted) = 0 <=> Counted = {}
    /\ \A w : w \in Counted =>
          Cardinality(Counted \ {w}) = Cardinality(Counted) - 1
    /\ \A w : w \notin Counted =>
          Cardinality(Counted \cup {w}) = Cardinality(Counted) + 1
<1>1. Counted \in SUBSET Workers
  BY DEF Counted
<1>2. IsFiniteSet(Counted)
  BY <1>1, FS_Subset, PoolAssumption
<1>3. QED
  BY <1>2, FS_CardinalityType, FS_EmptySet, FS_AddElement, FS_RemoveElement

-----------------------------------------------------------------------------
(* Types.                                                                  *)

LEMMA InitType == Init => TypeOK
<1> SUFFICES ASSUME Init PROVE TypeOK
  OBVIOUS
<1> USE DEF Init
<1>1. tasks \in Seq(Tasks) /\ accepted \in Seq(Tasks)
  BY EmptySeq
<1>2. activeTasks \in Nat /\ stopping \in BOOLEAN
  OBVIOUS
<1>3. /\ stopReq \in SUBSET Workers
      /\ refused \in SUBSET Tasks
      /\ finished \in SUBSET Tasks
  OBVIOUS
<1>4. wpc \in [Workers -> WorkerStates]
  BY DEF WorkerStates
<1>5. held \in [Workers -> Tasks \cup {NoTask}]
  OBVIOUS
<1>6. cpc \in [Callers -> CallerStates]
  BY DEF CallerStates
<1>7. QED
  BY <1>1, <1>2, <1>3, <1>4, <1>5, <1>6 DEF TypeOK

LEMMA CallerType ==
    ASSUME TypeOK, NEW c \in Callers,
           CallerMove(c)
    PROVE  TypeOK'
<1> USE DEF TypeOK, CallerStates, WorkerStates, Goto
<1>1. ASSUME NEW t \in Tasks, Enqueue(c, t) PROVE TypeOK'
  BY <1>1 DEF Enqueue
<1>2. ASSUME NEW t \in Tasks, EnqueueRefused(c, t) PROVE TypeOK'
  BY <1>2 DEF EnqueueRefused
<1>3. CASE CallWaitIdle(c)
  BY <1>3 DEF CallWaitIdle
<1>4. CASE CallStop(c)
  BY <1>4 DEF CallStop
<1>5. CASE NotifyOne(c)
  BY <1>5 DEF NotifyOne, Asleep
<1>6. CASE WaitIdleReturns(c)
  BY <1>6 DEF WaitIdleReturns
<1>7. CASE WaitIdleSleeps(c)
  BY <1>7 DEF WaitIdleSleeps
<1>8. CASE StopAgain(c)
  BY <1>8 DEF StopAgain
<1>9. CASE StopFirst(c)
  BY <1>9 DEF StopFirst
<1>10. CASE StopWakesWorkers(c)
  BY <1>10 DEF StopWakesWorkers, Asleep
<1>11. CASE StopWakesWaiters(c)
  BY <1>11 DEF StopWakesWaiters, WakeIdleWaiters
<1>12. ASSUME NEW w \in Workers, RequestStop(c, w) PROVE TypeOK'
  BY <1>12 DEF RequestStop
<1>13. CASE Join(c)
  BY <1>13 DEF Join
<1>14. CASE SpuriousIdleWakeup(c)
  BY <1>14 DEF SpuriousIdleWakeup
<1>15. QED
  BY <1>1, <1>2, <1>3, <1>4, <1>5, <1>6, <1>7, <1>8, <1>9, <1>10, <1>11,
     <1>12, <1>13, <1>14 DEF CallerMove, Call, CallerStep

LEMMA WorkerType ==
    ASSUME TypeOK, ActiveCount, OnePlaceEach, NEW w \in Workers,
           WorkerMove(w)
    PROVE  TypeOK'
<1> USE DEF TypeOK, CallerStates, WorkerStates, WGoto
<1>1. CASE LoopTest(w)
  BY <1>1 DEF LoopTest
<1>2. CASE Sleep(w)
  BY <1>2 DEF Sleep
<1>3. CASE ExitEmpty(w)
  BY <1>3 DEF ExitEmpty
<1>4. CASE Take(w)
  BY <1>4 DEF Take
<1>5. CASE Decrement(w)
  <2>1. w \in Counted
    BY <1>5 DEF Decrement, Counted
  <2>2. Cardinality(Counted) \in Nat \ {0} /\ Len(tasks) \in Nat
    BY <2>1, CountedCardinality
  <2>3. activeTasks - 1 \in Nat
    BY <2>2 DEF ActiveCount
  <2>4. QED
    BY <1>5, <2>3 DEF Decrement
<1>6. CASE NotifyIdle(w)
  BY <1>6 DEF NotifyIdle, WakeIdleWaiters
<1>7. CASE TaskReturns(w)
  BY <1>7 DEF TaskReturns, OnePlaceEach, Running
<1>8. CASE SpuriousWakeup(w)
  BY <1>8 DEF SpuriousWakeup
<1>9. QED
  BY <1>1, <1>2, <1>3, <1>4, <1>5, <1>6, <1>7, <1>8 DEF WorkerMove, WorkerStep

-----------------------------------------------------------------------------
(* Frames: which steps leave the tasks where they are.                     *)

Places == <<tasks, activeTasks, held, accepted, finished, Running, Counted>>

\* The steps of a caller other than a push.
CallerQuiet(c) ==
    \/ \E t \in Tasks : EnqueueRefused(c, t) /\ ~Submitted(t)
    \/ CallWaitIdle(c) \/ CallStop(c)
    \/ CallerStep(c) \/ SpuriousIdleWakeup(c)

LEMMA CallerCases ==
    ASSUME NEW c \in Callers, CallerMove(c)
    PROVE  \/ CallerQuiet(c)
           \/ \E t \in Tasks : Enqueue(c, t) /\ ~Submitted(t)
  BY DEF CallerMove, Call, CallerQuiet

LEMMA CallerFrame ==
    ASSUME TypeOK, NEW c \in Callers, CallerQuiet(c)
    PROVE  UNCHANGED Places
<1> USE DEF TypeOK, Goto, Places, Running, Counted
<1>1. ASSUME NEW t \in Tasks, EnqueueRefused(c, t) PROVE UNCHANGED Places
  BY <1>1 DEF EnqueueRefused
<1>2. CASE CallWaitIdle(c) \/ CallStop(c)
  BY <1>2 DEF CallWaitIdle, CallStop
<1>3. CASE NotifyOne(c)
  BY <1>3 DEF NotifyOne, Asleep
<1>4. CASE WaitIdleReturns(c) \/ WaitIdleSleeps(c) \/ SpuriousIdleWakeup(c)
  BY <1>4 DEF WaitIdleReturns, WaitIdleSleeps, SpuriousIdleWakeup
<1>5. CASE StopAgain(c) \/ StopFirst(c) \/ Join(c)
  BY <1>5 DEF StopAgain, StopFirst, Join
<1>6. CASE StopWakesWorkers(c)
  BY <1>6 DEF StopWakesWorkers, Asleep
<1>7. CASE StopWakesWaiters(c)
  BY <1>7 DEF StopWakesWaiters
<1>8. ASSUME NEW w \in Workers, RequestStop(c, w) PROVE UNCHANGED Places
  BY <1>8 DEF RequestStop
<1>9. QED
  BY <1>1, <1>2, <1>3, <1>4, <1>5, <1>6, <1>7, <1>8
     DEF CallerQuiet, CallerStep

\* The steps of a worker between two tasks.
WorkerQuiet(w) ==
    LoopTest(w) \/ Sleep(w) \/ ExitEmpty(w) \/ NotifyIdle(w)
        \/ SpuriousWakeup(w)

LEMMA WorkerFrame ==
    ASSUME TypeOK, NEW w \in Workers, WorkerQuiet(w)
    PROVE  UNCHANGED Places
<1> USE DEF TypeOK, WGoto, Places, Running, Counted
<1>1. CASE LoopTest(w)
  BY <1>1 DEF LoopTest
<1>2. CASE Sleep(w)
  BY <1>2 DEF Sleep
<1>3. CASE ExitEmpty(w)
  BY <1>3 DEF ExitEmpty
<1>4. CASE NotifyIdle(w)
  BY <1>4 DEF NotifyIdle
<1>5. CASE SpuriousWakeup(w)
  BY <1>5 DEF SpuriousWakeup
<1>6. QED
  BY <1>1, <1>2, <1>3, <1>4, <1>5 DEF WorkerQuiet

LEMMA WorkerCases ==
    ASSUME NEW w \in Workers, WorkerMove(w)
    PROVE  WorkerQuiet(w) \/ Take(w) \/ TaskReturns(w) \/ Decrement(w)
  BY DEF WorkerMove, WorkerStep, WorkerQuiet

\* The four steps that move a task, seen from the sets of workers.
LEMMA TakeSets ==
    ASSUME TypeOK, NEW w \in Workers, Take(w)
    PROVE  /\ w \notin Counted /\ w \notin Running
           /\ Counted' = Counted \cup {w}
           /\ Running' = Running \cup {w}
  BY DEF Take, WGoto, TypeOK, Counted, Running

LEMMA TaskReturnsSets ==
    ASSUME TypeOK, NEW w \in Workers, TaskReturns(w)
    PROVE  /\ w \in Running
           /\ Counted' = Counted
           /\ Running' = Running \ {w}
  BY DEF TaskReturns, WGoto, TypeOK, Counted, Running

LEMMA DecrementSets ==
    ASSUME TypeOK, NEW w \in Workers, Decrement(w)
    PROVE  /\ w \in Counted
           /\ Counted' = Counted \ {w}
           /\ Running' = Running
  BY DEF Decrement, WGoto, TypeOK, Counted, Running

LEMMA EnqueueSets ==
    ASSUME TypeOK, NEW c \in Callers, NEW t \in Tasks, Enqueue(c, t)
    PROVE  /\ Counted' = Counted
           /\ Running' = Running
  BY DEF Enqueue, Counted, Running

-----------------------------------------------------------------------------
(* The counter.                                                            *)

LEMMA CallerCount ==
    ASSUME TypeOK, ActiveCount, NEW c \in Callers, CallerMove(c)
    PROVE  ActiveCount'
<1>1. ASSUME NEW t \in Tasks, Enqueue(c, t) PROVE ActiveCount'
  <2>1. Len(tasks') = Len(tasks) + 1 /\ Len(tasks) \in Nat
    BY <1>1 DEF Enqueue, TypeOK
  <2>2. Counted' = Counted /\ activeTasks' = activeTasks + 1
    BY <1>1, EnqueueSets DEF Enqueue
  <2>3. Cardinality(Counted) \in Nat
    BY CountedCardinality
  <2>4. QED
    BY <2>1, <2>2, <2>3 DEF ActiveCount
<1>2. CASE CallerQuiet(c)
  BY <1>2, CallerFrame DEF Places, ActiveCount
<1>3. QED
  BY <1>1, <1>2, CallerCases

LEMMA WorkerCount ==
    ASSUME TypeOK, ActiveCount, NEW w \in Workers, WorkerMove(w)
    PROVE  ActiveCount'
<1> DEFINE n == Cardinality(Counted)
<1>1. n \in Nat /\ Len(tasks) \in Nat /\ activeTasks = Len(tasks) + n
  BY CountedCardinality DEF TypeOK, ActiveCount
<1>2. CASE WorkerQuiet(w)
  BY <1>2, WorkerFrame DEF Places, ActiveCount
<1>3. CASE Take(w)
  <2>1. Len(tasks') = Len(tasks) - 1 /\ activeTasks' = activeTasks
    BY <1>3, HeadTailProperties DEF Take, TypeOK
  <2>2. Cardinality(Counted') = n + 1
    BY <1>3, TakeSets, CountedCardinality
  <2>3. QED
    BY <1>1, <2>1, <2>2 DEF ActiveCount
<1>4. CASE TaskReturns(w)
  <2>1. tasks' = tasks /\ activeTasks' = activeTasks
    BY <1>4 DEF TaskReturns
  <2>2. QED
    BY <1>4, <2>1, TaskReturnsSets DEF ActiveCount
<1>5. CASE Decrement(w)
  <2>1. tasks' = tasks /\ activeTasks' = activeTasks - 1
    BY <1>5 DEF Decrement
  <2>2. Cardinality(Counted') = n - 1
    BY <1>5, DecrementSets, CountedCardinality
  <2>3. QED
    BY <1>1, <2>1, <2>2 DEF ActiveCount
<1>6. QED
  BY <1>2, <1>3, <1>4, <1>5, WorkerCases

-----------------------------------------------------------------------------
(* Where the tasks are.                                                    *)

\* What Append and Tail do to the queue, element by element.
LEMMA AppendElements ==
    ASSUME NEW S, NEW s \in Seq(S), NEW e \in S
    PROVE  /\ Append(s, e) \in Seq(S)
           /\ Len(s) \in Nat
           /\ Len(Append(s, e)) = Len(s) + 1
           /\ \A i \in 1 .. Len(s) : Append(s, e)[i] = s[i]
           /\ Append(s, e)[Len(s) + 1] = e
           /\ RangeOf(Append(s, e)) = RangeOf(s) \cup {e}
<1>1. /\ Append(s, e) \in Seq(S)
      /\ Len(s) \in Nat
      /\ Len(Append(s, e)) = Len(s) + 1
      /\ \A i \in 1 .. Len(s) : Append(s, e)[i] = s[i]
      /\ Append(s, e)[Len(s) + 1] = e
  OBVIOUS
<1>2. 1 .. (Len(s) + 1) = (1 .. Len(s)) \cup {Len(s) + 1}
  BY <1>1
<1>3. RangeOf(Append(s, e)) = RangeOf(s) \cup {e}
  BY <1>1, <1>2 DEF RangeOf
<1>4. QED
  BY <1>1, <1>3

LEMMA TailElements ==
    ASSUME NEW S, NEW s \in Seq(S), s # <<>>
    PROVE  /\ Len(s) \in Nat \ {0}
           /\ Head(s) = s[1]
           /\ Len(Tail(s)) = Len(s) - 1
           /\ \A i \in 1 .. Len(Tail(s)) : Tail(s)[i] = s[i + 1]
  BY EmptySeq, HeadTailProperties

LEMMA QueueAccepted ==
    ASSUME TypeOK, FifoNoLoss, NEW i \in 1 .. Len(tasks)
    PROVE  tasks[i] \in RangeOf(accepted)
<1>1. Len(tasks) \in Nat /\ Len(accepted) \in Nat
  BY DEF TypeOK
<1>2. Started + i \in 1 .. Len(accepted)
  BY <1>1 DEF FifoNoLoss, Started
<1>3. QED
  BY <1>2 DEF FifoNoLoss, RangeOf

LEMMA CallerPlaces ==
    ASSUME TypeOK, OnePlaceEach, FifoNoLoss, NEW c \in Callers, CallerMove(c)
    PROVE  OnePlaceEach'
<1>1. ASSUME NEW t \in Tasks, Enqueue(c, t), ~Submitted(t)
      PROVE  OnePlaceEach'
  <2>1. UNCHANGED <<wpc, held, finished, Running>>
    BY <1>1, EnqueueSets DEF Enqueue
  <2>2. /\ Len(tasks) \in Nat
        /\ Len(tasks') = Len(tasks) + 1
        /\ \A i \in 1 .. Len(tasks) : tasks'[i] = tasks[i]
        /\ tasks'[Len(tasks) + 1] = t
    BY <1>1, AppendElements DEF Enqueue, TypeOK
  <2>3. RangeOf(accepted') = RangeOf(accepted) \cup {t}
    BY <1>1, AppendElements DEF Enqueue, TypeOK
  <2>4. t \notin RangeOf(accepted)
    BY <1>1 DEF Submitted
  <2>5. ASSUME NEW i \in 1 .. Len(tasks')
        PROVE  \/ i \in 1 .. Len(tasks) /\ tasks'[i] = tasks[i]
               \/ i = Len(tasks) + 1 /\ tasks'[i] = t
    BY <2>2
  <2>6. ASSUME NEW i \in 1 .. Len(tasks) PROVE tasks[i] # t
    BY <2>4, QueueAccepted
  <2>7. t \notin finished /\ \A w \in Running : held[w] # t
    BY <2>4 DEF OnePlaceEach
  <2>8. ASSUME NEW i \in 1 .. Len(tasks')
        PROVE  /\ tasks'[i] \notin finished
               /\ \A w \in Running : held[w] # tasks'[i]
               /\ \A j \in 1 .. Len(tasks') : tasks'[i] = tasks'[j] => i = j
    BY <2>5, <2>6, <2>7 DEF OnePlaceEach
  <2>9. QED
    BY <2>1, <2>3, <2>8 DEF OnePlaceEach
<1>2. CASE CallerQuiet(c)
  <2>1. UNCHANGED Places
    BY <1>2, CallerFrame
  <2>2. QED
    BY <2>1 DEF Places, OnePlaceEach, RangeOf
<1>3. QED
  BY <1>1, <1>2, CallerCases

\* What Take does, element by element: the head of the queue was nowhere else.
LEMMA TakeFacts ==
    ASSUME TypeOK, OnePlaceEach, FifoNoLoss, NEW w \in Workers, Take(w)
    PROVE  /\ UNCHANGED <<activeTasks, accepted, finished, cpc>>
           /\ w \notin Running /\ Running' = Running \cup {w}
           /\ held' = [held EXCEPT ![w] = tasks[1]]
           /\ Len(tasks) \in Nat \ {0}
           /\ Len(tasks') = Len(tasks) - 1
           /\ \A i \in 1 .. Len(tasks') : tasks'[i] = tasks[i + 1]
           /\ tasks[1] \in Tasks
           /\ tasks[1] \in RangeOf(accepted)
           /\ tasks[1] \notin finished
           /\ \A v \in Running : held[v] # tasks[1]
           /\ \A i \in 1 .. Len(tasks') : tasks'[i] # tasks[1]
<1>1. /\ UNCHANGED <<activeTasks, accepted, finished, cpc>>
      /\ w \notin Running /\ Running' = Running \cup {w}
  BY TakeSets DEF Take
<1>2. /\ Len(tasks) \in Nat \ {0}
      /\ Head(tasks) = tasks[1]
      /\ Len(tasks') = Len(tasks) - 1
      /\ \A i \in 1 .. Len(tasks') : tasks'[i] = tasks[i + 1]
  BY TailElements DEF Take, TypeOK
<1>3. held' = [held EXCEPT ![w] = tasks[1]]
  BY <1>2 DEF Take
<1>4. 1 \in 1 .. Len(tasks)
  BY <1>2
<1>5. tasks[1] \in Tasks
  BY <1>4 DEF TypeOK
<1>6. tasks[1] \in RangeOf(accepted)
  BY <1>4, QueueAccepted
<1>7. /\ tasks[1] \notin finished
      /\ \A v \in Running : held[v] # tasks[1]
  BY <1>4 DEF OnePlaceEach
<1>8. ASSUME NEW i \in 1 .. Len(tasks') PROVE tasks'[i] # tasks[1]
  <2>1. i + 1 \in 1 .. Len(tasks) /\ i + 1 # 1
    BY <1>2
  <2>2. QED
    BY <1>2, <1>4, <2>1 DEF OnePlaceEach
<1>9. QED
  BY <1>1, <1>2, <1>3, <1>5, <1>6, <1>7, <1>8

\* What TaskReturns does: one running task becomes finished.
LEMMA ReturnFacts ==
    ASSUME TypeOK, OnePlaceEach, NEW w \in Workers, TaskReturns(w)
    PROVE  /\ UNCHANGED <<tasks, activeTasks, accepted, cpc>>
           /\ w \in Running /\ Running' = Running \ {w}
           /\ held' = [held EXCEPT ![w] = NoTask]
           /\ finished' = finished \cup {held[w]}
           /\ held[w] \in RangeOf(accepted)
  BY TaskReturnsSets DEF TaskReturns, OnePlaceEach

LEMMA DecrementFacts ==
    ASSUME TypeOK, NEW w \in Workers, Decrement(w)
    PROVE  UNCHANGED <<tasks, held, accepted, finished, cpc, Running>>
  BY DecrementSets DEF Decrement

LEMMA WorkerPlaces ==
    ASSUME TypeOK, OnePlaceEach, RunOnce, FifoNoLoss,
           NEW w \in Workers, WorkerMove(w)
    PROVE  OnePlaceEach'
<1>1. CASE WorkerQuiet(w)
  <2>1. UNCHANGED Places
    BY <1>1, WorkerFrame
  <2>2. QED
    BY <2>1 DEF Places, OnePlaceEach, RangeOf
<1>2. CASE Take(w)
  <2>1. \A v \in Workers :
           held'[v] = IF v = w THEN tasks[1] ELSE held[v]
    BY <1>2, TakeFacts DEF TypeOK
  <2>2. \A v \in Workers : held'[v] # NoTask <=> v \in Running'
    BY <1>2, <2>1, TakeFacts, PoolAssumption DEF OnePlaceEach
  <2>3. \A v \in Running' : held'[v] \in RangeOf(accepted)
    BY <1>2, <2>1, TakeFacts DEF OnePlaceEach, Running
  <2>4. ASSUME NEW i \in 1 .. Len(tasks')
        PROVE  /\ tasks'[i] \notin finished
               /\ \A v \in Running' : held'[v] # tasks'[i]
               /\ \A j \in 1 .. Len(tasks') : tasks'[i] = tasks'[j] => i = j
    <3>1. i + 1 \in 1 .. Len(tasks) /\ tasks'[i] = tasks[i + 1]
      BY <1>2, TakeFacts
    <3>2. \A v \in Running' : held'[v] # tasks'[i]
      BY <1>2, <2>1, <3>1, TakeFacts DEF OnePlaceEach, Running
    <3>3. ASSUME NEW j \in 1 .. Len(tasks'), tasks'[i] = tasks'[j]
          PROVE  i = j
      <4>1. j + 1 \in 1 .. Len(tasks) /\ tasks'[j] = tasks[j + 1]
        BY <1>2, TakeFacts
      <4>2. i + 1 = j + 1
        BY <3>1, <3>3, <4>1 DEF OnePlaceEach
      <4>3. QED
        BY <4>2
    <3>4. QED
      BY <3>1, <3>2, <3>3 DEF OnePlaceEach
  <2>5. UNCHANGED <<accepted, finished>>
    BY <1>2, TakeFacts
  <2>6. QED
    BY <2>2, <2>3, <2>4, <2>5 DEF OnePlaceEach, RangeOf
<1>3. CASE TaskReturns(w)
  <2>1. \A v \in Workers :
           held'[v] = IF v = w THEN NoTask ELSE held[v]
    BY <1>3, ReturnFacts DEF TypeOK
  <2>2. \A v \in Running' : v \in Running /\ held'[v] = held[v]
    BY <1>3, <2>1, ReturnFacts DEF Running
  <2>3. \A v \in Workers : held'[v] # NoTask <=> v \in Running'
    BY <1>3, <2>1, ReturnFacts DEF OnePlaceEach
  <2>4. RangeOf(accepted)' = RangeOf(accepted) /\ tasks' = tasks
    BY <1>3, ReturnFacts DEF RangeOf
  <2>5. \A i \in 1 .. Len(tasks) : tasks[i] # held[w]
    BY <1>3, ReturnFacts DEF OnePlaceEach
  <2>6. finished' \subseteq RangeOf(accepted)'
    BY <1>3, <2>4, ReturnFacts DEF OnePlaceEach
  <2>7. \A i \in 1 .. Len(tasks) : tasks[i] \notin finished'
    BY <1>3, <2>5, ReturnFacts DEF OnePlaceEach
  <2>8. QED
    BY <2>2, <2>3, <2>4, <2>6, <2>7 DEF OnePlaceEach
<1>4. CASE Decrement(w)
  BY <1>4, DecrementFacts DEF OnePlaceEach, RangeOf
<1>5. QED
  BY <1>1, <1>2, <1>3, <1>4, WorkerCases

LEMMA RunOncePreserved ==
    ASSUME TypeOK, OnePlaceEach, RunOnce, FifoNoLoss,
           \/ \E c \in Callers : CallerMove(c)
           \/ \E w \in Workers : WorkerMove(w)
    PROVE  RunOnce'
<1>1. ASSUME NEW c \in Callers, CallerQuiet(c) PROVE RunOnce'
  BY <1>1, CallerFrame DEF Places, RunOnce
<1>2. ASSUME NEW c \in Callers, NEW t \in Tasks, Enqueue(c, t) PROVE RunOnce'
  BY <1>2, EnqueueSets DEF Enqueue, RunOnce
<1>3. ASSUME NEW w \in Workers, WorkerQuiet(w) PROVE RunOnce'
  BY <1>3, WorkerFrame DEF Places, RunOnce
<1>4. ASSUME NEW w \in Workers, Take(w) PROVE RunOnce'
  <2>1. \A v \in Workers :
           held'[v] = IF v = w THEN tasks[1] ELSE held[v]
    BY <1>4, TakeFacts DEF TypeOK
  <2>2. \A v \in Running' : v \in Workers
    BY DEF Running
  <2>3. QED
    BY <1>4, <2>1, <2>2, TakeFacts DEF RunOnce
<1>5. ASSUME NEW w \in Workers, TaskReturns(w) PROVE RunOnce'
  <2>1. \A v \in Running' : v \in Running /\ v # w /\ held'[v] = held[v]
    BY <1>5, ReturnFacts DEF TypeOK, Running
  <2>2. \A v \in Running' : held[v] # held[w]
    BY <1>5, <2>1, ReturnFacts DEF RunOnce
  <2>3. QED
    BY <1>5, <2>1, <2>2, ReturnFacts DEF RunOnce
<1>6. ASSUME NEW w \in Workers, Decrement(w) PROVE RunOnce'
  BY <1>6, DecrementFacts DEF RunOnce
<1>7. QED
  BY <1>1, <1>2, <1>3, <1>4, <1>5, <1>6, CallerCases, WorkerCases

LEMMA FifoTake ==
    ASSUME TypeOK, OnePlaceEach, FifoNoLoss, NEW w \in Workers, Take(w)
    PROVE  FifoNoLoss'
<1>1. /\ \A v \in Running : v \in Running' /\ held'[v] = held[v]
      /\ w \in Running' /\ held'[w] = tasks[1]
  BY TakeFacts DEF TypeOK, Running
<1>2. /\ UNCHANGED <<accepted, finished>>
      /\ Len(tasks) \in Nat \ {0}
      /\ Len(tasks') = Len(tasks) - 1
      /\ \A i \in 1 .. Len(tasks') : tasks'[i] = tasks[i + 1]
  BY TakeFacts
<1>3. Len(accepted) \in Nat
  BY DEF TypeOK
<1>4. Started \in Nat /\ Started' = Started + 1 /\ Len(tasks') <= Len(accepted)
  BY <1>2, <1>3 DEF FifoNoLoss, Started
<1>5. ASSUME NEW i \in 1 .. Len(tasks')
      PROVE  tasks'[i] = accepted[Started + 1 + i]
  <2>1. i + 1 \in 1 .. Len(tasks) /\ tasks'[i] = tasks[i + 1]
    BY <1>2
  <2>2. tasks[i + 1] = accepted[Started + (i + 1)]
    BY <2>1 DEF FifoNoLoss
  <2>3. Started + (i + 1) = Started + 1 + i
    BY <1>4
  <2>4. QED
    BY <2>1, <2>2, <2>3
<1>6. accepted[Started + 1] = tasks[1]
  BY <1>2 DEF FifoNoLoss
<1>7. ASSUME NEW i \in 1 .. (Started + 1)
      PROVE  \/ accepted[i] \in finished
             \/ \E v \in Running' : held'[v] = accepted[i]
  <2>1. CASE i \in 1 .. Started
    BY <2>1, <1>1 DEF FifoNoLoss
  <2>2. CASE i = Started + 1
    BY <2>2, <1>1, <1>6
  <2>3. QED
    BY <2>1, <2>2, <1>4
<1>8. QED
  BY <1>2, <1>4, <1>5, <1>7 DEF FifoNoLoss

LEMMA FifoPreserved ==
    ASSUME TypeOK, OnePlaceEach, FifoNoLoss,
           \/ \E c \in Callers : CallerMove(c)
           \/ \E w \in Workers : WorkerMove(w)
    PROVE  FifoNoLoss'
<1> USE DEF FifoNoLoss, Started
<1>1. ASSUME NEW c \in Callers, CallerQuiet(c) PROVE FifoNoLoss'
  BY <1>1, CallerFrame DEF Places
<1>2. ASSUME NEW c \in Callers, NEW t \in Tasks, Enqueue(c, t)
      PROVE  FifoNoLoss'
  <2>1. UNCHANGED <<held, finished, Running>>
    BY <1>2, EnqueueSets DEF Enqueue
  <2>2. /\ Len(tasks) \in Nat
        /\ Len(tasks') = Len(tasks) + 1
        /\ \A i \in 1 .. Len(tasks) : tasks'[i] = tasks[i]
        /\ tasks'[Len(tasks) + 1] = t
    BY <1>2, AppendElements DEF Enqueue, TypeOK
  <2>3. /\ Len(accepted) \in Nat
        /\ Len(accepted') = Len(accepted) + 1
        /\ \A i \in 1 .. Len(accepted) : accepted'[i] = accepted[i]
        /\ accepted'[Len(accepted) + 1] = t
    BY <1>2, AppendElements DEF Enqueue, TypeOK
  <2>4. Started' = Started /\ Started \in Nat /\ Len(tasks') <= Len(accepted')
    BY <2>2, <2>3
  <2>5. ASSUME NEW i \in 1 .. Len(tasks')
        PROVE  tasks'[i] = accepted'[Started + i]
    <3>1. CASE i \in 1 .. Len(tasks)
      <4>1. Started + i \in 1 .. Len(accepted)
        BY <3>1, <2>2, <2>3
      <4>2. QED
        BY <3>1, <4>1, <2>2, <2>3
    <3>2. CASE i = Len(tasks) + 1
      BY <3>2, <2>2, <2>3
    <3>3. QED
      BY <3>1, <3>2, <2>2
  <2>6. ASSUME NEW i \in 1 .. Started
        PROVE  /\ accepted'[i] = accepted[i]
               /\ \/ accepted[i] \in finished
                  \/ \E w \in Running : held[w] = accepted[i]
    BY <2>2, <2>3
  <2>7. QED
    BY <2>1, <2>4, <2>5, <2>6
<1>3. ASSUME NEW w \in Workers, WorkerQuiet(w) PROVE FifoNoLoss'
  BY <1>3, WorkerFrame DEF Places
<1>4. ASSUME NEW w \in Workers, Take(w) PROVE FifoNoLoss'
  BY <1>4, FifoTake
<1>5. ASSUME NEW w \in Workers, TaskReturns(w) PROVE FifoNoLoss'
  <2>1. \A v \in Running : v = w \/ (v \in Running' /\ held'[v] = held[v])
    BY <1>5, ReturnFacts DEF TypeOK, Running
  <2>2. ASSUME NEW i \in 1 .. Started
        PROVE  \/ accepted[i] \in finished'
               \/ \E v \in Running' : held'[v] = accepted[i]
    BY <1>5, <2>1, ReturnFacts
  <2>3. UNCHANGED <<tasks, accepted>>
    BY <1>5, ReturnFacts
  <2>4. QED
    BY <2>2, <2>3
<1>6. ASSUME NEW w \in Workers, Decrement(w) PROVE FifoNoLoss'
  BY <1>6, DecrementFacts
<1>7. QED
  BY <1>1, <1>2, <1>3, <1>4, <1>5, <1>6, CallerCases, WorkerCases

-----------------------------------------------------------------------------
(* The stopper.                                                            *)

\* Only the callers' own control decides OneStopper: a worker's notification
\* moves callers between "idleAsleep" and "waiting" only.
LEMMA WakeKeepsStoppers ==
    ASSUME TypeOK, cpc' = WakeIdleWaiters(cpc)
    PROVE  \A c \in Callers : Stopper(c)' <=> Stopper(c)
  BY DEF TypeOK, WakeIdleWaiters, Stopper

LEMMA OneStopperPreserved ==
    ASSUME TypeOK, OneStopper,
           \/ \E c \in Callers : CallerMove(c)
           \/ \E w \in Workers : WorkerMove(w)
    PROVE  OneStopper'
<1>1. ASSUME NEW w \in Workers, WorkerMove(w) PROVE OneStopper'
  <2>1. stopReq' = stopReq /\ stopping' = stopping
    BY <1>1 DEF WorkerMove, WorkerStep, LoopTest, Sleep, ExitEmpty, Take,
       Decrement, NotifyIdle, TaskReturns, SpuriousWakeup
  <2>2. cpc' = cpc \/ cpc' = WakeIdleWaiters(cpc)
    BY <1>1 DEF WorkerMove, WorkerStep, LoopTest, Sleep, ExitEmpty, Take,
       Decrement, NotifyIdle, TaskReturns, SpuriousWakeup
  <2>3. \A c \in Callers : Stopper(c)' <=> Stopper(c)
    BY <2>2, WakeKeepsStoppers DEF Stopper
  <2>4. \A v \in Exited' : v \in Exited \/ stopping
    BY <1>1 DEF TypeOK, OneStopper, Exited, MustStop, WGoto, WorkerMove,
       WorkerStep, LoopTest, Sleep, ExitEmpty, Take, Decrement, NotifyIdle,
       TaskReturns, SpuriousWakeup
  <2>5. QED
    BY <2>1, <2>3, <2>4 DEF OneStopper
<1>2. ASSUME NEW c \in Callers, CallerMove(c) PROVE OneStopper'
  <2> USE DEF TypeOK, OneStopper, Stopper, Exited, Goto
  <2>1. CASE \E t \in Tasks : Enqueue(c, t) \/ EnqueueRefused(c, t)
    BY <2>1 DEF Enqueue, EnqueueRefused
  <2>2. CASE CallWaitIdle(c) \/ CallStop(c) \/ NotifyOne(c)
    BY <2>2 DEF CallWaitIdle, CallStop, NotifyOne, Asleep
  <2>3. CASE \/ WaitIdleReturns(c) \/ WaitIdleSleeps(c)
             \/ SpuriousIdleWakeup(c) \/ StopAgain(c)
    BY <2>3 DEF WaitIdleReturns, WaitIdleSleeps, SpuriousIdleWakeup, StopAgain
  <2>4. CASE StopFirst(c)
    BY <2>4 DEF StopFirst
  <2>5. CASE StopWakesWorkers(c) \/ Join(c)
    BY <2>5 DEF StopWakesWorkers, Join, Asleep
  <2>6. CASE StopWakesWaiters(c)
    BY <2>6 DEF StopWakesWaiters, WakeIdleWaiters
  <2>7. CASE \E w \in Workers : RequestStop(c, w)
    BY <2>7 DEF RequestStop
  <2>8. QED
    BY <1>2, <2>1, <2>2, <2>3, <2>4, <2>5, <2>6, <2>7
       DEF CallerMove, Call, CallerStep
<1>3. QED
  BY <1>1, <1>2

-----------------------------------------------------------------------------
(* Wakeups.                                                                *)

\* Nobody sleeps after the stopper's notify_all: Sleep needs ~stopping.
LEMMA SleepThroughStopPreserved ==
    ASSUME TypeOK, OneStopper, NoSleepThroughStop,
           \/ \E c \in Callers : CallerMove(c)
           \/ \E w \in Workers : WorkerMove(w)
    PROVE  NoSleepThroughStop'
<1> USE DEF TypeOK, NoSleepThroughStop, Asleep
<1>1. ASSUME NEW w \in Workers, WorkerMove(w) PROVE NoSleepThroughStop'
  <2> USE DEF WGoto
  <2>1. CASE Sleep(w)
    BY <2>1 DEF Sleep, MustStop
  <2>2. CASE LoopTest(w) \/ ExitEmpty(w) \/ Take(w)
    BY <2>2 DEF LoopTest, ExitEmpty, Take
  <2>3. CASE TaskReturns(w) \/ Decrement(w) \/ SpuriousWakeup(w)
    BY <2>3 DEF TaskReturns, Decrement, SpuriousWakeup
  <2>4. CASE NotifyIdle(w)
    BY <2>4 DEF NotifyIdle, WakeIdleWaiters
  <2>5. QED
    BY <1>1, <2>1, <2>2, <2>3, <2>4 DEF WorkerMove, WorkerStep
<1>2. ASSUME NEW c \in Callers, CallerMove(c) PROVE NoSleepThroughStop'
  <2> USE DEF Goto
  <2>1. CASE \E t \in Tasks : Enqueue(c, t) \/ EnqueueRefused(c, t)
    BY <2>1 DEF Enqueue, EnqueueRefused
  <2>2. CASE CallWaitIdle(c) \/ CallStop(c)
    BY <2>2 DEF CallWaitIdle, CallStop
  <2>3. CASE NotifyOne(c)
    BY <2>3 DEF NotifyOne
  <2>4. CASE \/ WaitIdleReturns(c) \/ WaitIdleSleeps(c)
             \/ SpuriousIdleWakeup(c) \/ StopAgain(c)
    BY <2>4 DEF WaitIdleReturns, WaitIdleSleeps, SpuriousIdleWakeup, StopAgain
  <2>5. CASE StopFirst(c)
    BY <2>5 DEF StopFirst
  <2>6. CASE StopWakesWorkers(c)
    BY <2>6 DEF StopWakesWorkers
  <2>7. CASE StopWakesWaiters(c)
    BY <2>7 DEF StopWakesWaiters, WakeIdleWaiters
  <2>8. CASE Join(c) \/ \E w \in Workers : RequestStop(c, w)
    BY <2>8 DEF Join, RequestStop
  <2>9. QED
    BY <1>2, <2>1, <2>2, <2>3, <2>4, <2>5, <2>6, <2>7, <2>8
       DEF CallerMove, Call, CallerStep
<1>3. QED
  BY <1>1, <1>2

\* A worker goes to sleep on an empty queue only, and every push is followed
\* by a notification; a worker that leaves at the loop test does so after
\* stop(), whose own notification is then still to come if anyone sleeps.
LEMMA LostWakeupPreserved ==
    ASSUME TypeOK, OneStopper, NoSleepThroughStop, NoLostWakeup,
           \/ \E c \in Callers : CallerMove(c)
           \/ \E w \in Workers : WorkerMove(w)
    PROVE  NoLostWakeup'
<1> USE DEF TypeOK, NoLostWakeup, Asleep, Exited
<1>1. ASSUME NEW w \in Workers, WorkerMove(w) PROVE NoLostWakeup'
  <2> USE DEF WGoto
  <2>1. CASE Sleep(w) \/ ExitEmpty(w)
    BY <2>1 DEF Sleep, ExitEmpty
  <2>2. CASE LoopTest(w)
    <3>1. CASE w \in stopReq
      <4>1. stopping
        BY <3>1 DEF OneStopper
      <4>2. Asleep' = Asleep /\ cpc' = cpc
        BY <2>2 DEF LoopTest
      <4>3. QED
        BY <4>1, <4>2 DEF NoSleepThroughStop
    <3>2. CASE w \notin stopReq
      BY <2>2, <3>2 DEF LoopTest
    <3>3. QED
      BY <3>1, <3>2
  <2>3. CASE Take(w)
    BY <2>3 DEF Take
  <2>4. CASE TaskReturns(w) \/ Decrement(w)
    BY <2>4 DEF TaskReturns, Decrement
  <2>5. CASE SpuriousWakeup(w)
    BY <2>5 DEF SpuriousWakeup
  <2>6. CASE NotifyIdle(w)
    BY <2>6 DEF NotifyIdle, WakeIdleWaiters
  <2>7. QED
    BY <1>1, <2>1, <2>2, <2>3, <2>4, <2>5, <2>6 DEF WorkerMove, WorkerStep
<1>2. ASSUME NEW c \in Callers, CallerMove(c) PROVE NoLostWakeup'
  <2> USE DEF Goto
  <2>1. CASE \E t \in Tasks : Enqueue(c, t) \/ EnqueueRefused(c, t)
    BY <2>1 DEF Enqueue, EnqueueRefused
  <2>2. CASE CallWaitIdle(c) \/ CallStop(c)
    BY <2>2 DEF CallWaitIdle, CallStop
  <2>3. CASE NotifyOne(c)
    <3>1. CASE Asleep = {}
      BY <2>3, <3>1 DEF NotifyOne
    <3>2. ASSUME NEW w \in Workers, wpc[w] = "asleep",
                 wpc' = [wpc EXCEPT ![w] = "lock"]
          PROVE  NoLostWakeup'
      <4>1. w \notin (Asleep \cup Exited)'
        BY <3>2
      <4>2. QED
        BY <4>1
    <3>3. QED
      BY <2>3, <3>1, <3>2 DEF NotifyOne
  <2>4. CASE \/ WaitIdleReturns(c) \/ WaitIdleSleeps(c)
             \/ SpuriousIdleWakeup(c) \/ StopAgain(c)
    BY <2>4 DEF WaitIdleReturns, WaitIdleSleeps, SpuriousIdleWakeup, StopAgain
  <2>5. CASE StopFirst(c)
    BY <2>5 DEF StopFirst
  <2>6. CASE StopWakesWorkers(c)
    BY <2>6 DEF StopWakesWorkers
  <2>7. CASE StopWakesWaiters(c)
    BY <2>7 DEF StopWakesWaiters, WakeIdleWaiters
  <2>8. CASE Join(c) \/ \E w \in Workers : RequestStop(c, w)
    BY <2>8 DEF Join, RequestStop
  <2>9. QED
    BY <1>2, <2>1, <2>2, <2>3, <2>4, <2>5, <2>6, <2>7, <2>8
       DEF CallerMove, Call, CallerStep
<1>3. QED
  BY <1>1, <1>2

\* A waiter goes to sleep on a busy pool only; the step that makes the pool
\* idle is a decrement, and its worker has a notification to send.
LEMMA LostIdleWakeupPreserved ==
    ASSUME TypeOK, ActiveCount, NoLostIdleWakeup,
           \/ \E c \in Callers : CallerMove(c)
           \/ \E w \in Workers : WorkerMove(w)
    PROVE  NoLostIdleWakeup'
<1> USE DEF TypeOK, NoLostIdleWakeup, Idle
<1>1. ASSUME NEW w \in Workers, WorkerMove(w) PROVE NoLostIdleWakeup'
  <2> USE DEF WGoto
  <2>1. CASE LoopTest(w) \/ Sleep(w) \/ ExitEmpty(w) \/ SpuriousWakeup(w)
    BY <2>1 DEF LoopTest, Sleep, ExitEmpty, SpuriousWakeup
  <2>2. CASE Take(w)
    <3>1. Len(tasks) \in Nat \ {0}
      BY <2>2, EmptySeq DEF Take
    <3>2. Cardinality(Counted) \in Nat
      BY CountedCardinality
    <3>3. activeTasks # 0
      BY <3>1, <3>2 DEF ActiveCount
    <3>4. QED
      BY <2>2, <3>3 DEF Take
  <2>3. CASE TaskReturns(w)
    BY <2>3 DEF TaskReturns
  <2>4. CASE Decrement(w)
    BY <2>4 DEF Decrement
  <2>5. CASE NotifyIdle(w)
    BY <2>5 DEF NotifyIdle, WakeIdleWaiters
  <2>6. QED
    BY <1>1, <2>1, <2>2, <2>3, <2>4, <2>5 DEF WorkerMove, WorkerStep
<1>2. ASSUME NEW c \in Callers, CallerMove(c) PROVE NoLostIdleWakeup'
  <2> USE DEF Goto
  <2>1. CASE \E t \in Tasks : Enqueue(c, t)
    BY <2>1 DEF Enqueue
  <2>2. CASE \E t \in Tasks : EnqueueRefused(c, t)
    BY <2>2 DEF EnqueueRefused
  <2>3. CASE CallWaitIdle(c) \/ CallStop(c)
    BY <2>3 DEF CallWaitIdle, CallStop
  <2>4. CASE NotifyOne(c)
    BY <2>4 DEF NotifyOne, Asleep
  <2>5. CASE WaitIdleReturns(c) \/ SpuriousIdleWakeup(c) \/ StopAgain(c)
    BY <2>5 DEF WaitIdleReturns, SpuriousIdleWakeup, StopAgain
  <2>6. CASE WaitIdleSleeps(c)
    BY <2>6 DEF WaitIdleSleeps
  <2>7. CASE StopFirst(c) \/ Join(c)
    BY <2>7 DEF StopFirst, Join
  <2>8. CASE StopWakesWorkers(c)
    BY <2>8 DEF StopWakesWorkers, Asleep
  <2>9. CASE StopWakesWaiters(c)
    BY <2>9 DEF StopWakesWaiters, WakeIdleWaiters
  <2>10. CASE \E w \in Workers : RequestStop(c, w)
    BY <2>10 DEF RequestStop
  <2>11. QED
    BY <1>2, <2>1, <2>2, <2>3, <2>4, <2>5, <2>6, <2>7, <2>8, <2>9, <2>10
       DEF CallerMove, Call, CallerStep
<1>3. QED
  BY <1>1, <1>2

-----------------------------------------------------------------------------
(* The invariant.                                                          *)

LEMMA NextMoves ==
    Next <=> \/ \E c \in Callers : CallerMove(c)
             \/ \E w \in Workers : WorkerMove(w)
  BY DEF Next, CallerMove, WorkerMove

LEMMA InitInv == Init => PoolInv
<1> SUFFICES ASSUME Init PROVE PoolInv
  OBVIOUS
<1>1. TypeOK
  BY InitType
<1>2. tasks = <<>> /\ accepted = <<>> /\ Len(<<>>) = 0
  BY EmptySeq DEF Init
<1>3. Counted = {} /\ Running = {} /\ Asleep = {}
  BY DEF Init, Counted, Running, Asleep
<1>4. ActiveCount
  BY <1>2, <1>3, FS_EmptySet DEF Init, ActiveCount
<1>5. OnePlaceEach
  BY <1>2, <1>3 DEF Init, OnePlaceEach
<1>6. RunOnce
  BY <1>3 DEF RunOnce
<1>7. FifoNoLoss
  BY <1>2 DEF FifoNoLoss, Started
<1>8. OneStopper
  BY DEF Init, OneStopper, Stopper, Exited
<1>9. NoLostWakeup /\ NoSleepThroughStop
  BY <1>2, <1>3 DEF NoLostWakeup, NoSleepThroughStop
<1>10. NoLostIdleWakeup
  BY DEF Init, NoLostIdleWakeup
<1>11. QED
  BY <1>1, <1>4, <1>5, <1>6, <1>7, <1>8, <1>9, <1>10 DEF PoolInv

LEMMA NextInv == PoolInv /\ [Next]_vars => PoolInv'
<1> SUFFICES ASSUME PoolInv, [Next]_vars PROVE PoolInv'
  OBVIOUS
<1> USE DEF PoolInv
<1>1. ASSUME NEW c \in Callers, CallerMove(c) PROVE PoolInv'
  BY <1>1, CallerType, CallerCount, CallerPlaces, RunOncePreserved,
     FifoPreserved, OneStopperPreserved, LostWakeupPreserved,
     SleepThroughStopPreserved, LostIdleWakeupPreserved
<1>2. ASSUME NEW w \in Workers, WorkerMove(w) PROVE PoolInv'
  BY <1>2, WorkerType, WorkerCount, WorkerPlaces, RunOncePreserved,
     FifoPreserved, OneStopperPreserved, LostWakeupPreserved,
     SleepThroughStopPreserved, LostIdleWakeupPreserved
<1>3. CASE UNCHANGED vars
  BY <1>3 DEF vars, TypeOK, ActiveCount, Counted, OnePlaceEach, Running,
     RangeOf, RunOnce, FifoNoLoss, Started, OneStopper, Stopper, NoLostWakeup,
     Asleep, Exited, NoSleepThroughStop, NoLostIdleWakeup, Idle
<1>4. QED
  BY <1>1, <1>2, <1>3, NextMoves

\* The pool's invariant holds in every state of every instance.
THEOREM PoolInvariant == Spec => []PoolInv
<1>1. QED
  BY InitInv, NextInv, PTL DEF Spec

\* Type correctness; in particular m_activeTasks, which is unsigned, never
\* wraps below zero.
THEOREM PoolTypeCorrect == Spec => []TypeOK
<1>1. PoolInv => TypeOK
  BY DEF PoolInv
<1>2. QED
  BY <1>1, PoolInvariant, PTL

\* The counter waitIdle decides on is exact.
THEOREM PoolCounterExact == Spec => []ActiveCount
<1>1. PoolInv => ActiveCount
  BY DEF PoolInv
<1>2. QED
  BY <1>1, PoolInvariant, PTL

\* Tasks are started once, in order, and none is lost between the queue and
\* the worker (enqueue, workerLoop).
THEOREM PoolTasksInOrder == Spec => [](FifoNoLoss /\ RunOnce)
<1>1. PoolInv => FifoNoLoss /\ RunOnce
  BY DEF PoolInv
<1>2. QED
  BY <1>1, PoolInvariant, PTL

\* No wakeup of a worker or of a waiter is lost (notify_one after the unlock,
\* notify_all of stop and of workerLoop).
THEOREM PoolWakeups == Spec => []NoLostWakeups
<1>1. PoolInv => NoLostWakeups
  BY DEF PoolInv, NoLostWakeups
<1>2. QED
  BY <1>1, PoolInvariant, PTL

\* At most one caller of stop() goes past the test of m_stopping.
THEOREM PoolOneStopper == Spec => []OneStopper
<1>1. PoolInv => OneStopper
  BY DEF PoolInv
<1>2. QED
  BY <1>1, PoolInvariant, PTL

-----------------------------------------------------------------------------
(* waitIdle.                                                               *)

\* On an idle pool every accepted task has returned and no worker runs one.
LEMMA IdleMeansDone ==
    ASSUME PoolInv, Idle
    PROVE  RangeOf(accepted) \subseteq finished /\ Running = {}
<1>1. tasks = <<>> /\ Len(tasks) = 0 /\ activeTasks = 0
  BY EmptySeq DEF Idle
<1>2. Cardinality(Counted) = 0
  BY <1>1, CountedCardinality DEF PoolInv, ActiveCount
<1>3. Counted = {}
  BY <1>2, CountedCardinality
<1>4. Running = {}
  BY <1>3 DEF Running, Counted
<1>5. Started = Len(accepted)
  BY <1>1 DEF Started, PoolInv, TypeOK
<1>6. QED
  BY <1>4, <1>5 DEF PoolInv, FifoNoLoss, RangeOf

\* Only waitIdle's own successful test takes a caller from "waiting" to "free".
LEMMA WaitingToFree ==
    ASSUME TypeOK, Next, NEW c \in Callers,
           cpc[c] = "waiting", cpc'[c] = "free"
    PROVE  WaitIdleReturns(c) /\ UNCHANGED <<accepted, finished>>
<1> USE DEF TypeOK, Goto
<1>1. ASSUME NEW w \in Workers, WorkerMove(w) PROVE FALSE
  <2>1. cpc' = cpc \/ cpc' = WakeIdleWaiters(cpc)
    BY <1>1 DEF WorkerMove, WorkerStep, LoopTest, Sleep, ExitEmpty, Take,
       Decrement, NotifyIdle, TaskReturns, SpuriousWakeup
  <2>2. QED
    BY <2>1 DEF WakeIdleWaiters
<1>2. ASSUME NEW d \in Callers, CallerMove(d), ~WaitIdleReturns(c) PROVE FALSE
  <2>1. CASE \E t \in Tasks : Enqueue(d, t) \/ EnqueueRefused(d, t)
    BY <2>1 DEF Enqueue, EnqueueRefused
  <2>2. CASE CallWaitIdle(d) \/ CallStop(d) \/ NotifyOne(d)
    BY <2>2 DEF CallWaitIdle, CallStop, NotifyOne
  <2>3. CASE WaitIdleReturns(d)
    BY <2>3, <1>2 DEF WaitIdleReturns
  <2>4. CASE WaitIdleSleeps(d) \/ SpuriousIdleWakeup(d) \/ StopAgain(d)
    BY <2>4 DEF WaitIdleSleeps, SpuriousIdleWakeup, StopAgain
  <2>5. CASE StopFirst(d) \/ StopWakesWorkers(d) \/ Join(d)
    BY <2>5 DEF StopFirst, StopWakesWorkers, Join
  <2>6. CASE StopWakesWaiters(d)
    BY <2>6 DEF StopWakesWaiters, WakeIdleWaiters
  <2>7. CASE \E w \in Workers : RequestStop(d, w)
    BY <2>7 DEF RequestStop
  <2>8. QED
    BY <1>2, <2>1, <2>2, <2>3, <2>4, <2>5, <2>6, <2>7
       DEF CallerMove, Call, CallerStep
<1>3. WaitIdleReturns(c)
  BY <1>1, <1>2, NextMoves
<1>4. QED
  BY <1>3 DEF WaitIdleReturns

\* waitIdle() returns only when every task accepted so far has returned,
\* whatever enqueue, stop and the workers do meanwhile.
THEOREM PoolWaitIdleSound == Spec => WaitIdleSound
<1>1. PoolInv /\ [Next]_vars =>
         [\A c \in Callers :
             (cpc[c] = "waiting" /\ cpc'[c] = "free") =>
                 RangeOf(accepted) \subseteq finished]_vars
  <2> SUFFICES ASSUME PoolInv, Next, NEW c \in Callers,
                      cpc[c] = "waiting", cpc'[c] = "free"
               PROVE  RangeOf(accepted) \subseteq finished
    OBVIOUS
  <2>1. Idle
    BY WaitingToFree DEF PoolInv, WaitIdleReturns
  <2>2. QED
    BY <2>1, IdleMeansDone
<1>2. QED
  BY <1>1, PoolInvariant, PTL DEF Spec, WaitIdleSound

-----------------------------------------------------------------------------
(***************************************************************************)
(* ThreadPool implements TaskPool.  The initial states map to initial      *)
(* states; under PoolInv every step maps to a step of the abstract pool or *)
(* leaves its variables alone.                                             *)
(***************************************************************************)
(* How the mapped variables change.                                        *)

LEMMA ClientsGoto ==
    ASSUME TypeOK, NEW c \in Callers, NEW from, NEW to, Goto(c, from, to)
    PROVE  /\ cpc[c] = from /\ cpc'[c] = to
           /\ Clients[c] = ClientOf(c)
           /\ Clients' = [Clients EXCEPT ![c] = ClientOf(c)']
<1>1. \A d \in Callers : d # c => ClientOf(d)' = ClientOf(d)
  BY DEF TypeOK, Goto, ClientOf
<1>2. cpc[c] = from /\ cpc'[c] = to
  BY DEF TypeOK, Goto
<1>3. QED
  BY <1>1, <1>2 DEF Clients

\* Waking the callers of waitIdle is invisible.
LEMMA ClientsWake ==
    ASSUME TypeOK, cpc' = WakeIdleWaiters(cpc)
    PROVE  Clients' = Clients
<1>1. \A d \in Callers : ClientOf(d)' = ClientOf(d)
  BY DEF TypeOK, WakeIdleWaiters, ClientOf
<1>2. QED
  BY <1>1 DEF Clients

LEMMA PhaseFrame ==
    ASSUME stopping' = stopping, Exited' = Exited
    PROVE  PhaseNow' = PhaseNow
  BY DEF PhaseNow

\* No caller's step makes a worker exit.
LEMMA ExitedFrame ==
    ASSUME TypeOK, NEW c \in Callers, CallerMove(c)
    PROVE  Exited' = Exited
<1> SUFFICES \A w \in Workers : wpc'[w] = "exited" <=> wpc[w] = "exited"
  BY DEF Exited
<1>1. CASE \E t \in Tasks : Enqueue(c, t) \/ EnqueueRefused(c, t)
  BY <1>1 DEF Enqueue, EnqueueRefused
<1>2. CASE CallWaitIdle(c) \/ CallStop(c) \/ SpuriousIdleWakeup(c)
  BY <1>2 DEF CallWaitIdle, CallStop, SpuriousIdleWakeup
<1>3. CASE NotifyOne(c)
  BY <1>3 DEF NotifyOne, Asleep, TypeOK
<1>4. CASE WaitIdleReturns(c) \/ WaitIdleSleeps(c) \/ StopAgain(c)
  BY <1>4 DEF WaitIdleReturns, WaitIdleSleeps, StopAgain
<1>5. CASE StopFirst(c) \/ StopWakesWaiters(c) \/ Join(c)
  BY <1>5 DEF StopFirst, StopWakesWaiters, Join
<1>6. CASE StopWakesWorkers(c)
  BY <1>6 DEF StopWakesWorkers, Asleep, TypeOK
<1>7. CASE \E w \in Workers : RequestStop(c, w)
  BY <1>7 DEF RequestStop
<1>8. QED
  BY <1>1, <1>2, <1>3, <1>4, <1>5, <1>6, <1>7 DEF CallerMove, Call, CallerStep

LEMMA RunningTasksFrame ==
    ASSUME held' = held, Running' = Running
    PROVE  RunningTasks' = RunningTasks
  BY DEF RunningTasks

-----------------------------------------------------------------------------
(* The initial states.                                                     *)

LEMMA RefinementInit == Init => Abstract!Init
<1> SUFFICES ASSUME Init PROVE Abstract!Init
  OBVIOUS
<1>1. Running = {} /\ RunningTasks = {}
  BY DEF Init, Running, RunningTasks
<1>2. PhaseNow = "open"
  BY DEF Init, PhaseNow
<1>3. Clients = [c \in Callers |-> "free"]
  BY DEF Init, Clients, ClientOf
<1>4. QED
  BY <1>1, <1>2, <1>3 DEF Init, Abstract!Init

-----------------------------------------------------------------------------
(* The steps of a caller.                                                  *)

LEMMA RefineEnqueue ==
    ASSUME PoolInv, NEW c \in Callers, NEW t \in Tasks,
           Enqueue(c, t), ~Submitted(t)
    PROVE  Abstract!Submit(c, t)
<1>1. TypeOK /\ Goto(c, "free", "enqueued") /\ ~stopping
  BY DEF PoolInv, Enqueue
<1>2. PhaseNow = "open" /\ PhaseNow' = "open"
  BY <1>1 DEF Enqueue, PhaseNow
<1>3. Clients[c] = "free" /\ Clients' = Clients
  <2>1. cpc[c] = "free" /\ cpc'[c] = "enqueued"
    BY <1>1, ClientsGoto
  <2>2. ClientOf(c) = "free" /\ ClientOf(c)' = "free"
    BY <2>1 DEF ClientOf
  <2>3. QED
    BY <1>1, <2>2, ClientsGoto DEF Clients
<1>4. UNCHANGED <<RunningTasks, finished>>
  <2>1. UNCHANGED <<held, Running, finished>>
    BY <1>1, EnqueueSets DEF Enqueue
  <2>2. QED
    BY <2>1, RunningTasksFrame
<1>5. tasks' = Append(tasks, t)
  BY DEF Enqueue
<1>6. t \notin RangeOf(accepted)
  BY DEF Submitted
<1>7. Abstract!Fresh(t)
  <2>1. t \notin RunningTasks /\ t \notin finished
    BY <1>6 DEF PoolInv, OnePlaceEach, RunningTasks
  <2>2. \A i \in 1 .. Len(tasks) : tasks[i] # t
    BY <1>6, QueueAccepted DEF PoolInv
  <2>3. QED
    BY <2>1, <2>2 DEF Abstract!Fresh
<1>8. QED
  BY <1>2, <1>3, <1>4, <1>5, <1>7 DEF Abstract!Submit

LEMMA CallerQuietFrame ==
    ASSUME PoolInv, NEW c \in Callers, CallerQuiet(c)
    PROVE  UNCHANGED <<tasks, RunningTasks, finished, Running, Exited>>
<1>1. UNCHANGED Places
  BY CallerFrame DEF PoolInv
<1>2. CallerMove(c)
  BY DEF CallerQuiet, CallerMove, Call
<1>3. Exited' = Exited
  BY <1>2, ExitedFrame DEF PoolInv
<1>4. UNCHANGED <<tasks, held, finished, Running>>
  BY <1>1 DEF Places
<1>5. QED
  BY <1>3, <1>4, RunningTasksFrame

\* The abstract control of a caller after a step that is not a push.
LEMMA RefineCallerQuiet ==
    ASSUME PoolInv, NEW c \in Callers, CallerQuiet(c)
    PROVE  [Abstract!Next]_(Abstract!tpVars)
<1> DEFINE Same == UNCHANGED <<tasks, RunningTasks, finished>>
<1>1. Same /\ Exited' = Exited
  BY CallerQuietFrame
<1>2. TypeOK
  BY DEF PoolInv
<1>3. ASSUME UNCHANGED <<stopping, Clients>> PROVE UNCHANGED Abstract!tpVars
  BY <1>1, <1>3, PhaseFrame DEF Abstract!tpVars
<1>4. ASSUME NEW t \in Tasks, EnqueueRefused(c, t)
      PROVE  UNCHANGED <<stopping, Clients>>
  BY <1>4 DEF EnqueueRefused, Clients, ClientOf
<1>5. CASE CallStop(c) \/ NotifyOne(c) \/ StopAgain(c)
  <2>1. stopping' = stopping
    BY <1>5 DEF CallStop, NotifyOne, StopAgain
  <2>2. \/ Goto(c, "free", "stopLock")
        \/ Goto(c, "enqueued", "free")
        \/ Goto(c, "stopLock", "free")
    BY <1>5 DEF CallStop, NotifyOne, StopAgain
  <2>3. ClientOf(c) = "free" /\ ClientOf(c)' = "free"
    BY <2>2, <1>2, ClientsGoto DEF ClientOf
  <2>4. Clients' = Clients
    BY <2>2, <2>3, <1>2, ClientsGoto DEF Clients
  <2>5. QED
    BY <1>3, <2>1, <2>4
<1>6. CASE WaitIdleSleeps(c) \/ SpuriousIdleWakeup(c)
  <2>1. stopping' = stopping
    BY <1>6 DEF WaitIdleSleeps, SpuriousIdleWakeup
  <2>2. Goto(c, "waiting", "idleAsleep") \/ Goto(c, "idleAsleep", "waiting")
    BY <1>6 DEF WaitIdleSleeps, SpuriousIdleWakeup
  <2>3. ClientOf(c) = "waiting" /\ ClientOf(c)' = "waiting"
    BY <2>2, <1>2, ClientsGoto DEF ClientOf
  <2>4. Clients' = Clients
    BY <2>2, <2>3, <1>2, ClientsGoto DEF Clients
  <2>5. QED
    BY <1>3, <2>1, <2>4
<1>7. CASE StopWakesWorkers(c) \/ \E w \in Workers : RequestStop(c, w)
  <2>1. stopping' = stopping
    BY <1>7 DEF StopWakesWorkers, RequestStop
  <2>2. \A d \in Callers : ClientOf(d)' = ClientOf(d)
    BY <1>7, <1>2
       DEF StopWakesWorkers, RequestStop, Goto, TypeOK, ClientOf
  <2>3. QED
    BY <1>3, <2>1, <2>2 DEF Clients
<1>8. CASE StopWakesWaiters(c)
  <2>1. stopping' = stopping
    BY <1>8 DEF StopWakesWaiters
  <2>2. \A d \in Callers : ClientOf(d)' = ClientOf(d)
    BY <1>8, <1>2 DEF StopWakesWaiters, WakeIdleWaiters, TypeOK, ClientOf
  <2>3. QED
    BY <1>3, <2>1, <2>2 DEF Clients
<1>9. CASE CallWaitIdle(c)
  <2>1. Goto(c, "free", "waiting") /\ stopping' = stopping
    BY <1>9 DEF CallWaitIdle
  <2>2. ClientOf(c) = "free" /\ ClientOf(c)' = "waiting"
    BY <2>1, <1>2, ClientsGoto DEF ClientOf
  <2>3. Abstract!Move(c, "free", "waiting")
    BY <2>1, <2>2, <1>2, ClientsGoto DEF Abstract!Move
  <2>4. Abstract!Wait(c)
    BY <1>1, <2>1, <2>3, PhaseFrame DEF Abstract!Wait
  <2>5. QED
    BY <2>4 DEF Abstract!Next
<1>10. CASE WaitIdleReturns(c)
  <2>1. Goto(c, "waiting", "free") /\ stopping' = stopping /\ Idle
    BY <1>10 DEF WaitIdleReturns
  <2>2. ClientOf(c) = "waiting" /\ ClientOf(c)' = "free"
    BY <2>1, <1>2, ClientsGoto DEF ClientOf
  <2>3. Abstract!Move(c, "waiting", "free")
    BY <2>1, <2>2, <1>2, ClientsGoto DEF Abstract!Move
  <2>4. tasks = <<>> /\ RunningTasks = {}
    BY <2>1, IdleMeansDone DEF Idle, RunningTasks
  <2>5. Abstract!WaitDone(c)
    BY <1>1, <2>1, <2>3, <2>4, PhaseFrame DEF Abstract!WaitDone
  <2>6. QED
    BY <2>5 DEF Abstract!Next
<1>11. CASE StopFirst(c)
  <2>1. Goto(c, "stopLock", "stopCv") /\ ~stopping /\ stopping'
    BY <1>11 DEF StopFirst
  <2>2. ClientOf(c) = "free" /\ ClientOf(c)' = "closing"
    BY <2>1, <1>2, ClientsGoto DEF ClientOf
  <2>3. Abstract!Move(c, "free", "closing")
    BY <2>1, <2>2, <1>2, ClientsGoto DEF Abstract!Move
  <2>4. Exited # Workers
    BY <2>1, PoolAssumption DEF PoolInv, OneStopper
  <2>5. PhaseNow = "open" /\ PhaseNow' = "closing"
    BY <1>1, <2>1, <2>4 DEF PhaseNow
  <2>6. Abstract!Close(c)
    BY <1>1, <2>3, <2>5 DEF Abstract!Close
  <2>7. QED
    BY <2>6 DEF Abstract!Next
<1>12. CASE Join(c)
  <2>1. Goto(c, "join", "free") /\ stopping' = stopping /\ Exited = Workers
    BY <1>12 DEF Join
  <2>2. cpc[c] = "join" /\ ClientOf(c) = "closing" /\ ClientOf(c)' = "free"
    BY <2>1, <1>2, ClientsGoto DEF ClientOf
  <2>3. Abstract!Move(c, "closing", "free")
    BY <2>1, <2>2, <1>2, ClientsGoto DEF Abstract!Move
  <2>4. stopping
    BY <2>2 DEF PoolInv, OneStopper, Stopper
  <2>5. PhaseNow = "closed"
    BY <2>1, <2>4 DEF PhaseNow
  <2>6. Abstract!CloseDone(c)
    BY <1>1, <2>1, <2>3, <2>5, PhaseFrame DEF Abstract!CloseDone
  <2>7. QED
    BY <2>6 DEF Abstract!Next
<1>13. QED
  BY <1>3, <1>4, <1>5, <1>6, <1>7, <1>8, <1>9, <1>10, <1>11, <1>12
     DEF CallerQuiet, CallerStep

-----------------------------------------------------------------------------
(* The steps of a worker.                                                  *)

\* A worker's step changes neither m_stopping nor what a caller waits for.
LEMMA WorkerClients ==
    ASSUME TypeOK, NEW w \in Workers, WorkerMove(w)
    PROVE  UNCHANGED <<stopping, Clients>>
<1>1. stopping' = stopping /\ (cpc' = cpc \/ cpc' = WakeIdleWaiters(cpc))
  BY DEF WorkerMove, WorkerStep, LoopTest, Sleep, ExitEmpty, Take,
     Decrement, NotifyIdle, TaskReturns, SpuriousWakeup
<1>2. CASE cpc' = cpc
  BY <1>1, <1>2 DEF Clients, ClientOf
<1>3. CASE cpc' = WakeIdleWaiters(cpc)
  BY <1>1, <1>3, ClientsWake
<1>4. QED
  BY <1>1, <1>2, <1>3

\* A step between two tasks is invisible, but for the exit of the last worker,
\* which seals the pool.
LEMMA RefineWorkerQuiet ==
    ASSUME PoolInv, NEW w \in Workers, WorkerQuiet(w)
    PROVE  [Abstract!Next]_(Abstract!tpVars)
<1>1. TypeOK /\ WorkerMove(w)
  BY DEF PoolInv, WorkerQuiet, WorkerMove, WorkerStep
<1>2. UNCHANGED <<tasks, held, finished, Running>>
  BY <1>1, WorkerFrame DEF Places
<1>3. UNCHANGED <<tasks, RunningTasks, finished>>
  BY <1>2, RunningTasksFrame
<1>4. UNCHANGED <<stopping, Clients>>
  BY <1>1, WorkerClients
<1>5. CASE PhaseNow' = PhaseNow
  BY <1>3, <1>4, <1>5 DEF Abstract!tpVars
<1>6. CASE PhaseNow' # PhaseNow
  <2>1. \A v \in Exited : v \in Exited'
    BY <1>1 DEF WorkerQuiet, TypeOK, Exited, WGoto, LoopTest, Sleep,
       ExitEmpty, NotifyIdle, SpuriousWakeup
  <2>2. stopping /\ Exited # Workers /\ Exited' = Workers
    BY <1>4, <1>6, <2>1 DEF PhaseNow, Exited
  <2>3. PhaseNow = "closing" /\ PhaseNow' = "closed"
    BY <1>4, <2>2 DEF PhaseNow
  <2>4. Running' = {}
    BY <2>2 DEF Running, Exited
  <2>5. RunningTasks = {}
    BY <1>2, <2>4 DEF RunningTasks
  <2>6. Abstract!Seal
    BY <1>3, <1>4, <2>3, <2>5 DEF Abstract!Seal
  <2>7. QED
    BY <2>6 DEF Abstract!Next
<1>7. QED
  BY <1>5, <1>6

\* While a worker is inside its loop the pool is not closed, and a step that
\* does not leave the loop keeps the phase.
LEMMA InsideLoop ==
    ASSUME PoolInv, NEW w \in Workers,
           Take(w) \/ TaskReturns(w) \/ Decrement(w)
    PROVE  PhaseNow' = PhaseNow /\ PhaseNow # "closed"
<1>1. w \notin Exited /\ w \notin Exited'
  BY DEF PoolInv, TypeOK, Exited, WGoto, Take, TaskReturns, Decrement
<1>2. stopping' = stopping
  BY DEF Take, TaskReturns, Decrement
<1>3. QED
  BY <1>1, <1>2 DEF PhaseNow

LEMMA RefineTake ==
    ASSUME PoolInv, NEW w \in Workers, Take(w)
    PROVE  Abstract!Start
<1>1. TypeOK /\ WorkerMove(w)
  BY DEF PoolInv, WorkerMove, WorkerStep
<1>2. /\ UNCHANGED finished
      /\ w \notin Running /\ Running' = Running \cup {w}
      /\ held' = [held EXCEPT ![w] = tasks[1]]
      /\ tasks[1] \notin finished
      /\ \A v \in Running : held[v] # tasks[1]
  BY TakeFacts DEF PoolInv
<1>3. tasks # <<>> /\ Head(tasks) = tasks[1] /\ tasks' = Tail(tasks)
  BY <1>1, TailElements DEF Take, TypeOK
<1>4. held'[w] = tasks[1] /\ \A v \in Running : held'[v] = held[v]
  BY <1>1, <1>2 DEF TypeOK, Running
<1>5. RunningTasks' = RunningTasks \cup {Head(tasks)}
  BY <1>2, <1>3, <1>4 DEF RunningTasks
<1>6. Head(tasks) \notin RunningTasks \cup finished
  BY <1>2, <1>3 DEF RunningTasks
<1>7. UNCHANGED Clients
  BY <1>1, WorkerClients
<1>8. QED
  BY <1>2, <1>3, <1>5, <1>6, <1>7, InsideLoop DEF Abstract!Start

LEMMA RefineTaskReturns ==
    ASSUME PoolInv, NEW w \in Workers, TaskReturns(w)
    PROVE  Abstract!Finish(held[w])
<1>1. TypeOK /\ WorkerMove(w)
  BY DEF PoolInv, WorkerMove
<1>2. /\ UNCHANGED tasks
      /\ w \in Running /\ Running' = Running \ {w}
      /\ held' = [held EXCEPT ![w] = NoTask]
      /\ finished' = finished \cup {held[w]}
  BY ReturnFacts DEF PoolInv
<1>3. \A v \in Running' : held'[v] = held[v] /\ held[v] # held[w]
  BY <1>1, <1>2 DEF TypeOK, Running, PoolInv, RunOnce
<1>4. RunningTasks' = RunningTasks \ {held[w]}
  BY <1>2, <1>3 DEF RunningTasks
<1>5. held[w] \in RunningTasks
  BY <1>2 DEF RunningTasks
<1>6. UNCHANGED Clients
  BY <1>1, WorkerClients
<1>7. QED
  BY <1>2, <1>4, <1>5, <1>6, InsideLoop DEF Abstract!Finish

LEMMA RefineDecrement ==
    ASSUME PoolInv, NEW w \in Workers, Decrement(w)
    PROVE  UNCHANGED Abstract!tpVars
<1>1. TypeOK /\ WorkerMove(w)
  BY DEF PoolInv, WorkerMove, WorkerStep
<1>2. UNCHANGED <<tasks, held, finished, Running>>
  BY <1>1, DecrementFacts
<1>3. QED
  BY <1>1, <1>2, RunningTasksFrame, WorkerClients, InsideLoop
     DEF Abstract!tpVars

-----------------------------------------------------------------------------
(* The theorem.                                                            *)

LEMMA RefinementStep ==
    PoolInv /\ [Next]_vars => [Abstract!Next]_(Abstract!tpVars)
<1> SUFFICES ASSUME PoolInv, [Next]_vars
             PROVE  [Abstract!Next]_(Abstract!tpVars)
  OBVIOUS
<1>1. ASSUME NEW c \in Callers, CallerMove(c)
      PROVE  [Abstract!Next]_(Abstract!tpVars)
  <2>1. ASSUME NEW t \in Tasks, Enqueue(c, t), ~Submitted(t)
        PROVE  Abstract!Next
    BY <2>1, RefineEnqueue DEF Abstract!Next
  <2>2. QED
    BY <1>1, <2>1, CallerCases, RefineCallerQuiet
<1>2. ASSUME NEW w \in Workers, WorkerMove(w)
      PROVE  [Abstract!Next]_(Abstract!tpVars)
  <2>1. CASE WorkerQuiet(w)
    BY <2>1, RefineWorkerQuiet
  <2>2. CASE Take(w)
    BY <2>2, RefineTake DEF Abstract!Next
  <2>3. CASE TaskReturns(w)
    <3>1. held[w] \in Tasks
      BY <2>3, ReturnFacts, PoolAssumption
         DEF PoolInv, TypeOK, OnePlaceEach
    <3>2. QED
      BY <2>3, <3>1, RefineTaskReturns DEF Abstract!Next
  <2>4. CASE Decrement(w)
    BY <2>4, RefineDecrement
  <2>5. QED
    BY <1>2, <2>1, <2>2, <2>3, <2>4, WorkerCases
<1>3. CASE UNCHANGED vars
  BY <1>3 DEF vars, Abstract!tpVars, RunningTasks, Running, PhaseNow, Exited,
     Clients, ClientOf
<1>4. QED
  BY <1>1, <1>2, <1>3, NextMoves

\* ThreadPool implements TaskPool: for its callers, a pool with threads, a
\* mutex, condition variables and a counter is the queue of TaskPool.
THEOREM PoolImplementsTaskPool == Spec => ImplementsTaskPool
<1>1. QED
  BY RefinementInit, RefinementStep, PoolInvariant, PTL
     DEF Spec, ImplementsTaskPool, Abstract!Spec
=============================================================================
