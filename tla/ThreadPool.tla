----------------------------- MODULE ThreadPool -----------------------------
(***************************************************************************)
(* core/ThreadPool.h: a queue of tasks, a counter of the tasks not yet     *)
(* finished, a stop flag, one std::jthread (with its std::stop_token) per  *)
(* worker, and two condition variables, m_cv for the workers and m_idleCv  *)
(* for the callers of waitIdle().                                          *)
(*                                                                         *)
(* A block of code that runs under m_mutex is one action; what runs        *)
(* between two such blocks (a notify, request_stop, join, the task itself) *)
(* is an action of its own.  A thread blocked on a condition variable is   *)
(* in an "asleep" control state, which only a notify or a spurious wakeup  *)
(* leaves; the predicate of the wait is evaluated again under the mutex.   *)
(***************************************************************************)
EXTENDS Naturals, Sequences, FiniteSets

CONSTANTS
    Workers,    \* m_workers
    Callers,    \* the threads that call enqueue, waitIdle and stop
    Tasks,      \* the closures handed to enqueue, each of them once
    NoTask      \* the empty move_only_function of a worker without a task

\* The constructor starts at least one worker and at most finitely many.
ASSUME PoolAssumption ==
    /\ IsFiniteSet(Workers)
    /\ Workers # {}
    /\ NoTask \notin Tasks

VARIABLES
    tasks,        \* m_tasks
    activeTasks,  \* m_activeTasks
    stopping,     \* m_stopping
    stopReq,      \* the workers whose stop_token has been requested to stop
    wpc,          \* where each worker is in workerLoop
    held,         \* the local variable task of each worker
    cpc,          \* where each caller is in enqueue, waitIdle or stop
    accepted,     \* history: the tasks enqueue returned true for, in order
    refused,      \* history: the tasks enqueue returned false for
    finished      \* history: the tasks whose call returned

workerVars == <<stopReq, wpc, held>>
history == <<accepted, refused, finished>>
vars == <<tasks, activeTasks, stopping, workerVars, cpc, history>>

-----------------------------------------------------------------------------
\* workerLoop: the test of the while, the block under m_mutex, the wait on
\* m_cv, the call of the task, the block that decrements, the notification.
WorkerStates == {"loop", "lock", "asleep", "run", "ended", "notify", "exited"}

\* enqueue: after the push.  waitIdle: before its predicate, on m_idleCv.
\* stop: before its lock, before each notify_all, request_stop, join.
CallerStates == {"free", "enqueued", "waiting", "idleAsleep", "stopLock",
                 "stopCv", "stopIdleCv", "stopTokens", "join"}

Asleep == {w \in Workers : wpc[w] = "asleep"}
Running == {w \in Workers : wpc[w] = "run"}
Counted == {w \in Workers : wpc[w] \in {"run", "ended"}}
Exited == {w \in Workers : wpc[w] = "exited"}
RangeOf(s) == {s[i] : i \in 1 .. Len(s)}

Init ==
    /\ tasks = <<>>
    /\ activeTasks = 0
    /\ stopping = FALSE
    /\ stopReq = {}
    /\ wpc = [w \in Workers |-> "loop"]
    /\ held = [w \in Workers |-> NoTask]
    /\ cpc = [c \in Callers |-> "free"]
    /\ accepted = <<>>
    /\ refused = {}
    /\ finished = {}

-----------------------------------------------------------------------------
(* The callers.                                                            *)

Goto(c, from, to) ==
    /\ cpc[c] = from
    /\ cpc' = [cpc EXCEPT ![c] = to]

\* Mutant of Enqueue: the counter is left to the worker.
EnqueueUncounted(c, t) ==
    /\ ~stopping
    /\ Goto(c, "free", "enqueued")
    /\ tasks' = Append(tasks, t)
    /\ accepted' = Append(accepted, t)
    /\ UNCHANGED <<activeTasks, stopping, workerVars, refused, finished>>

Enqueue(c, t) ==
    /\ ~stopping
    /\ Goto(c, "free", "enqueued")
    /\ tasks' = Append(tasks, t)
    /\ activeTasks' = activeTasks + 1
    /\ accepted' = Append(accepted, t)
    /\ UNCHANGED <<stopping, workerVars, refused, finished>>

EnqueueRefused(c, t) ==
    /\ stopping
    /\ cpc[c] = "free"
    /\ refused' = refused \cup {t}
    /\ UNCHANGED <<tasks, activeTasks, stopping, workerVars, cpc, accepted,
                   finished>>

\* m_cv.notify_one(): one of the sleeping workers, if there is any.
NotifyOne(c) ==
    /\ Goto(c, "enqueued", "free")
    /\ \/ /\ Asleep = {}
          /\ UNCHANGED wpc
       \/ \E w \in Asleep : wpc' = [wpc EXCEPT ![w] = "lock"]
    /\ UNCHANGED <<tasks, activeTasks, stopping, stopReq, held, history>>

CallWaitIdle(c) ==
    /\ Goto(c, "free", "waiting")
    /\ UNCHANGED <<tasks, activeTasks, stopping, workerVars, history>>

\* Mutant of Idle: the running tasks are forgotten.
QueueEmpty == tasks = <<>>

Idle == activeTasks = 0 /\ tasks = <<>>

WaitIdleReturns(c) ==
    /\ Idle
    /\ Goto(c, "waiting", "free")
    /\ UNCHANGED <<tasks, activeTasks, stopping, workerVars, history>>

WaitIdleSleeps(c) ==
    /\ ~Idle
    /\ Goto(c, "waiting", "idleAsleep")
    /\ UNCHANGED <<tasks, activeTasks, stopping, workerVars, history>>

SpuriousIdleWakeup(c) ==
    /\ Goto(c, "idleAsleep", "waiting")
    /\ UNCHANGED <<tasks, activeTasks, stopping, workerVars, history>>

CallStop(c) ==
    /\ Goto(c, "free", "stopLock")
    /\ UNCHANGED <<tasks, activeTasks, stopping, workerVars, history>>

\* if (m_stopping) return;
StopAgain(c) ==
    /\ stopping
    /\ Goto(c, "stopLock", "free")
    /\ UNCHANGED <<tasks, activeTasks, stopping, workerVars, history>>

\* Mutant of StopFirst: m_stopping is set without being tested.
StopUntested(c) ==
    /\ Goto(c, "stopLock", "stopCv")
    /\ stopping' = TRUE
    /\ UNCHANGED <<tasks, activeTasks, workerVars, history>>

StopFirst(c) ==
    /\ ~stopping
    /\ Goto(c, "stopLock", "stopCv")
    /\ stopping' = TRUE
    /\ UNCHANGED <<tasks, activeTasks, workerVars, history>>

\* Mutant of StopWakesWorkers: notify_one instead of notify_all.
StopWakesOne(c) ==
    /\ Goto(c, "stopCv", "stopIdleCv")
    /\ \/ Asleep = {} /\ UNCHANGED wpc
       \/ \E w \in Asleep : wpc' = [wpc EXCEPT ![w] = "lock"]
    /\ UNCHANGED <<tasks, activeTasks, stopping, stopReq, held, history>>

\* m_cv.notify_all()
StopWakesWorkers(c) ==
    /\ Goto(c, "stopCv", "stopIdleCv")
    /\ wpc' = [w \in Workers |-> IF w \in Asleep THEN "lock" ELSE wpc[w]]
    /\ UNCHANGED <<tasks, activeTasks, stopping, stopReq, held, history>>

WakeIdleWaiters(pc) ==
    [d \in Callers |-> IF pc[d] = "idleAsleep" THEN "waiting" ELSE pc[d]]

\* m_idleCv.notify_all()
StopWakesWaiters(c) ==
    /\ cpc[c] = "stopIdleCv"
    /\ cpc' = WakeIdleWaiters([cpc EXCEPT ![c] = "stopTokens"])
    /\ UNCHANGED <<tasks, activeTasks, stopping, workerVars, history>>

\* One turn of the loop over m_workers: workers are alike, so their order in
\* the vector is any order.
RequestStop(c, w) ==
    /\ cpc[c] = "stopTokens"
    /\ w \notin stopReq
    /\ stopReq' = stopReq \cup {w}
    /\ cpc' = [cpc EXCEPT ![c] = IF stopReq' = Workers THEN "join" ELSE @]
    /\ UNCHANGED <<tasks, activeTasks, stopping, wpc, held, history>>

Join(c) ==
    /\ Exited = Workers
    /\ Goto(c, "join", "free")
    /\ UNCHANGED <<tasks, activeTasks, stopping, workerVars, history>>

-----------------------------------------------------------------------------
(* The workers: workerLoop.                                                *)

WGoto(w, from, to) ==
    /\ wpc[w] = from
    /\ wpc' = [wpc EXCEPT ![w] = to]

\* while (!st.stop_requested()), tested without the mutex
LoopTest(w) ==
    /\ WGoto(w, "loop", IF w \in stopReq THEN "exited" ELSE "lock")
    /\ UNCHANGED <<tasks, activeTasks, stopping, stopReq, held, cpc, history>>

MustStop(w) == stopping \/ w \in stopReq

\* The predicate of m_cv.wait is false: the mutex is released atomically.
Sleep(w) ==
    /\ ~MustStop(w)
    /\ tasks = <<>>
    /\ WGoto(w, "lock", "asleep")
    /\ UNCHANGED <<tasks, activeTasks, stopping, stopReq, held, cpc, history>>

SpuriousWakeup(w) ==
    /\ WGoto(w, "asleep", "lock")
    /\ UNCHANGED <<tasks, activeTasks, stopping, stopReq, held, cpc, history>>

ExitEmpty(w) ==
    /\ MustStop(w)
    /\ tasks = <<>>
    /\ WGoto(w, "lock", "exited")
    /\ UNCHANGED <<tasks, activeTasks, stopping, stopReq, held, cpc, history>>

\* Mutants of Take: the newest task is taken; the task is not popped.
TakeNewest(w) ==
    /\ tasks # <<>>
    /\ WGoto(w, "lock", "run")
    /\ held' = [held EXCEPT ![w] = tasks[Len(tasks)]]
    /\ tasks' = SubSeq(tasks, 1, Len(tasks) - 1)
    /\ UNCHANGED <<activeTasks, stopping, stopReq, cpc, history>>

\* A queued task is taken also when the pool is stopping.
Take(w) ==
    /\ tasks # <<>>
    /\ WGoto(w, "lock", "run")
    /\ held' = [held EXCEPT ![w] = Head(tasks)]
    /\ tasks' = Tail(tasks)
    /\ UNCHANGED <<activeTasks, stopping, stopReq, cpc, history>>

\* task() returns or throws; both end in the block that decrements.
TaskReturns(w) ==
    /\ WGoto(w, "run", "ended")
    /\ finished' = finished \cup {held[w]}
    /\ held' = [held EXCEPT ![w] = NoTask]
    /\ UNCHANGED <<tasks, activeTasks, stopping, stopReq, cpc, accepted,
                   refused>>

Decrement(w) ==
    /\ WGoto(w, "ended", "notify")
    /\ activeTasks' = activeTasks - 1
    /\ UNCHANGED <<tasks, stopping, stopReq, held, cpc, history>>

\* Mutant of NotifyIdle: nobody is notified.
NotifyNobody(w) ==
    /\ WGoto(w, "notify", "loop")
    /\ UNCHANGED <<tasks, activeTasks, stopping, stopReq, held, cpc, history>>

NotifyIdle(w) ==
    /\ WGoto(w, "notify", "loop")
    /\ cpc' = WakeIdleWaiters(cpc)
    /\ UNCHANGED <<tasks, activeTasks, stopping, stopReq, held, history>>

-----------------------------------------------------------------------------
\* What a caller does inside a call, and what a worker does between tasks.
CallerStep(c) ==
    \/ NotifyOne(c)
    \/ WaitIdleReturns(c) \/ WaitIdleSleeps(c)
    \/ StopAgain(c) \/ StopFirst(c)
    \/ StopWakesWorkers(c) \/ StopWakesWaiters(c)
    \/ \E w \in Workers : RequestStop(c, w)
    \/ Join(c)

WorkerStep(w) ==
    \/ LoopTest(w)
    \/ Sleep(w) \/ ExitEmpty(w) \/ Take(w)
    \/ Decrement(w) \/ NotifyIdle(w)

Submitted(t) == t \in RangeOf(accepted) \/ t \in refused

Call(c) ==
    \/ \E t \in Tasks :
          ~Submitted(t) /\ (Enqueue(c, t) \/ EnqueueRefused(c, t))
    \/ CallWaitIdle(c)
    \/ CallStop(c)

Next ==
    \/ \E c \in Callers : Call(c) \/ CallerStep(c) \/ SpuriousIdleWakeup(c)
    \/ \E w \in Workers : WorkerStep(w) \/ TaskReturns(w) \/ SpuriousWakeup(w)

Spec == Init /\ [][Next]_vars

\* Every thread inside the pool's code goes on running and every task
\* returns.  A call is never bound to be made, a spurious wakeup never bound
\* to happen.
Fairness ==
    /\ \A c \in Callers : WF_vars(CallerStep(c))
    /\ \A w \in Workers : WF_vars(WorkerStep(w)) /\ WF_vars(TaskReturns(w))

FairSpec == Spec /\ Fairness

-----------------------------------------------------------------------------
(* Properties.                                                             *)

TypeOK ==
    /\ tasks \in Seq(Tasks)
    /\ activeTasks \in Nat
    /\ stopping \in BOOLEAN
    /\ stopReq \in SUBSET Workers
    /\ wpc \in [Workers -> WorkerStates]
    /\ held \in [Workers -> Tasks \cup {NoTask}]
    /\ cpc \in [Callers -> CallerStates]
    /\ accepted \in Seq(Tasks)
    /\ refused \in SUBSET Tasks
    /\ finished \in SUBSET Tasks

\* m_activeTasks counts exactly the queued tasks and those a worker has
\* popped and not yet accounted for, whatever the interleaving of enqueue,
\* workerLoop and stop: waitIdle decides on it.
ActiveCount == activeTasks = Len(tasks) + Cardinality(Counted)

Started == Len(accepted) - Len(tasks)

\* No task is lost, duplicated or overtaken: the queue is what is left of the
\* accepted tasks after a prefix, in the order of acceptance, and every task
\* of that prefix is being run by a worker or has returned.
FifoNoLoss ==
    /\ Len(tasks) <= Len(accepted)
    /\ \A i \in 1 .. Len(tasks) : tasks[i] = accepted[Started + i]
    /\ \A i \in 1 .. Started :
          \/ accepted[i] \in finished
          \/ \E w \in Running : held[w] = accepted[i]

\* No two workers run the same task, and none runs one that has returned.
RunOnce ==
    /\ \A v, w \in Running : held[v] = held[w] => v = w
    /\ \A w \in Running : held[w] \notin finished

\* What makes RunOnce and FifoNoLoss inductive: a worker holds a task exactly
\* while it runs one, a queued task is queued once and neither run nor
\* finished, and whatever runs or has returned was accepted.
OnePlaceEach ==
    /\ \A w \in Workers : held[w] # NoTask <=> w \in Running
    /\ \A w \in Running : held[w] \in RangeOf(accepted)
    /\ finished \subseteq RangeOf(accepted)
    /\ \A i \in 1 .. Len(tasks) :
          /\ tasks[i] \notin finished
          /\ \A w \in Running : held[w] # tasks[i]
          /\ \A j \in 1 .. Len(tasks) : tasks[i] = tasks[j] => i = j

Stopper(c) == cpc[c] \in {"stopCv", "stopIdleCv", "stopTokens", "join"}

\* However many callers race into stop(), one of them notifies, requests and
\* joins (join is not safe to call twice at once); this, the stop requests
\* and the exit of a worker come after m_stopping is set.
OneStopper ==
    /\ \A c, d \in Callers : Stopper(c) /\ Stopper(d) => c = d
    /\ (stopReq # {} \/ Exited # {} \/ \E c \in Callers : Stopper(c)) =>
          stopping

\* A notify_one is sent after the mutex is released: between the push and the
\* notification all workers may sleep on a non-empty queue, but then the
\* enqueuer has not notified yet, or a stop() is about to wake everyone.
NoLostWakeup ==
    (tasks # <<>> /\ Asleep # {} /\ Asleep \cup Exited = Workers) =>
        \E c \in Callers : cpc[c] \in {"enqueued", "stopCv"}

\* A worker sleeps on a pool that is stopping only while the stopper has not
\* issued its notify_all: nobody sleeps through the shutdown.
NoSleepThroughStop ==
    (stopping /\ Asleep # {}) => \E c \in Callers : cpc[c] = "stopCv"

\* A caller sleeps in waitIdle on an idle pool only while the worker that
\* finished the last task has not issued its notify_all.
NoLostIdleWakeup ==
    (Idle /\ \E c \in Callers : cpc[c] = "idleAsleep") =>
        \E w \in Workers : wpc[w] = "notify"

\* Nobody sleeps on m_cv or m_idleCv whose wait is over, unless a notification
\* for it is still to come.
NoLostWakeups == NoLostWakeup /\ NoSleepThroughStop /\ NoLostIdleWakeup

\* waitIdle() returns only when every task accepted so far has returned.
WaitIdleSound ==
    [][\A c \in Callers :
          (cpc[c] = "waiting" /\ cpc'[c] = "free") =>
              RangeOf(accepted) \subseteq finished]_vars

\* waitIdle() returns, unless stop() intervenes.
WaitIdleEnds ==
    \A c \in Callers :
        cpc[c] \in {"waiting", "idleAsleep"} ~> (cpc[c] = "free" \/ stopping)

\* Every call of stop() returns: no worker outlives it asleep or looping.
StopEnds ==
    \A c \in Callers :
        (cpc[c] = "stopLock" \/ Stopper(c)) ~> cpc[c] = "free"
=============================================================================
