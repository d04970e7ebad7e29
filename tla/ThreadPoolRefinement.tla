------------------------ MODULE ThreadPoolRefinement ------------------------
(***************************************************************************)
(* ThreadPool implements TaskPool.  A push under the mutex is the          *)
(* submission, a pop the start; a notification, a wakeup, the decrement of *)
(* the counter and the steps of a second stop() are stuttering.  The pool  *)
(* is closed when the last worker has left workerLoop.                     *)
(***************************************************************************)
EXTENDS ThreadPool

ClientOf(c) ==
    CASE cpc[c] \in {"free", "enqueued", "stopLock"} -> "free"
      [] cpc[c] \in {"waiting", "idleAsleep"} -> "waiting"
      [] OTHER -> "closing"

PhaseNow ==
    IF ~stopping THEN "open"
    ELSE IF Exited # Workers THEN "closing" ELSE "closed"

RunningTasks == {held[w] : w \in Running}
Clients == [c \in Callers |-> ClientOf(c)]

Abstract ==
    INSTANCE TaskPool WITH
        pending <- tasks,
        running <- RunningTasks,
        done <- finished,
        phase <- PhaseNow,
        client <- Clients

\* Every behaviour of the pool is, to its callers, one of the abstract pool:
\* waitIdle and stop return only when that one lets them, tasks start in order
\* and once, and none starts after the last worker has exited.
ImplementsTaskPool == Abstract!Spec
=============================================================================
