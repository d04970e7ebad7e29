------------------------------ MODULE TaskPool ------------------------------
(***************************************************************************)
(* What core/ThreadPool.h promises its callers, without threads, mutexes,  *)
(* condition variables or a counter:                                       *)
(*                                                                         *)
(*   enqueue   "Returns true if successfully enqueued, false if the pool   *)
(*             is stopping" (ThreadPool.h:42-43);                          *)
(*   waitIdle  "Wait until all queued and active tasks have finished       *)
(*             execution" (ThreadPool.h:57);                               *)
(*   stop      "Stop accepting new tasks, signal workers, and join all     *)
(*             threads" (ThreadPool.h:65).                                 *)
(*                                                                         *)
(* ThreadPool is shown to implement it (ThreadPoolRefinement).             *)
(***************************************************************************)
EXTENDS Naturals, Sequences

CONSTANTS
    Callers,    \* the threads that use the pool
    Tasks       \* what they submit

VARIABLES
    pending,    \* tasks accepted and not started, in the order of acceptance
    running,    \* tasks being run
    done,       \* tasks that have returned
    phase,      \* "open", "closing" once stop() was called, "closed" once
                \* nothing can start any more
    client      \* what each caller is doing

tpVars == <<pending, running, done, phase, client>>

Init ==
    /\ pending = <<>>
    /\ running = {}
    /\ done = {}
    /\ phase = "open"
    /\ client = [c \in Callers |-> "free"]

Move(c, from, to) ==
    /\ client[c] = from
    /\ client' = [client EXCEPT ![c] = to]

\* A task is submitted once.
Fresh(t) ==
    /\ t \notin running \cup done
    /\ \A i \in 1 .. Len(pending) : pending[i] # t

Submit(c, t) ==
    /\ phase = "open"
    /\ client[c] = "free"
    /\ Fresh(t)
    /\ pending' = Append(pending, t)
    /\ UNCHANGED <<running, done, phase, client>>

\* The oldest pending task starts; also while the pool is closing, never
\* once it is closed.
Start ==
    /\ phase # "closed"
    /\ pending # <<>>
    /\ Head(pending) \notin running \cup done
    /\ running' = running \cup {Head(pending)}
    /\ pending' = Tail(pending)
    /\ UNCHANGED <<done, phase, client>>

Finish(t) ==
    /\ t \in running
    /\ running' = running \ {t}
    /\ done' = done \cup {t}
    /\ UNCHANGED <<pending, phase, client>>

Wait(c) ==
    /\ Move(c, "free", "waiting")
    /\ UNCHANGED <<pending, running, done, phase>>

WaitDone(c) ==
    /\ pending = <<>>
    /\ running = {}
    /\ Move(c, "waiting", "free")
    /\ UNCHANGED <<pending, running, done, phase>>

\* Only the first call closes the pool.
Close(c) ==
    /\ phase = "open"
    /\ phase' = "closing"
    /\ Move(c, "free", "closing")
    /\ UNCHANGED <<pending, running, done>>

\* From here on a task still pending is never run: it is dropped.
Seal ==
    /\ phase = "closing"
    /\ running = {}
    /\ phase' = "closed"
    /\ UNCHANGED <<pending, running, done, client>>

CloseDone(c) ==
    /\ phase = "closed"
    /\ Move(c, "closing", "free")
    /\ UNCHANGED <<pending, running, done, phase>>

Next ==
    \/ \E c \in Callers :
          \/ \E t \in Tasks : Submit(c, t)
          \/ Wait(c) \/ WaitDone(c) \/ Close(c) \/ CloseDone(c)
    \/ Start
    \/ \E t \in Tasks : Finish(t)
    \/ Seal

Spec == Init /\ [][Next]_tpVars
=============================================================================
