------------------------------ MODULE Scheduler -----------------------------
(***************************************************************************)
(* The scheduler of services/Scheduler.cpp: a list of tasks under m_mutex   *)
(* and a thread that waits for 30 seconds, reads the clock and calls back    *)
(* for each task whose cron expression matches, with the mutex held.        *)
(*                                                                         *)
(* The clock counts ticks; a minute is Minute ticks, the wait Wait ticks, a   *)
(* round with its callbacks ends within MaxDelay of the end of the wait, and  *)
(* the next wait begins within MaxDelay of that.                              *)
(***************************************************************************)
EXTENDS Cron, SequencesExt

CONSTANTS Defs,       \* task definitions: records with a name and an expr
          Minute, Wait, MaxDelay,
          MaxClock,   \* bound on the clock
          Fields      \* the fields of cron expressions that CronAsDenoted is about

\* The code waits for half a minute.
ASSUME SchedulerAssumption ==
    /\ {Minute, Wait} \subseteq Nat \ {0} /\ MaxDelay \in Nat /\ MaxClock \in Nat
    /\ Wait + 3 * MaxDelay <= Minute /\ Minute <= 2 * Wait
    /\ Fields \subseteq CronFields

VARIABLES tasks,   \* m_tasks
          clock,
          spc,     \* where the thread is
          since,   \* when it began to wait or ended a round
          now,     \* the minute it has read
          next,    \* the task of the round it is at
          stop,    \* the stop token of m_thread
          dpc,     \* where the destructor is
          round,   \* history: what the round has fired
          fired,   \* history: how often each task was fired in this minute
          steady   \* history: the tasks there since the minute began

threadVars == <<spc, since, now, next, round, fired>>
vars == <<tasks, clock, threadVars, stop, dpc, steady>>

MinuteOf(t) == t \div Minute
\* The first minutes of a Thursday, 1 January.
Tm(m) == <<m % 60, (m \div 60) % 24, 1, 1, 4>>
Matches(d, m) == CronMatches(d.expr, Tm(m))
Present == {tasks[n] : n \in DOMAIN tasks}

Init ==
    /\ tasks = <<>>
    /\ clock \in 0 .. Minute - 1 /\ since = clock
    /\ spc = "test" /\ now = 0 /\ next = 1
    /\ stop = FALSE /\ dpc = "alive"
    /\ round = <<>> /\ fired = [d \in Defs |-> 0]
    /\ steady = {}

(***************************************************************************)
(* The users.                                                              *)
(***************************************************************************)
\* Mutant of Locked: the callbacks are called without the mutex.
NeverLocked == FALSE

\* m_mutex is held through a round.
Locked == spc = "fire"

Idle == dpc = "alive" /\ ~Locked

AddTask(d) ==
    /\ Idle
    /\ tasks' = IF \E n \in DOMAIN tasks : tasks[n].name = d.name
                THEN [n \in DOMAIN tasks |-> IF tasks[n].name = d.name THEN d ELSE tasks[n]]
                ELSE Append(tasks, d)
    /\ steady' = {e \in steady : e.name # d.name \/ e = d}
    /\ UNCHANGED <<clock, threadVars, stop, dpc>>

\* The list has a name at most once.
RemoveTask(name) ==
    /\ Idle
    /\ \/ \E n \in DOMAIN tasks : tasks[n].name = name /\ tasks' = RemoveAt(tasks, n)
       \/ (\A n \in DOMAIN tasks : tasks[n].name # name) /\ UNCHANGED tasks
    /\ steady' = {e \in steady : e.name # name}
    /\ UNCHANGED <<clock, threadVars, stop, dpc>>

\* The destructor: request_stop, then the join of the jthread.
Destroy ==
    /\ dpc = "alive" /\ dpc' = "joining" /\ stop' = TRUE
    /\ UNCHANGED <<tasks, clock, threadVars, steady>>

Join ==
    /\ dpc = "joining" /\ spc = "exited" /\ dpc' = "gone"
    /\ UNCHANGED <<tasks, clock, threadVars, stop, steady>>

(***************************************************************************)
(* workerLoop.                                                             *)
(***************************************************************************)
Test ==
    /\ spc = "test"
    /\ spc' = IF stop THEN "exited" ELSE "wait"
    /\ since' = IF stop THEN since ELSE clock
    /\ UNCHANGED <<tasks, clock, now, next, round, fired, stop, dpc, steady>>

\* Mutant of Wakes: the wait does not know the stop token.
WakesInTime == clock >= since + Wait

Wakes == stop \/ clock >= since + Wait

Wake ==
    /\ spc = "wait" /\ Wakes
    /\ spc' = IF stop THEN "exited" ELSE "read"
    /\ UNCHANGED <<tasks, clock, since, now, next, round, fired, stop, dpc, steady>>

ReadClock ==
    /\ spc = "read" /\ spc' = "lock"
    /\ now' = MinuteOf(clock)
    /\ UNCHANGED <<tasks, clock, since, next, round, fired, stop, dpc, steady>>

Lock ==
    /\ spc = "lock" /\ spc' = "fire"
    /\ UNCHANGED <<tasks, clock, since, now, next, round, fired, stop, dpc, steady>>

Counted(d) == IF now = MinuteOf(clock) THEN [fired EXCEPT ![d] = @ + 1] ELSE fired

\* Mutant of Fire: a callback that throws ends the round.
FireMayThrow ==
    /\ spc = "fire" /\ next <= Len(tasks)
    /\ IF Matches(tasks[next], now)
       THEN /\ round' = Append(round, tasks[next])
            /\ fired' = Counted(tasks[next])
            /\ next' \in {next + 1, Len(tasks) + 1}
       ELSE next' = next + 1 /\ UNCHANGED <<round, fired>>
    /\ UNCHANGED <<tasks, clock, spc, since, now, stop, dpc, steady>>

\* A callback that throws is done, too.
Fire ==
    /\ spc = "fire" /\ next <= Len(tasks)
    /\ next' = next + 1
    /\ IF Matches(tasks[next], now)
       THEN /\ round' = Append(round, tasks[next])
            /\ fired' = Counted(tasks[next])
       ELSE UNCHANGED <<round, fired>>
    /\ UNCHANGED <<tasks, clock, spc, since, now, stop, dpc, steady>>

RoundEnds ==
    /\ spc = "fire" /\ next > Len(tasks)
    /\ spc' = "test" /\ since' = clock
    /\ next' = 1 /\ round' = <<>>
    /\ UNCHANGED <<tasks, clock, now, fired, stop, dpc, steady>>

ThreadStep == Test \/ Wake \/ ReadClock \/ Lock \/ Fire \/ RoundEnds

Tick ==
    /\ clock < MaxClock
    /\ clock < since + MaxDelay + (IF spc = "test" THEN 0 ELSE Wait)
    /\ clock' = clock + 1
    /\ IF MinuteOf(clock') # MinuteOf(clock)
       THEN steady' = Present /\ fired' = [d \in Defs |-> 0]
       ELSE UNCHANGED <<steady, fired>>
    /\ UNCHANGED <<tasks, spc, since, now, next, round, stop, dpc>>

Next ==
    \/ \E d \in Defs : AddTask(d) \/ RemoveTask(d.name)
    \/ Destroy \/ Join
    \/ ThreadStep \/ Tick

Spec == Init /\ [][Next]_vars
FairSpec == Spec /\ WF_vars(ThreadStep) /\ WF_vars(Join)

(***************************************************************************)
(* Properties.                                                             *)
(***************************************************************************)
\* The tasks that the round was to fire by now.
Due == {n \in 1 .. next - 1 : Matches(tasks[n], now)}

\* A round calls back once, in order, for each task of the list that matches,
\* and for none that was removed or replaced before: the list cannot change in
\* a round (Scheduler.cpp:72-82).
RoundFiresAll ==
    spc = "fire" =>
        /\ next <= Len(tasks) + 1
        /\ \A n \in Due : \E k \in DOMAIN round : round[k] = tasks[n]
        /\ \A k \in DOMAIN round : \E n \in Due : round[k] = tasks[n]
        /\ \A j, k \in DOMAIN round : j < k =>
              \E m, n \in Due : m < n /\ round[j] = tasks[m] /\ round[k] = tasks[n]

\* A task that is there for a whole minute which it matches is fired in it (or
\* is about to be, in a round that has read the clock in it), and never more
\* than twice, whenever the thread was started in its minute.
MinuteCovered ==
    [][MinuteOf(clock') # MinuteOf(clock) /\ dpc = "alive" =>
          \A d \in steady :
             Matches(d, MinuteOf(clock)) =>
                \/ fired[d] \in {1, 2}
                \/ spc \in {"lock", "fire"} /\ now = MinuteOf(clock)]_vars

\* cronFieldMatches finds a value exactly if the field denotes it, for fields
\* that count from 0 and from 1, except that a list with a range in it never
\* matches (Scheduler.cpp:107-137).  The values are those of the clock.
CronAsDenoted ==
    \A field \in Fields, min \in {0, 1} :
        clock >= min =>
            (FieldMatches(field, clock, min) <=>
                Denotes(field, clock, min) /\ ~Mixed(field))

\* The destructor returns: the stop request ends the wait, and the round that
\* is under way is the last.
DestructorEnds == dpc = "joining" ~> dpc = "gone"
=============================================================================
