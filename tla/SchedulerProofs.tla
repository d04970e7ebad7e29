--------------------------- MODULE SchedulerProofs ---------------------------
(***************************************************************************)
(* Theorems about Scheduler, for any tasks and any length of the minute, of *)
(* the wait and of the delays that SchedulerAssumption allows.             *)
(*                                                                         *)
(* CoverInv says by when the thread reads the clock next: from the end of a *)
(* read to the next there are at most Wait + 3 * MaxDelay ticks, so a minute *)
(* that begins without a read has one.  CountInv says that two reads are at *)
(* least Wait apart, so a third is no longer in the minute of the first.    *)
(***************************************************************************)
EXTENDS Scheduler, SequenceTheorems, TLAPS

\* Where the thread can be.
Places == {"test", "wait", "read", "lock", "fire", "exited"}

\* The types.
SchedulerTypes ==
    /\ tasks \in Seq(Defs)
    /\ clock \in Nat /\ since \in Nat /\ now \in Nat
    /\ spc \in Places
    /\ next \in Nat \ {0}
    /\ round \in Seq(Defs)
    /\ fired \in [Defs -> Nat]
    /\ stop \in BOOLEAN
    /\ dpc \in {"alive", "joining", "gone"}

\* A name is there once, what was there all the minute is there, and outside of
\* a round there is none.
ListInv ==
    /\ \A m, n \in DOMAIN tasks : tasks[m].name = tasks[n].name => m = n
    /\ steady \subseteq Present
    /\ spc # "fire" => next = 1 /\ round = <<>>

\* The tick at which the minute of the clock began.
Begin == MinuteOf(clock) * Minute

\* Where the clock is in the wait and in the round.
TimeInv ==
    /\ since <= clock
    /\ clock <= since + MaxDelay + (IF spc = "test" THEN 0 ELSE Wait)
    /\ spc \in {"read", "lock", "fire"} => since + Wait <= clock
    /\ spc \in {"lock", "fire"} =>
          now = MinuteOf(clock) \/ (now < MinuteOf(clock) /\ since + Wait < Begin)
    /\ stop <=> dpc # "alive"
    /\ spc = "exited" => stop

\* The thread reads the clock before the minute is over.
InTime ==
    \/ spc = "test" /\ since + Wait + 2 * MaxDelay < Begin + Minute
    \/ spc \in {"wait", "read"} /\ since + Wait + MaxDelay < Begin + Minute
    \/ spc \in {"lock", "fire"} /\ now < MinuteOf(clock)

\* The round that has read the clock in this minute will fire d.
Pending(d) ==
    /\ spc \in {"lock", "fire"} /\ now = MinuteOf(clock)
    /\ \E n \in DOMAIN tasks : n >= next /\ tasks[n] = d

\* A task that was there all the minute and matches it was fired, or will be.
CoverInv ==
    dpc = "alive" =>
        \A d \in steady : Matches(d, MinuteOf(clock)) =>
            fired[d] >= 1 \/ Pending(d) \/ InTime

\* When d was fired once in this minute, the wait began in it; when it was fired
\* twice, the wait began after another one in it.
CountInv ==
    \A d \in Defs :
        /\ fired[d] <= 2
        /\ spc \in {"test", "wait", "read"} =>
              /\ fired[d] >= 1 => since >= Begin
              /\ fired[d] = 2 => since >= Begin + Wait
        /\ spc \in {"lock", "fire"} =>
              /\ now < MinuteOf(clock) => fired[d] = 0
              /\ fired[d] = 2 => since >= Begin
              /\ (spc = "lock" \/ \E n \in DOMAIN tasks : n >= next /\ tasks[n] = d) =>
                    fired[d] = 0 \/ (fired[d] = 1 /\ since >= Begin)

\* The inductive invariant.
SchedulerInv ==
    /\ SchedulerTypes /\ ListInv /\ RoundFiresAll
    /\ TimeInv /\ CoverInv /\ CountInv

-----------------------------------------------------------------------------
(* The clock.                                                              *)

\* The lengths, and what is assumed of them.
LEMMA Periods ==
    /\ Minute \in Nat \ {0} /\ Wait \in Nat \ {0} /\ MaxDelay \in Nat
    /\ Wait + 3 * MaxDelay <= Minute /\ Minute <= 2 * Wait
  BY SchedulerAssumption

\* A product grows with its first factor.
LEMMA ProductGrows ==
    ASSUME NEW a \in Nat, NEW b \in Nat, NEW m \in Nat, a < b
    PROVE  a * m + m <= b * m
<1>1. PICK k \in Nat : b = a + 1 + k
  <2>1. b - a - 1 \in Nat /\ b = a + 1 + (b - a - 1)
    OBVIOUS
  <2>2. QED
    BY <2>1
<1>2. b * m = a * m + m + k * m
  BY <1>1
<1>3. k * m \in Nat /\ a * m \in Nat
  OBVIOUS
<1>4. QED
  BY <1>2, <1>3

\* A tick is in its minute.
LEMMA MinuteFacts ==
    ASSUME NEW t \in Nat
    PROVE  /\ MinuteOf(t) \in Nat /\ MinuteOf(t) * Minute \in Nat
           /\ MinuteOf(t) * Minute <= t /\ t < MinuteOf(t) * Minute + Minute
<1>1. t \div Minute \in Nat
  BY Periods
<1>2. (t \div Minute) * Minute <= t
  BY Periods
<1>3. t < (t \div Minute) * Minute + Minute
  BY Periods
<1>4. MinuteOf(t) * Minute \in Nat
  BY <1>1, Periods DEF MinuteOf
<1>5. QED
  BY <1>1, <1>2, <1>3, <1>4 DEF MinuteOf

\* The next tick is in the same minute, or the first of the next.
LEMMA TickFacts ==
    ASSUME NEW t \in Nat
    PROVE  \/ MinuteOf(t + 1) = MinuteOf(t)
           \/ /\ MinuteOf(t + 1) > MinuteOf(t)
              /\ MinuteOf(t + 1) * Minute = t + 1
              /\ t + 1 = MinuteOf(t) * Minute + Minute
<1> DEFINE a == MinuteOf(t)
<1> DEFINE b == MinuteOf(t + 1)
<1>1. /\ a \in Nat /\ a * Minute \in Nat /\ a * Minute <= t
      /\ t < a * Minute + Minute
      /\ b \in Nat /\ b * Minute \in Nat /\ b * Minute <= t + 1
      /\ t + 1 < b * Minute + Minute
  BY MinuteFacts
<1> HIDE DEF a, b
<1>2. ~(b < a)
  <2>1. b < a => b * Minute + Minute <= a * Minute
    BY <1>1, Periods, ProductGrows
  <2>2. QED
    BY <1>1, <2>1, Periods
<1>3. CASE a < b
  <2>1. a * Minute + Minute <= b * Minute
    BY <1>1, <1>3, Periods, ProductGrows
  <2>2. b * Minute = t + 1 /\ t + 1 = a * Minute + Minute
    BY <1>1, <2>1, Periods
  <2>3. QED
    BY <1>3, <2>2 DEF a, b
<1>4. CASE a = b
  BY <1>4 DEF a, b
<1>5. QED
  BY <1>1, <1>2, <1>3, <1>4

\* The minute of the clock, and how a step that is no tick leaves it.
LEMMA ClockFacts ==
    ASSUME clock \in Nat
    PROVE  /\ MinuteOf(clock) \in Nat /\ Begin \in Nat
           /\ Begin <= clock /\ clock < Begin + Minute
           /\ clock' = clock => MinuteOf(clock') = MinuteOf(clock) /\ Begin' = Begin
           /\ clock' = clock + 1 =>
                 \/ MinuteOf(clock') = MinuteOf(clock) /\ Begin' = Begin
                 \/ /\ MinuteOf(clock') > MinuteOf(clock)
                    /\ Begin' = clock' /\ clock' = Begin + Minute
<1>1. /\ MinuteOf(clock) \in Nat /\ Begin \in Nat
      /\ Begin <= clock /\ clock < Begin + Minute
  BY MinuteFacts DEF Begin
<1>2. Begin' = MinuteOf(clock') * Minute
  BY DEF Begin
<1>3. QED
  BY <1>1, <1>2, TickFacts DEF Begin

-----------------------------------------------------------------------------
(* The users of the list.                                                  *)

\* The list is empty and the thread has just begun.
LEMMA InitInv == Init => SchedulerInv
<1> SUFFICES ASSUME Init PROVE SchedulerInv
  OBVIOUS
<1>1. clock \in Nat /\ Minute \in Nat /\ MinuteOf(clock) \in Nat
  BY Periods, MinuteFacts DEF Init
<1>2. SchedulerTypes
  <2>1. tasks \in Seq(Defs) /\ round \in Seq(Defs)
    BY DEF Init
  <2>2. fired \in [Defs -> Nat]
    BY DEF Init
  <2>3. stop \in BOOLEAN /\ since \in Nat
    BY <1>1 DEF Init
  <2>4. QED
    BY <1>1, <2>1, <2>2, <2>3 DEF Init, SchedulerTypes, Places
<1>3. ListInv /\ RoundFiresAll
  BY DEF Init, ListInv, RoundFiresAll
<1>4. TimeInv
  BY <1>1, Periods DEF Init, TimeInv
<1>5. CoverInv
  BY DEF Init, CoverInv
<1>6. CountInv
  BY DEF Init, CountInv
<1>7. QED
  BY <1>2, <1>3, <1>4, <1>5, <1>6 DEF SchedulerInv

\* Outside of a round the list may change.
LEMMA ListChanges ==
    ASSUME SchedulerInv, spc # "fire", tasks' \in Seq(Defs),
           \A m, n \in DOMAIN tasks' : tasks'[m].name = tasks'[n].name => m = n,
           steady' \subseteq steady, steady' \subseteq Present',
           UNCHANGED <<clock, threadVars, stop, dpc>>
    PROVE  SchedulerInv'
<1>0. UNCHANGED <<clock, spc, since, now, next, round, fired, stop, dpc>>
  BY DEF threadVars
<1>1. MinuteOf(clock)' = MinuteOf(clock) /\ Begin' = Begin
  BY <1>0 DEF Begin
<1>2. SchedulerTypes'
  BY <1>0 DEF SchedulerInv, SchedulerTypes
<1>3. ListInv' /\ RoundFiresAll'
  BY <1>0 DEF SchedulerInv, ListInv, RoundFiresAll
<1>4. TimeInv'
  BY <1>0, <1>1 DEF SchedulerInv, TimeInv
<1>5. ASSUME NEW d \in steady', dpc = "alive", Matches(d, MinuteOf(clock))
      PROVE  (fired[d] >= 1)' \/ Pending(d)' \/ InTime'
  <2>1. InTime' <=> InTime
    BY <1>0, <1>1 DEF InTime
  <2>2. ASSUME Pending(d) PROVE Pending(d)'
    <3>1. next = 1
      BY DEF SchedulerInv, ListInv
    <3>2. PICK n \in DOMAIN tasks' : tasks'[n] = d
      BY DEF Present
    <3>3. n >= next
      BY <3>1, <3>2
    <3>4. QED
      BY <1>0, <1>1, <2>2, <3>2, <3>3 DEF Pending
  <2>3. fired[d] >= 1 \/ Pending(d) \/ InTime
    BY <1>5 DEF SchedulerInv, CoverInv
  <2>4. QED
    BY <1>0, <2>1, <2>2, <2>3
<1>6. CoverInv'
  <2>1. \A d : Matches(d, MinuteOf(clock))' <=> Matches(d, MinuteOf(clock))
    BY <1>1 DEF Matches, Tm
  <2>2. QED
    BY <1>0, <1>1, <1>5, <2>1 DEF CoverInv
<1>7. CountInv'
  BY <1>0, <1>1 DEF SchedulerInv, CountInv
<1>8. QED
  BY <1>2, <1>3, <1>4, <1>6, <1>7 DEF SchedulerInv

\* addTask replaces or appends: a name stays one.
LEMMA AddKeepsInv ==
    ASSUME SchedulerInv, NEW d \in Defs, AddTask(d)
    PROVE  SchedulerInv'
<1>1. /\ spc # "fire" /\ UNCHANGED <<clock, threadVars, stop, dpc>>
      /\ steady' = {e \in steady : e.name # d.name \/ e = d}
  BY DEF AddTask, Idle, Locked
<1>2. /\ tasks \in Seq(Defs) /\ steady \subseteq Present
      /\ \A m, n \in DOMAIN tasks : tasks[m].name = tasks[n].name => m = n
  BY DEF SchedulerInv, SchedulerTypes, ListInv
<1>3. /\ tasks' \in Seq(Defs)
      /\ \A m, n \in DOMAIN tasks' : tasks'[m].name = tasks'[n].name => m = n
      /\ \A e \in Present : e.name # d.name => e \in Present'
      /\ d \in Present'
  <2>1. CASE \E n \in DOMAIN tasks : tasks[n].name = d.name
    <3>1. tasks' = [n \in DOMAIN tasks |->
                       IF tasks[n].name = d.name THEN d ELSE tasks[n]]
      BY <2>1 DEF AddTask
    <3>2. DOMAIN tasks' = DOMAIN tasks /\ tasks' \in Seq(Defs)
      BY <1>2, <3>1
    <3>3. \A n \in DOMAIN tasks : tasks'[n].name = tasks[n].name
      BY <3>1
    <3>4. QED
      BY <1>2, <2>1, <3>1, <3>2, <3>3 DEF Present
  <2>2. CASE ~\E n \in DOMAIN tasks : tasks[n].name = d.name
    <3>1. tasks' = Append(tasks, d)
      BY <2>2 DEF AddTask
    <3>2. /\ tasks' \in Seq(Defs) /\ Len(tasks) \in Nat
          /\ DOMAIN tasks = 1 .. Len(tasks) /\ DOMAIN tasks' = 1 .. Len(tasks) + 1
          /\ \A n \in DOMAIN tasks : tasks'[n] = tasks[n]
          /\ tasks'[Len(tasks) + 1] = d
      BY <1>2, <3>1
    <3>3. DOMAIN tasks' = DOMAIN tasks \cup {Len(tasks) + 1}
      BY <3>2
    <3>4. QED
      BY <1>2, <2>2, <3>2, <3>3 DEF Present
  <2>3. QED
    BY <2>1, <2>2
<1>4. steady' \subseteq Present'
  BY <1>1, <1>2, <1>3
<1>5. QED
  BY <1>1, <1>3, <1>4, ListChanges

\* removeTask leaves the others in their order.
LEMMA RemoveKeepsInv ==
    ASSUME SchedulerInv, NEW name, RemoveTask(name)
    PROVE  SchedulerInv'
<1>1. /\ spc # "fire" /\ UNCHANGED <<clock, threadVars, stop, dpc>>
      /\ steady' = {e \in steady : e.name # name}
  BY DEF RemoveTask, Idle, Locked
<1>2. /\ tasks \in Seq(Defs) /\ steady \subseteq Present
      /\ \A m, n \in DOMAIN tasks : tasks[m].name = tasks[n].name => m = n
  BY DEF SchedulerInv, SchedulerTypes, ListInv
<1>3. /\ tasks' \in Seq(Defs)
      /\ \A m, n \in DOMAIN tasks' : tasks'[m].name = tasks'[n].name => m = n
      /\ \A e \in Present : e.name # name => e \in Present'
  <2>1. ASSUME NEW p \in DOMAIN tasks, tasks[p].name = name,
               tasks' = SubSeq(tasks, 1, p - 1) \o SubSeq(tasks, p + 1, Len(tasks))
        PROVE  /\ tasks' \in Seq(Defs)
               /\ \A m, n \in DOMAIN tasks' :
                     tasks'[m].name = tasks'[n].name => m = n
               /\ \A e \in Present : e.name # name => e \in Present'
    <3>1. /\ p \in 1 .. Len(tasks) /\ Len(tasks) \in Nat
          /\ DOMAIN tasks = 1 .. Len(tasks)
      BY <1>2
    <3>2. /\ tasks' \in Seq(Defs) /\ DOMAIN tasks' = 1 .. Len(tasks) - 1
          /\ \A n \in 1 .. Len(tasks) - 1 :
                tasks'[n] = tasks[IF n < p THEN n ELSE n + 1]
      <4> DEFINE a == SubSeq(tasks, 1, p - 1)
      <4> DEFINE b == SubSeq(tasks, p + 1, Len(tasks))
      <4>1. /\ a \in Seq(Defs) /\ Len(a) = p - 1
            /\ \A i \in 1 .. p - 1 : a[i] = tasks[i]
        BY <1>2, <3>1
      <4>2. /\ b \in Seq(Defs) /\ Len(b) = Len(tasks) - p
            /\ \A i \in 1 .. Len(tasks) - p : b[i] = tasks[p + i]
        BY <1>2, <3>1
      <4>3. tasks' = a \o b
        BY <2>1
      <4> HIDE DEF a, b
      <4>4. /\ tasks' \in Seq(Defs) /\ Len(tasks') = Len(a) + Len(b)
            /\ \A n \in 1 .. Len(a) + Len(b) :
                  tasks'[n] = IF n <= Len(a) THEN a[n] ELSE b[n - Len(a)]
        BY <4>1, <4>2, <4>3, ConcatProperties
      <4>5. /\ Len(tasks') = Len(tasks) - 1
            /\ \A n \in 1 .. Len(tasks) - 1 :
                  tasks'[n] = IF n < p THEN a[n] ELSE b[n - (p - 1)]
        BY <3>1, <4>1, <4>2, <4>4
      <4>6. ASSUME NEW n \in 1 .. Len(tasks) - 1, ~(n < p)
            PROVE  b[n - (p - 1)] = tasks[n + 1]
        <5>1. n - (p - 1) \in 1 .. Len(tasks) - p
          BY <3>1, <4>6
        <5>2. p + (n - (p - 1)) = n + 1
          BY <3>1
        <5>3. QED
          BY <4>2, <5>1, <5>2
      <4>7. DOMAIN tasks' = 1 .. Len(tasks) - 1
        BY <4>4, <4>5
      <4>8. ASSUME NEW n \in 1 .. Len(tasks) - 1
            PROVE  tasks'[n] = tasks[IF n < p THEN n ELSE n + 1]
        <5>1. CASE n < p
          <6>1. n \in 1 .. p - 1
            BY <3>1, <5>1
          <6>2. QED
            BY <4>1, <4>5, <5>1, <6>1
        <5>2. CASE ~(n < p)
          BY <4>5, <4>6, <5>2
        <5>3. QED
          BY <5>1, <5>2
      <4>9. QED
        BY <4>4, <4>7, <4>8
    <3>3. ASSUME NEW m \in DOMAIN tasks', NEW n \in DOMAIN tasks',
                 tasks'[m].name = tasks'[n].name
          PROVE  m = n
      <4> DEFINE i == IF m < p THEN m ELSE m + 1
      <4> DEFINE j == IF n < p THEN n ELSE n + 1
      <4>1. i \in DOMAIN tasks /\ j \in DOMAIN tasks
        BY <3>1, <3>2
      <4>2. tasks'[m] = tasks[i] /\ tasks'[n] = tasks[j]
        BY <3>2
      <4>3. i = j
        BY <1>2, <3>3, <4>1, <4>2
      <4>4. QED
        BY <3>1, <3>2, <4>3
    <3>4. ASSUME NEW e \in Present, e.name # name PROVE e \in Present'
      <4>1. PICK n \in 1 .. Len(tasks) : tasks[n] = e
        BY <3>1 DEF Present
      <4>2. n # p
        BY <2>1, <3>4, <4>1
      <4>3. CASE n < p
        BY <3>1, <3>2, <4>1, <4>3 DEF Present
      <4>4. CASE n > p
        <5>1. n - 1 \in DOMAIN tasks' /\ tasks'[n - 1] = e
          BY <3>1, <3>2, <4>1, <4>4
        <5>2. QED
          BY <5>1 DEF Present
      <4>5. QED
        BY <3>1, <4>1, <4>2, <4>3, <4>4
    <3>5. QED
      BY <3>2, <3>3, <3>4
  <2>2. CASE UNCHANGED tasks
    BY <1>2, <2>2 DEF Present
  <2>3. QED
    BY <2>1, <2>2 DEF RemoveTask, RemoveAt
<1>4. steady' \subseteq Present'
  BY <1>1, <1>2, <1>3
<1>5. QED
  BY <1>1, <1>3, <1>4, ListChanges

-----------------------------------------------------------------------------
(* The thread.                                                             *)

\* What a step that is no tick leaves alone.
LEMMA SameMinute ==
    ASSUME SchedulerInv, clock' = clock
    PROVE  /\ MinuteOf(clock)' = MinuteOf(clock) /\ Begin' = Begin
           /\ \A d : Matches(d, MinuteOf(clock))' <=> Matches(d, MinuteOf(clock))
           /\ MinuteOf(clock) \in Nat /\ Begin \in Nat
           /\ Begin <= clock /\ clock < Begin + Minute
<1>1. clock \in Nat
  BY DEF SchedulerInv, SchedulerTypes
<1>2. MinuteOf(clock)' = MinuteOf(clock) /\ Begin' = Begin
  BY DEF Begin
<1>3. \A d : Matches(d, MinuteOf(clock))' <=> Matches(d, MinuteOf(clock))
  BY <1>2 DEF Matches, Tm
<1>4. QED
  BY <1>1, <1>2, <1>3, ClockFacts

\* The destructor, after which nothing is promised of the minutes.
LEMMA StopKeepsInv ==
    ASSUME SchedulerInv, Destroy \/ Join
    PROVE  SchedulerInv'
<1>1. /\ UNCHANGED <<tasks, clock, threadVars, steady>> /\ stop' = TRUE
      /\ dpc' \in {"joining", "gone"}
  BY DEF Destroy, Join, SchedulerInv, TimeInv, SchedulerTypes
<1>2. UNCHANGED <<spc, since, now, next, round, fired>>
  BY <1>1 DEF threadVars
<1>3. SchedulerTypes'
  BY <1>1, <1>2 DEF SchedulerInv, SchedulerTypes
<1>4. ListInv' /\ RoundFiresAll'
  <2>1. Due' = Due /\ Present' = Present
    BY <1>1, <1>2 DEF Due, Matches, Present
  <2>2. RoundFiresAll'
    BY <1>1, <1>2, <2>1 DEF SchedulerInv, RoundFiresAll
  <2>3. QED
    BY <1>1, <1>2, <2>1, <2>2 DEF SchedulerInv, ListInv
<1>5. TimeInv'
  BY <1>1, <1>2, SameMinute DEF SchedulerInv, TimeInv
<1>6. CoverInv'
  BY <1>1 DEF CoverInv
<1>7. CountInv'
  BY <1>1, <1>2, SameMinute DEF SchedulerInv, CountInv
<1>8. QED
  BY <1>3, <1>4, <1>5, <1>6, <1>7 DEF SchedulerInv

\* The wait begins and ends in time.
LEMMA WaitKeepsInv ==
    ASSUME SchedulerInv, Test \/ Wake
    PROVE  SchedulerInv'
<1>1. /\ UNCHANGED <<tasks, clock, now, next, round, fired, stop, dpc, steady>>
      /\ \/ /\ stop /\ spc \in {"test", "wait"} /\ spc' = "exited" /\ since' = since
         \/ /\ ~stop /\ spc = "test" /\ spc' = "wait" /\ since' = clock
         \/ /\ ~stop /\ spc = "wait" /\ spc' = "read" /\ since' = since
            /\ since + Wait <= clock
  BY DEF Test, Wake, Wakes, SchedulerInv, SchedulerTypes
<1>2. /\ clock \in Nat /\ since \in Nat /\ since <= clock
      /\ clock <= since + MaxDelay + (IF spc = "test" THEN 0 ELSE Wait)
  BY DEF SchedulerInv, SchedulerTypes, TimeInv
<1>3. SchedulerTypes'
  BY <1>1, <1>2 DEF SchedulerInv, SchedulerTypes, Places
<1>4. ListInv' /\ RoundFiresAll'
  BY <1>1 DEF SchedulerInv, ListInv, RoundFiresAll, Present
<1>5. TimeInv'
  BY <1>1, <1>2, Periods DEF SchedulerInv, TimeInv
<1>6. CoverInv'
  <2> SUFFICES ASSUME dpc = "alive", NEW d \in steady, Matches(d, MinuteOf(clock))
               PROVE  fired[d] >= 1 \/ InTime'
    BY <1>1, SameMinute DEF CoverInv
  <2>1. fired[d] >= 1 \/ InTime
    BY <1>1 DEF SchedulerInv, CoverInv, Pending
  <2>2. ~stop
    BY DEF SchedulerInv, TimeInv
  <2>3. InTime => InTime'
    BY <1>1, <1>2, <2>2, SameMinute, Periods DEF InTime
  <2>4. QED
    BY <2>1, <2>3
<1>7. CountInv'
  <2> SUFFICES ASSUME NEW d \in Defs
               PROVE  /\ fired[d] <= 2
                      /\ spc' # "exited" => /\ fired[d] >= 1 => since' >= Begin
                                            /\ fired[d] = 2 =>
                                                  since' >= Begin + Wait
    BY <1>1, SameMinute DEF CountInv
  <2>1. /\ fired[d] <= 2
        /\ fired[d] >= 1 => since >= Begin
        /\ fired[d] = 2 => since >= Begin + Wait
    BY <1>1 DEF SchedulerInv, CountInv
  <2>2. QED
    BY <1>1, <1>2, <2>1, SameMinute, Periods
<1>8. QED
  BY <1>3, <1>4, <1>5, <1>6, <1>7 DEF SchedulerInv

\* A read fixes the minute; if d was fired twice in it, it would be over.
LEMMA ReadKeepsInv ==
    ASSUME SchedulerInv, ReadClock
    PROVE  SchedulerInv'
<1>1. /\ UNCHANGED <<tasks, clock, since, next, round, fired, stop, dpc, steady>>
      /\ spc = "read" /\ spc' = "lock" /\ now' = MinuteOf(clock)
  BY DEF ReadClock
<1>2. /\ clock \in Nat /\ since \in Nat /\ since + Wait <= clock
      /\ tasks \in Seq(Defs) /\ next = 1 /\ fired \in [Defs -> Nat]
  BY <1>1 DEF SchedulerInv, SchedulerTypes, TimeInv, ListInv
<1>3. SchedulerTypes'
  BY <1>1, SameMinute DEF SchedulerInv, SchedulerTypes, Places
<1>4. ListInv' /\ RoundFiresAll'
  BY <1>1 DEF SchedulerInv, ListInv, RoundFiresAll, Present
<1>5. TimeInv'
  BY <1>1, <1>2, SameMinute DEF SchedulerInv, TimeInv
<1>6. CoverInv'
  <2> SUFFICES ASSUME NEW d \in steady PROVE Pending(d)'
    BY <1>1 DEF CoverInv
  <2>1. PICK n \in DOMAIN tasks : tasks[n] = d
    BY DEF SchedulerInv, ListInv, Present
  <2>2. n >= 1
    BY <1>2
  <2>3. QED
    BY <1>1, <1>2, <2>1, <2>2, SameMinute DEF Pending
<1>7. CountInv'
  <2> SUFFICES ASSUME NEW d \in Defs
               PROVE  fired[d] = 0 \/ (fired[d] = 1 /\ since >= Begin)
    BY <1>1, SameMinute DEF CountInv
  <2>1. /\ fired[d] \in Nat /\ fired[d] <= 2
        /\ fired[d] >= 1 => since >= Begin
        /\ fired[d] = 2 => since >= Begin + Wait
    BY <1>1, <1>2 DEF SchedulerInv, CountInv
  <2>2. fired[d] # 2
    BY <1>1, <1>2, <2>1, SameMinute, Periods
  <2>3. QED
    BY <2>1, <2>2
<1>8. QED
  BY <1>3, <1>4, <1>5, <1>6, <1>7 DEF SchedulerInv

\* The round begins with nothing due.
LEMMA LockKeepsInv ==
    ASSUME SchedulerInv, Lock
    PROVE  SchedulerInv'
<1>1. /\ UNCHANGED <<tasks, clock, since, now, next, round, fired, stop, dpc,
                     steady>>
      /\ spc = "lock" /\ spc' = "fire"
  BY DEF Lock
<1>2. /\ tasks \in Seq(Defs) /\ next = 1 /\ round = <<>> /\ Len(tasks) \in Nat
  BY <1>1 DEF SchedulerInv, SchedulerTypes, ListInv
<1>3. SchedulerTypes'
  BY <1>1 DEF SchedulerInv, SchedulerTypes, Places
<1>4. ListInv'
  BY <1>1 DEF SchedulerInv, ListInv, Present
<1>5. RoundFiresAll'
  <2>1. Due' = {} /\ DOMAIN round = {}
    BY <1>1, <1>2 DEF Due
  <2>2. QED
    BY <1>1, <1>2, <2>1 DEF RoundFiresAll
<1>6. TimeInv'
  BY <1>1, SameMinute DEF SchedulerInv, TimeInv
<1>7. CoverInv'
  <2>1. \A d : (Pending(d) => Pending(d)') /\ (InTime => InTime')
    BY <1>1, SameMinute DEF Pending, InTime
  <2>2. QED
    BY <1>1, <2>1, SameMinute DEF SchedulerInv, CoverInv
<1>8. CountInv'
  BY <1>1, SameMinute DEF SchedulerInv, CountInv
<1>9. QED
  BY <1>3, <1>4, <1>5, <1>6, <1>7, <1>8 DEF SchedulerInv

\* One more task of the round.
LEMMA FireKeepsRound ==
    ASSUME SchedulerInv, Fire
    PROVE  RoundFiresAll'
<1>1. /\ UNCHANGED <<tasks, clock, spc, since, now, stop, dpc, steady>>
      /\ spc = "fire" /\ next <= Len(tasks) /\ next' = next + 1
  BY DEF Fire
<1>2. /\ tasks \in Seq(Defs) /\ Len(tasks) \in Nat /\ next \in Nat \ {0}
      /\ round \in Seq(Defs) /\ Len(round) \in Nat
  BY DEF SchedulerInv, SchedulerTypes
<1>3. /\ \A n \in Due : \E k \in DOMAIN round : round[k] = tasks[n]
      /\ \A k \in DOMAIN round : \E n \in Due : round[k] = tasks[n]
      /\ \A j, k \in DOMAIN round : j < k =>
            \E m, n \in Due : m < n /\ round[j] = tasks[m] /\ round[k] = tasks[n]
  BY <1>1 DEF SchedulerInv, RoundFiresAll
<1>4. \A n, t : Matches(tasks[n], now)' <=> Matches(tasks[n], now)
  BY <1>1 DEF Matches, Tm
<1>5. next' <= Len(tasks') + 1
  BY <1>1, <1>2
<1>6. CASE Matches(tasks[next], now)
  <2>1. Due' = Due \cup {next}
    BY <1>1, <1>2, <1>4, <1>6 DEF Due
  <2>2. round' = Append(round, tasks[next])
    BY <1>6 DEF Fire
  <2>3. /\ DOMAIN round' = DOMAIN round \cup {Len(round) + 1}
        /\ \A k \in DOMAIN round : round'[k] = round[k]
        /\ round'[Len(round) + 1] = tasks[next]
    <3>1. tasks[next] \in Defs
      BY <1>1, <1>2
    <3>2. DOMAIN round = 1 .. Len(round) /\ DOMAIN round' = 1 .. Len(round) + 1
      BY <1>2, <2>2, <3>1
    <3>3. QED
      BY <1>2, <2>2, <3>1, <3>2
  <2>4. \A k \in DOMAIN round : k \in 1 .. Len(round)
    BY <1>2
  <2>5. \A n \in Due : n < next /\ n \in Nat
    BY <1>2 DEF Due
  <2>6. /\ \A n \in Due' : \E k \in DOMAIN round' : round'[k] = tasks[n]
        /\ \A k \in DOMAIN round' : \E n \in Due' : round'[k] = tasks[n]
    BY <1>3, <2>1, <2>3
  <2>7. ASSUME NEW j \in DOMAIN round', NEW k \in DOMAIN round', j < k
        PROVE  \E m, n \in Due' :
                  m < n /\ round'[j] = tasks[m] /\ round'[k] = tasks[n]
    <3>1. j \in DOMAIN round /\ round'[j] = round[j]
      BY <1>2, <2>3, <2>4, <2>7
    <3>2. CASE k \in DOMAIN round
      BY <1>3, <2>1, <2>3, <2>7, <3>1, <3>2
    <3>3. CASE k = Len(round) + 1
      <4>1. PICK m \in Due : round[j] = tasks[m]
        BY <1>3, <3>1
      <4>2. m < next
        BY <2>5
      <4>3. QED
        BY <2>1, <2>3, <3>1, <3>3, <4>1, <4>2
    <3>4. QED
      BY <2>3, <3>2, <3>3
  <2>8. QED
    BY <1>1, <1>5, <2>6, <2>7 DEF RoundFiresAll
<1>7. CASE ~Matches(tasks[next], now)
  <2>1. Due' = Due
    BY <1>1, <1>2, <1>4, <1>7 DEF Due
  <2>2. round' = round
    BY <1>7 DEF Fire
  <2>3. QED
    BY <1>1, <1>3, <1>5, <2>1, <2>2 DEF RoundFiresAll
<1>8. QED
  BY <1>6, <1>7

\* A task is fired once in a round, since it is there once.
LEMMA FireKeepsInv ==
    ASSUME SchedulerInv, Fire
    PROVE  SchedulerInv'
<1>1. /\ UNCHANGED <<tasks, clock, spc, since, now, stop, dpc, steady>>
      /\ spc = "fire" /\ next <= Len(tasks) /\ next' = next + 1
  BY DEF Fire
<1>2. /\ tasks \in Seq(Defs) /\ Len(tasks) \in Nat /\ next \in Nat \ {0}
      /\ round \in Seq(Defs) /\ fired \in [Defs -> Nat]
      /\ next \in DOMAIN tasks /\ tasks[next] \in Defs
  BY <1>1 DEF SchedulerInv, SchedulerTypes
<1> DEFINE e == tasks[next]
<1>3. \/ /\ Matches(e, now) /\ now = MinuteOf(clock)
         /\ fired' = [fired EXCEPT ![e] = @ + 1]
         /\ round' = Append(round, e)
      \/ /\ Matches(e, now) /\ now # MinuteOf(clock) /\ fired' = fired
         /\ round' = Append(round, e)
      \/ ~Matches(e, now) /\ fired' = fired /\ round' = round
  BY DEF Fire, Counted
<1> HIDE DEF e
<1>4. /\ fired' \in [Defs -> Nat] /\ \A d \in Defs \ {e} : fired'[d] = fired[d]
      /\ fired'[e] \in {fired[e], fired[e] + 1}
      /\ fired'[e] = fired[e] + 1 => now = MinuteOf(clock)
      /\ Matches(e, now) /\ now = MinuteOf(clock) => fired'[e] = fired[e] + 1
  BY <1>2, <1>3 DEF e
<1>5. SchedulerTypes'
  <2>1. round' \in Seq(Defs)
    <3>1. round' = Append(round, e) \/ round' = round
      BY <1>3
    <3>2. e \in Defs
      BY <1>2 DEF e
    <3>3. Append(round, e) \in Seq(Defs) /\ round \in Seq(Defs)
      BY <1>2, <3>2, AppendProperties
    <3>4. QED
      BY <3>1, <3>3
  <2>2. next' \in Nat \ {0}
    BY <1>1, <1>2
  <2>3. QED
    BY <1>1, <1>4, <2>1, <2>2 DEF SchedulerInv, SchedulerTypes
<1>6. ListInv'
  BY <1>1 DEF SchedulerInv, ListInv, Present
<1>7. TimeInv'
  BY <1>1, SameMinute DEF SchedulerInv, TimeInv
<1>8. CoverInv'
  <2> SUFFICES ASSUME dpc = "alive", NEW d \in steady, Matches(d, MinuteOf(clock))
               PROVE  fired'[d] >= 1 \/ Pending(d)' \/ InTime'
    BY <1>1, SameMinute DEF CoverInv
  <2>1. fired[d] >= 1 \/ Pending(d) \/ InTime
    BY <1>1 DEF SchedulerInv, CoverInv
  <2>2. d \in Defs /\ fired[d] \in Nat /\ fired'[d] \in Nat
    <3>1. d \in Defs
      BY <1>2 DEF SchedulerInv, ListInv, Present
    <3>2. QED
      BY <1>2, <1>4, <3>1
  <2>3. fired[d] >= 1 => fired'[d] >= 1
    <3>1. fired'[d] = fired[d] \/ fired'[d] = fired[d] + 1
      BY <1>4, <2>2
    <3>2. QED
      BY <2>2, <3>1
  <2>4. InTime => InTime'
    BY <1>1, SameMinute DEF InTime
  <2>5. ASSUME Pending(d) PROVE Pending(d)' \/ fired'[d] >= 1
    <3>1. now = MinuteOf(clock)
      BY <2>5 DEF Pending
    <3>2. PICK n \in DOMAIN tasks : n >= next /\ tasks[n] = d
      BY <2>5 DEF Pending
    <3>3. CASE n = next
      <4>1. d = e /\ Matches(e, now)
        BY <3>1, <3>2, <3>3 DEF e
      <4>2. fired'[d] = fired[d] + 1
        BY <1>4, <3>1, <4>1
      <4>3. QED
        BY <2>2, <4>2
    <3>4. CASE n # next
      <4>1. n >= next'
        BY <1>1, <1>2, <3>2, <3>4
      <4>2. QED
        BY <1>1, <3>1, <3>2, <4>1, SameMinute DEF Pending
    <3>5. QED
      BY <3>3, <3>4
  <2>6. QED
    BY <2>1, <2>3, <2>4, <2>5
<1>9. CountInv'
  <2> SUFFICES ASSUME NEW d \in Defs
               PROVE  /\ fired'[d] <= 2
                      /\ now < MinuteOf(clock) => fired'[d] = 0
                      /\ fired'[d] = 2 => since >= Begin
                      /\ (\E n \in DOMAIN tasks : n >= next + 1 /\ tasks[n] = d) =>
                            fired'[d] = 0 \/ (fired'[d] = 1 /\ since >= Begin)
    BY <1>1, SameMinute DEF CountInv
  <2>1. /\ fired[d] <= 2
        /\ now < MinuteOf(clock) => fired[d] = 0
        /\ fired[d] = 2 => since >= Begin
        /\ (\E n \in DOMAIN tasks : n >= next /\ tasks[n] = d) =>
              fired[d] = 0 \/ (fired[d] = 1 /\ since >= Begin)
    BY <1>1 DEF SchedulerInv, CountInv
  <2>2. CASE fired'[d] = fired[d]
    <3>1. \A n \in DOMAIN tasks : n >= next + 1 => n >= next
      BY <1>2
    <3>2. QED
      BY <2>1, <2>2, <3>1
  <2>3. CASE fired'[d] # fired[d]
    <3>1. d = e /\ now = MinuteOf(clock) /\ fired'[d] = fired[d] + 1
      BY <1>4, <2>3
    <3>2. fired[d] = 0 \/ (fired[d] = 1 /\ since >= Begin)
      <4>1. next >= next
        BY <1>2
      <4>2. QED
        BY <1>2, <2>1, <3>1, <4>1 DEF e
    <3>3. ~\E n \in DOMAIN tasks : n >= next + 1 /\ tasks[n] = d
      <4> SUFFICES ASSUME NEW n \in DOMAIN tasks, n >= next + 1, tasks[n] = d
                   PROVE  FALSE
        OBVIOUS
      <4>1. n = next
        BY <1>2, <3>1 DEF e, SchedulerInv, ListInv
      <4>2. QED
        BY <1>2, <4>1
    <3>4. ~(now < MinuteOf(clock))
      BY <1>1, <3>1, SameMinute
    <3>5. fired'[d] <= 2 /\ (fired'[d] = 2 => fired[d] = 1)
      BY <1>2, <3>1, <3>2
    <3>6. QED
      BY <3>2, <3>3, <3>4, <3>5
  <2>4. QED
    BY <2>2, <2>3
<1>10. QED
  BY <1>5, <1>6, <1>7, <1>8, <1>9, FireKeepsRound DEF SchedulerInv

\* A round of the minute before leaves the time for one in this minute.
LEMMA RoundEndsKeepsInv ==
    ASSUME SchedulerInv, RoundEnds
    PROVE  SchedulerInv'
<1>1. /\ UNCHANGED <<tasks, clock, now, fired, stop, dpc, steady>>
      /\ spc = "fire" /\ spc' = "test" /\ next > Len(tasks) /\ next' = 1
      /\ since' = clock /\ round' = <<>>
  BY DEF RoundEnds
<1>2. /\ clock \in Nat /\ since \in Nat /\ since <= clock /\ since + Wait <= clock
      /\ clock <= since + MaxDelay + Wait
      /\ now = MinuteOf(clock) \/ since + Wait < Begin
      /\ tasks \in Seq(Defs) /\ Len(tasks) \in Nat /\ fired \in [Defs -> Nat]
      /\ now \in Nat /\ next \in Nat
  BY <1>1 DEF SchedulerInv, SchedulerTypes, TimeInv
<1>3. SchedulerTypes'
  <2>1. round' \in Seq(Defs)
    BY <1>1
  <2>2. QED
    BY <1>1, <1>2, <2>1 DEF SchedulerInv, SchedulerTypes, Places
<1>4. ListInv' /\ RoundFiresAll'
  BY <1>1 DEF SchedulerInv, ListInv, RoundFiresAll, Present
<1>5. TimeInv'
  BY <1>1, <1>2, Periods DEF SchedulerInv, TimeInv
<1>6. CoverInv'
  <2> SUFFICES ASSUME dpc = "alive", NEW d \in steady, Matches(d, MinuteOf(clock))
               PROVE  fired[d] >= 1 \/ InTime'
    BY <1>1, SameMinute DEF CoverInv
  <2>1. fired[d] >= 1 \/ Pending(d) \/ InTime
    BY <1>1 DEF SchedulerInv, CoverInv
  <2>2. ~Pending(d)
    <3>1. \A n \in DOMAIN tasks : ~(n >= next)
      BY <1>1, <1>2
    <3>2. QED
      BY <3>1 DEF Pending
  <2>3. InTime => since + Wait < Begin
    BY <1>1, <1>2, SameMinute DEF InTime
  <2>4. since + Wait < Begin => since' + Wait + 2 * MaxDelay < Begin + Minute
    BY <1>1, <1>2, SameMinute, Periods
  <2>5. QED
    BY <1>1, <2>1, <2>2, <2>3, <2>4, SameMinute DEF InTime
<1>7. CountInv'
  <2> SUFFICES ASSUME NEW d \in Defs
               PROVE  /\ fired[d] <= 2
                      /\ fired[d] >= 1 => since' >= Begin
                      /\ fired[d] = 2 => since' >= Begin + Wait
    BY <1>1, SameMinute DEF CountInv
  <2>1. /\ fired[d] <= 2 /\ (fired[d] = 2 => since >= Begin)
    BY <1>1 DEF SchedulerInv, CountInv
  <2>2. QED
    BY <1>1, <1>2, <2>1, SameMinute, Periods
<1>8. QED
  BY <1>3, <1>4, <1>5, <1>6, <1>7 DEF SchedulerInv

-----------------------------------------------------------------------------
(* Time.                                                                   *)

\* When the minute ends the thread has read the clock in it.
LEMMA OverInTime ==
    ASSUME SchedulerInv, Tick, MinuteOf(clock') # MinuteOf(clock), ~stop
    PROVE  ~InTime
<1>1. /\ clock' = clock + 1 /\ clock \in Nat /\ since \in Nat
      /\ clock < since + MaxDelay + (IF spc = "test" THEN 0 ELSE Wait)
      /\ spc \in {"lock", "fire"} => now = MinuteOf(clock) \/ since + Wait < Begin
  BY DEF Tick, SchedulerInv, SchedulerTypes, TimeInv
<1>2. clock + 1 = Begin + Minute /\ Begin \in Nat /\ MinuteOf(clock) \in Nat
  BY <1>1, ClockFacts
<1>3. CASE spc = "test"
  BY <1>1, <1>2, <1>3, Periods DEF InTime
<1>4. CASE spc \in {"wait", "read"}
  BY <1>1, <1>2, <1>4, Periods DEF InTime
<1>5. CASE spc \in {"lock", "fire"} /\ now < MinuteOf(clock)
  BY <1>1, <1>2, <1>5, Periods DEF InTime
<1>6. QED
  BY <1>3, <1>4, <1>5 DEF InTime

\* The first tick of a minute.
LEMMA MinuteTick ==
    ASSUME SchedulerInv, Tick, MinuteOf(clock') # MinuteOf(clock)
    PROVE  SchedulerInv'
<1>1. /\ UNCHANGED <<tasks, spc, since, now, next, round, stop, dpc>>
      /\ clock' = clock + 1 /\ steady' = Present /\ fired' = [d \in Defs |-> 0]
      /\ clock < since + MaxDelay + (IF spc = "test" THEN 0 ELSE Wait)
  BY DEF Tick
<1>2. /\ clock \in Nat /\ since \in Nat /\ since <= clock
      /\ spc \in {"read", "lock", "fire"} => since + Wait <= clock
      /\ spc \in {"lock", "fire"} => now <= MinuteOf(clock)
      /\ now \in Nat /\ MinuteOf(clock) \in Nat
  <2>1. clock \in Nat /\ since \in Nat /\ now \in Nat
    BY DEF SchedulerInv, SchedulerTypes
  <2>2. MinuteOf(clock) \in Nat
    BY <2>1, MinuteFacts
  <2>3. QED
    BY <2>1, <2>2 DEF SchedulerInv, TimeInv
<1>3. /\ MinuteOf(clock') > MinuteOf(clock) /\ Begin' = clock'
      /\ MinuteOf(clock') \in Nat
  BY <1>1, <1>2, ClockFacts, MinuteFacts
<1>4. SchedulerTypes'
  BY <1>1, <1>2 DEF SchedulerInv, SchedulerTypes
<1>5. ListInv' /\ RoundFiresAll'
  <2>1. Due' = Due /\ Present' = Present
    BY <1>1 DEF Due, Matches, Present
  <2>2. RoundFiresAll'
    BY <1>1, <2>1 DEF SchedulerInv, RoundFiresAll
  <2>3. QED
    BY <1>1, <2>1, <2>2 DEF SchedulerInv, ListInv
<1>6. spc \in {"lock", "fire"} => now < MinuteOf(clock') /\ since + Wait < Begin'
  <2>1. now <= MinuteOf(clock) => now < MinuteOf(clock')
    BY <1>2, <1>3
  <2>2. since + Wait <= clock => since + Wait < Begin'
    BY <1>1, <1>2, <1>3, Periods
  <2>3. QED
    BY <1>2, <2>1, <2>2
<1>7. TimeInv'
  <2>1. /\ since <= clock'
        /\ clock' <= since + MaxDelay + (IF spc = "test" THEN 0 ELSE Wait)
    BY <1>1, <1>2, Periods
  <2>2. spc \in {"read", "lock", "fire"} => since + Wait <= clock'
    BY <1>1, <1>2, Periods
  <2>3. QED
    BY <1>1, <1>6, <2>1, <2>2 DEF SchedulerInv, TimeInv
<1>8. CoverInv'
  <2> SUFFICES ASSUME dpc = "alive" PROVE InTime'
    BY <1>1 DEF CoverInv
  <2>1. spc # "exited" /\ spc \in Places
    BY DEF SchedulerInv, TimeInv, SchedulerTypes
  <2>2. CASE spc \in {"lock", "fire"}
    BY <1>1, <1>6, <2>2 DEF InTime
  <2>3. CASE spc \in {"test", "wait", "read"}
    <3>1. since + Wait + 2 * MaxDelay < Begin' + Minute
      BY <1>1, <1>2, <1>3, Periods
    <3>2. since + Wait + MaxDelay < Begin' + Minute
      BY <1>1, <1>2, <1>3, Periods
    <3>3. QED
      BY <1>1, <2>3, <3>1, <3>2 DEF InTime
  <2>4. QED
    BY <2>1, <2>2, <2>3 DEF Places
<1>9. CountInv'
  <2>1. \A d \in Defs : fired'[d] = 0
    BY <1>1
  <2>2. QED
    BY <2>1 DEF CountInv
<1>10. QED
  BY <1>4, <1>5, <1>7, <1>8, <1>9 DEF SchedulerInv

\* Any other tick.
LEMMA TickKeepsInv ==
    ASSUME SchedulerInv, Tick, MinuteOf(clock') = MinuteOf(clock)
    PROVE  SchedulerInv'
<1>1. /\ UNCHANGED <<tasks, spc, since, now, next, round, stop, dpc, steady, fired>>
      /\ clock' = clock + 1
      /\ clock < since + MaxDelay + (IF spc = "test" THEN 0 ELSE Wait)
  BY DEF Tick
<1>2. /\ clock \in Nat /\ since \in Nat /\ since <= clock
      /\ spc \in {"read", "lock", "fire"} => since + Wait <= clock
  BY DEF SchedulerInv, SchedulerTypes, TimeInv
<1>3. Begin' = Begin
  BY DEF Begin
<1>4. SchedulerTypes'
  BY <1>1, <1>2 DEF SchedulerInv, SchedulerTypes
<1>5. ListInv' /\ RoundFiresAll'
  <2>1. Due' = Due /\ Present' = Present
    BY <1>1 DEF Due, Matches, Present
  <2>2. RoundFiresAll'
    BY <1>1, <2>1 DEF SchedulerInv, RoundFiresAll
  <2>3. QED
    BY <1>1, <2>1, <2>2 DEF SchedulerInv, ListInv
<1>6. TimeInv'
  <2>1. /\ since <= clock'
        /\ clock' <= since + MaxDelay + (IF spc = "test" THEN 0 ELSE Wait)
    BY <1>1, <1>2, Periods
  <2>2. spc \in {"read", "lock", "fire"} => since + Wait <= clock'
    BY <1>1, <1>2, Periods
  <2>3. QED
    BY <1>1, <1>3, <2>1, <2>2 DEF SchedulerInv, TimeInv
<1>7. CoverInv'
  <2>1. InTime' <=> InTime
    BY <1>1, <1>3 DEF InTime
  <2>2. \A d : /\ Pending(d)' <=> Pending(d)
               /\ Matches(d, MinuteOf(clock))' <=> Matches(d, MinuteOf(clock))
    BY <1>1 DEF Pending, Matches, Tm
  <2>3. QED
    BY <1>1, <2>1, <2>2 DEF SchedulerInv, CoverInv
<1>8. CountInv'
  BY <1>1, <1>3 DEF SchedulerInv, CountInv
<1>9. QED
  BY <1>4, <1>5, <1>6, <1>7, <1>8 DEF SchedulerInv

-----------------------------------------------------------------------------
(* Cron fields.                                                            *)

\* A multiple of n among the numbers from 0 is k times n, with k no larger.
LEMMA Multiples ==
    ASSUME NEW x \in Nat, NEW n \in Nat \ {0}
    PROVE  x % n = 0 <=> \E k \in 0 .. x : x = k * n
<1>1. ASSUME x % n = 0 PROVE \E k \in 0 .. x : x = k * n
  <2>1. x = (x \div n) * n
    BY <1>1
  <2>2. x \div n \in 0 .. x
    <3>1. x \div n \in Nat
      OBVIOUS
    <3>2. ASSUME NEW k \in Nat, x = k * n PROVE k <= x
      <4>1. k * n = k + k * (n - 1)
        OBVIOUS
      <4>2. k * (n - 1) \in Nat
        OBVIOUS
      <4>3. QED
        BY <3>2, <4>1, <4>2
    <3>3. QED
      BY <2>1, <3>1, <3>2
  <2>3. QED
    BY <2>1, <2>2
<1>2. ASSUME NEW k \in 0 .. x, x = k * n PROVE x % n = 0
  <2>1. k \in Nat
    OBVIOUS
  <2>2. (k * n) % n = 0
    BY <2>1
  <2>3. QED
    BY <1>2, <2>2
<1>3. QED
  BY <1>1, <1>2

\* A field finds a value exactly if it denotes it, and no list has a range in it.
LEMMA FieldAsDenoted ==
    ASSUME NEW field \in CronFields, NEW v \in Nat, NEW min \in {0, 1}, v >= min
    PROVE  FieldMatches(field, v, min) <=> Denotes(field, v, min) /\ ~Mixed(field)
<1>1. CASE field = Star
  BY <1>1 DEF Star, FieldMatches, Denotes, Mixed
<1>2. CASE field \in [form : {"step"}, by : Int]
  <2>1. field.form = "step" /\ field.by \in Int
    BY <1>2
  <2>2. CASE field.by > 0
    <3>1. v - min \in Nat /\ field.by \in Nat \ {0}
      BY <2>1, <2>2
    <3>2. (v - min) % field.by = 0 <=>
             \E k \in 0 .. v - min : v - min = k * field.by
      BY <3>1, Multiples
    <3>3. ASSUME NEW k \in 0 .. v, v = min + k * field.by PROVE k \in 0 .. v - min
      <4>1. k * field.by = k + k * (field.by - 1)
        BY <3>1
      <4>2. k * (field.by - 1) \in Nat
        BY <3>1
      <4>3. QED
        BY <3>1, <3>3, <4>1, <4>2
    <3>4. ASSUME NEW k \in Nat
          PROVE  v - min = k * field.by <=> v = min + k * field.by
      BY <3>1
    <3>5. (\E k \in 0 .. v - min : v - min = k * field.by)
             <=> \E k \in 0 .. v : v = min + k * field.by
      BY <3>1, <3>3, <3>4
    <3>6. QED
      BY <2>1, <2>2, <3>2, <3>5 DEF FieldMatches, StepMatches, Denotes, Mixed
  <2>3. CASE ~(field.by > 0)
    BY <2>1, <2>3 DEF FieldMatches, StepMatches, Denotes, Mixed
  <2>4. QED
    BY <2>2, <2>3
<1>3. CASE field \in [form : {"parts"}, parts : Seq(Seq(Int))]
  <2> DEFINE ps == field.parts
  <2>1. field.form = "parts" /\ ps \in Seq(Seq(Int))
    BY <1>3
  <2>2. \A i \in DOMAIN ps : ps[i] \in Seq(Int) /\ Len(ps[i]) \in Nat
    BY <2>1
  <2>3. /\ FieldMatches(field, v, min)
             <=> \/ HasDash(ps) /\ RangeMatches(ps, v)
                 \/ ~HasDash(ps) /\ \E i \in DOMAIN ps : ps[i] = <<v>>
        /\ Denotes(field, v, min) <=> \E i \in DOMAIN ps : PartDenotes(ps[i], v)
        /\ Mixed(field) <=> HasDash(ps) /\ Len(ps) > 1
    BY <2>1 DEF FieldMatches, Denotes, Mixed
  <2> HIDE DEF ps
  <2>4. CASE HasDash(ps)
    <3>1. Len(ps) \in Nat \ {0}
      BY <2>1, <2>4 DEF HasDash
    <3>2. CASE Len(ps) > 1
      BY <2>3, <2>4, <3>2 DEF RangeMatches
    <3>3. CASE Len(ps) = 1
      <4>1. DOMAIN ps = {1} /\ Len(ps[1]) > 1
        BY <2>1, <2>4, <3>3 DEF HasDash
      <4>2. RangeMatches(ps, v) <=> PartDenotes(ps[1], v)
        <5>1. CASE Len(ps[1]) = 2
          <6>1. ps[1][1] \in Int /\ ps[1][2] \in Int
            BY <2>2, <4>1, <5>1
          <6>2. QED
            BY <3>3, <5>1, <6>1 DEF RangeMatches, PartDenotes
        <5>2. CASE Len(ps[1]) # 2
          BY <4>1, <5>2 DEF RangeMatches, PartDenotes
        <5>3. QED
          BY <5>1, <5>2
      <4>3. QED
        BY <2>3, <2>4, <3>3, <4>1, <4>2
    <3>4. \A k \in Nat \ {0} : k > 1 \/ k = 1
      OBVIOUS
    <3>5. QED
      BY <3>1, <3>2, <3>3, <3>4
  <2>5. CASE ~HasDash(ps)
    <3>1. ASSUME NEW i \in DOMAIN ps
          PROVE  PartDenotes(ps[i], v) <=> ps[i] = <<v>>
      <4>1. Len(ps[i]) \in {0, 1} /\ ps[i] \in Seq(Int)
        <5>1. Len(ps[i]) \in Nat /\ ~(Len(ps[i]) > 1)
          BY <2>2, <2>5 DEF HasDash
        <5>2. \A k \in Nat : ~(k > 1) => k \in {0, 1}
          OBVIOUS
        <5>3. QED
          BY <2>2, <5>1, <5>2
      <4>2. CASE Len(ps[i]) = 0
        BY <4>1, <4>2 DEF PartDenotes
      <4>3. CASE Len(ps[i]) = 1
        <5>1. ps[i] = <<ps[i][1]>>
          BY <4>1, <4>3
        <5>2. QED
          BY <4>3, <5>1 DEF PartDenotes
      <4>4. QED
        BY <4>1, <4>2, <4>3
    <3>2. QED
      BY <2>3, <2>5, <3>1
  <2>6. QED
    BY <2>4, <2>5
<1>4. QED
  BY <1>1, <1>2, <1>3 DEF CronFields

-----------------------------------------------------------------------------
(* The theorems.                                                           *)

\* The users of the list, the thread and the clock keep SchedulerInv.
THEOREM SchedulerInvariant == Spec => []SchedulerInv
<1>1. SchedulerInv /\ [Next]_vars => SchedulerInv'
  <2> SUFFICES ASSUME SchedulerInv, [Next]_vars PROVE SchedulerInv'
    OBVIOUS
  <2>1. ASSUME NEW d \in Defs, AddTask(d) \/ RemoveTask(d.name) PROVE SchedulerInv'
    BY <2>1, AddKeepsInv, RemoveKeepsInv
  <2>2. CASE Destroy \/ Join
    BY <2>2, StopKeepsInv
  <2>3. CASE ThreadStep
    BY <2>3, WaitKeepsInv, ReadKeepsInv, LockKeepsInv, FireKeepsInv,
       RoundEndsKeepsInv DEF ThreadStep
  <2>4. CASE Tick
    BY <2>4, MinuteTick, TickKeepsInv
  <2>5. CASE UNCHANGED vars
    <3>1. UNCHANGED <<tasks, clock, spc, since, now, next, round, fired, stop,
                     dpc, steady>>
      BY <2>5 DEF vars, threadVars
    <3>2. /\ Due' = Due /\ Present' = Present /\ Begin' = Begin
          /\ MinuteOf(clock)' = MinuteOf(clock) /\ InTime' = InTime
      BY <3>1 DEF Due, Matches, Present, Begin, InTime
    <3>3. \A d : /\ Pending(d)' <=> Pending(d)
                 /\ Matches(d, MinuteOf(clock))' <=> Matches(d, MinuteOf(clock))
      BY <3>1 DEF Pending, Matches, Tm
    <3>4. SchedulerTypes' /\ ListInv' /\ RoundFiresAll'
      BY <3>1, <3>2 DEF SchedulerInv, SchedulerTypes, ListInv, RoundFiresAll
    <3>5. TimeInv' /\ CoverInv' /\ CountInv'
      BY <3>1, <3>2, <3>3 DEF SchedulerInv, TimeInv, CoverInv, CountInv
    <3>6. QED
      BY <3>4, <3>5 DEF SchedulerInv
  <2>6. QED
    BY <2>1, <2>2, <2>3, <2>4, <2>5 DEF Next
<1>2. QED
  BY InitInv, <1>1, PTL DEF Spec

\* A round of workerLoop calls back once, in order, for each task that matches and
\* for no other, however addTask and removeTask come between rounds.
THEOREM RoundsFireAll == Spec => []RoundFiresAll
<1>1. SchedulerInv => RoundFiresAll
  BY DEF SchedulerInv
<1>2. QED
  BY <1>1, SchedulerInvariant, PTL

\* The loop of workerLoop, with its wait of half a minute and any delays, fires a
\* task in every whole minute that it is there for and matches, and at most twice.
THEOREM MinutesCovered == Spec => MinuteCovered
<1>1. ASSUME SchedulerInv, [Next]_vars
      PROVE  MinuteOf(clock') # MinuteOf(clock) /\ dpc = "alive" =>
                \A d \in steady :
                   Matches(d, MinuteOf(clock)) =>
                      \/ fired[d] \in {1, 2}
                      \/ spc \in {"lock", "fire"} /\ now = MinuteOf(clock)
  <2> SUFFICES ASSUME MinuteOf(clock') # MinuteOf(clock), dpc = "alive",
                      NEW d \in steady, Matches(d, MinuteOf(clock))
               PROVE  \/ fired[d] \in {1, 2}
                      \/ spc \in {"lock", "fire"} /\ now = MinuteOf(clock)
    OBVIOUS
  <2>1. Tick
    BY <1>1 DEF Next, AddTask, RemoveTask, Destroy, Join, ThreadStep, Test, Wake,
       ReadClock, Lock, Fire, RoundEnds, vars
  <2>2. ~stop
    BY <1>1 DEF SchedulerInv, TimeInv
  <2>3. ~InTime
    BY <1>1, <2>1, <2>2, OverInTime
  <2>4. fired[d] >= 1 \/ Pending(d)
    BY <1>1, <2>3 DEF SchedulerInv, CoverInv
  <2>5. fired[d] \in Nat /\ fired[d] <= 2
    <3>1. d \in Defs
      BY <1>1 DEF SchedulerInv, SchedulerTypes, ListInv, Present
    <3>2. QED
      BY <1>1, <3>1 DEF SchedulerInv, SchedulerTypes, CountInv
  <2>6. QED
    BY <2>4, <2>5 DEF Pending
<1>2. QED
  BY <1>1, SchedulerInvariant, PTL DEF Spec, MinuteCovered

\* cronFieldMatches finds what a field denotes, for all fields, steps, ranges and
\* lists of numbers, except lists with a range in them.
THEOREM CronFieldsAsDenoted == Spec => []CronAsDenoted
<1>1. SchedulerInv => CronAsDenoted
  BY SchedulerAssumption, FieldAsDenoted DEF SchedulerInv, SchedulerTypes,
     CronAsDenoted
<1>2. QED
  BY <1>1, SchedulerInvariant, PTL

=============================================================================
