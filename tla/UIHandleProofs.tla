--------------------------- MODULE UIHandleProofs ---------------------------
(***************************************************************************)
(* The events of an input call stay together, for any callers, calls and   *)
(* desktops.  Each call is balanced: its events come between a lock and the *)
(* unlock that ends it, and what it presses it releases.  The invariant says *)
(* that what is left of a call is, from the depth at which it holds the     *)
(* mutex.  Then, what the searches of the scanner find in any tree, and that *)
(* a refreshed handle has the same element.                                 *)
(***************************************************************************)
EXTENDS UIHandle, WellFoundedInduction, FiniteSetTheorems, SequenceTheorems, TLAPS

EventOps == {"move", "down", "up", "wheel", "char"}

\* p is a sequence of n steps.
Steps(p, n) == n \in Nat /\ \E S : p \in [1 .. n -> S]

Delta(s) == IF s.op = "lock" THEN 1 ELSE IF s.op = "unlock" THEN -1 ELSE 0

\* D is how often the mutex is held after each step.
Depths(p, n, D) ==
    /\ D \in [0 .. n -> Nat]
    /\ \A i \in 1 .. n : D[i] = D[i - 1] + Delta(p[i])

Releases(p, n) ==
    \A i \in 1 .. n :
        p[i].op = "down" => \E j \in i + 1 .. n : p[j] = Do("up", p[i].arg)

\* A piece of a call that is made with the mutex held.
Inner(p, n) ==
    /\ Steps(p, n) /\ Releases(p, n)
    /\ \A i \in 1 .. n : p[i].op # "focus"
    /\ \E D : Depths(p, n, D) /\ D[0] = 0 /\ D[n] = 0

\* The rest of a call that holds the mutex d times: there is an event only while
\* it is held, and it is free at the end and before the first lock only.
Rest(p, n, d) ==
    /\ Steps(p, n) /\ Releases(p, n)
    /\ \E D :
          /\ Depths(p, n, D) /\ D[0] = d /\ D[n] = 0
          /\ \A i \in 1 .. n :
                /\ p[i].op \in EventOps => D[i - 1] > 0
                /\ D[i] = 0 /\ i < n => \A j \in 1 .. i : p[j].op = "focus"

-----------------------------------------------------------------------------
(* Sequences.                                                              *)

LEMMA StepsSeq ==
    ASSUME NEW p, NEW n, Steps(p, n)
    PROVE  \E S : p \in Seq(S) /\ Len(p) = n
<1> PICK S : p \in [1 .. n -> S]
  BY DEF Steps
<1>1. p \in Seq(S)
  BY SeqDef DEF Steps
<1>2. DOMAIN p = 1 .. n /\ n \in Nat
  BY DEF Steps
<1> QED
  BY <1>1, <1>2

LEMMA SeqSteps ==
    ASSUME NEW S, NEW p \in Seq(S)
    PROVE  Steps(p, Len(p))
BY LenProperties DEF Steps

\* r is p and then q.
Joined(p, m, q, n, r) ==
    /\ Steps(r, m + n)
    /\ \A i \in 1 .. m + n : r[i] = IF i <= m THEN p[i] ELSE q[i - m]

LEMMA Join ==
    ASSUME NEW p, NEW q, NEW m, NEW n, Steps(p, m), Steps(q, n)
    PROVE  Joined(p, m, q, n, p \o q)
<1> PICK S : p \in Seq(S) /\ Len(p) = m
  BY StepsSeq
<1> PICK T : q \in Seq(T) /\ Len(q) = n
  BY StepsSeq
<1>1. p \in Seq(S \cup T) /\ q \in Seq(S \cup T)
  BY SeqMonotonic
<1>2. /\ p \o q \in Seq(S \cup T) /\ Len(p \o q) = m + n
      /\ \A i \in 1 .. m + n : (p \o q)[i] = IF i <= m THEN p[i] ELSE q[i - m]
  BY <1>1, ConcatProperties
<1> QED
  BY <1>2, SeqSteps DEF Joined

LEMMA Unit ==
    ASSUME NEW s
    PROVE  Steps(<<s>>, 1) /\ <<s>>[1] = s
<1>1. <<s>> \in [1 .. 1 -> {s}]
  OBVIOUS
<1> QED
  BY <1>1 DEF Steps

LEMMA TailFacts ==
    ASSUME NEW p, NEW n, Steps(p, n), p # <<>>
    PROVE  /\ n \in Nat \ {0}
           /\ Steps(Tail(p), n - 1)
           /\ \A i \in 1 .. n - 1 : Tail(p)[i] = p[i + 1]
           /\ Head(p) = p[1]
           /\ Tail(p) = <<>> <=> n = 1
<1> PICK S : p \in Seq(S) /\ Len(p) = n
  BY StepsSeq
<1>1. n \in Nat \ {0}
  BY EmptySeq
<1>2. Tail(p) \in Seq(S) /\ Len(Tail(p)) = n - 1 /\ Head(p) = p[1]
  BY <1>1
<1>3. \A i \in 1 .. n - 1 : Tail(p)[i] = p[i + 1]
  BY <1>1
<1>4. Len(<<>>) = 0 /\ (Tail(p) # <<>> => Len(Tail(p)) \in Nat \ {0})
  BY <1>2, EmptySeq
<1>5. n - 1 = 0 <=> n = 1
  BY <1>1
<1>6. Tail(p) = <<>> <=> n = 1
  BY <1>2, <1>4, <1>5, Zenon
<1> QED
  BY <1>1, <1>2, <1>3, <1>6, SeqSteps

Wrapped(first, p, last) == (<<first>> \o p) \o <<last>>

LEMMA Wrap ==
    ASSUME NEW p, NEW n, Steps(p, n), NEW first, NEW last
    PROVE  LET w == Wrapped(first, p, last) IN
           /\ Steps(w, n + 2)
           /\ w[1] = first /\ w[n + 2] = last
           /\ \A i \in 1 .. n : w[i + 1] = p[i]
<1> DEFINE a == <<first>>
           z == <<last>>
           r == a \o p
           w == r \o z
<1>0. Steps(a, 1) /\ a[1] = first
  BY Unit
<1>1. Steps(z, 1) /\ z[1] = last
  BY Unit
<1>2. n \in Nat
  BY DEF Steps
<1>3. Joined(a, 1, p, n, r)
  <2> HIDE DEF a
  <2> QED  BY <1>0, Join
<1>4. Steps(r, 1 + n)
  BY <1>3 DEF Joined
<1>5. Joined(r, 1 + n, z, 1, w)
  <2> HIDE DEF z, r
  <2> QED  BY <1>1, <1>4, Join
<1>w. Wrapped(first, p, last) = w
  BY DEF Wrapped
<1> HIDE DEF a, z, r, w
<1>6. Steps(w, n + 2)
  <2>1. (1 + n) + 1 = n + 2
    BY <1>2
  <2> QED
    BY <1>5, <2>1 DEF Joined
<1>7. w[1] = first
  <2>1. w[1] = r[1]
    BY <1>2, <1>5 DEF Joined
  <2>2. r[1] = a[1]
    BY <1>2, <1>3 DEF Joined
  <2> QED
    BY <1>0, <2>1, <2>2
<1>8. w[n + 2] = last
  <2>1. w[n + 2] = z[1]
    BY <1>2, <1>5 DEF Joined
  <2> QED
    BY <1>1, <2>1
<1>9. \A i \in 1 .. n : w[i + 1] = p[i]
  BY <1>2, <1>3, <1>5 DEF Joined
<1> QED
  BY <1>w, <1>6, <1>7, <1>8, <1>9

-----------------------------------------------------------------------------
(* The calls are balanced.                                                 *)

\* Steps without a lock or unlock.
LEMMA InnerFlat ==
    ASSUME NEW p, NEW n, Steps(p, n), Releases(p, n),
           \A i \in 1 .. n : p[i].op \in EventOps
    PROVE  Inner(p, n)
<1> DEFINE D == [i \in 0 .. n |-> 0]
<1>1. n \in Nat
  BY DEF Steps
<1>2. Depths(p, n, D)
  BY <1>1 DEF Depths, Delta, EventOps
<1>3. D[0] = 0 /\ D[n] = 0
  BY <1>1
<1>4. \A i \in 1 .. n : p[i].op # "focus"
  BY DEF EventOps
<1> HIDE DEF D
<1> QED
  BY <1>2, <1>3, <1>4 DEF Inner

LEMMA ReleasesJoined ==
    ASSUME NEW p, NEW m \in Nat, NEW q, NEW n \in Nat, NEW r,
           Joined(p, m, q, n, r), Releases(p, m), Releases(q, n)
    PROVE  Releases(r, m + n)
<1> SUFFICES ASSUME NEW i \in 1 .. m + n, r[i].op = "down"
             PROVE  \E j \in i + 1 .. m + n : r[j] = Do("up", r[i].arg)
  BY DEF Releases
<1>1. CASE i <= m
  <2>1. i \in 1 .. m /\ r[i] = p[i]
    BY <1>1 DEF Joined
  <2>2. PICK j \in i + 1 .. m : p[j] = Do("up", p[i].arg)
    BY <2>1 DEF Releases
  <2>3. j \in i + 1 .. m + n /\ r[j] = p[j]
    BY <2>1, <2>2 DEF Joined
  <2> QED
    BY <2>1, <2>2, <2>3
<1>2. CASE ~(i <= m)
  <2>1. i - m \in 1 .. n /\ r[i] = q[i - m]
    BY <1>2 DEF Joined
  <2>2. PICK j \in i - m + 1 .. n : q[j] = Do("up", q[i - m].arg)
    BY <2>1 DEF Releases
  <2>3. m + j \in i + 1 .. m + n /\ r[m + j] = q[j]
    BY <2>1, <2>2 DEF Joined
  <2> QED
    BY <2>1, <2>2, <2>3
<1> QED
  BY <1>1, <1>2

LEMMA InnerJoin ==
    ASSUME NEW p, NEW m, NEW q, NEW n, Inner(p, m), Inner(q, n)
    PROVE  Inner(p \o q, m + n)
<1> DEFINE r == p \o q
<1>1. m \in Nat /\ n \in Nat /\ Steps(p, m) /\ Steps(q, n)
  BY DEF Inner, Steps
<1>2. Joined(p, m, q, n, r)
  BY <1>1, Join
<1> HIDE DEF r
<1>3. Steps(r, m + n) /\ Releases(r, m + n)
  BY <1>1, <1>2, ReleasesJoined DEF Joined, Inner
<1>4. \A i \in 1 .. m + n : r[i].op # "focus"
  BY <1>1, <1>2 DEF Joined, Inner
<1> PICK D : Depths(p, m, D) /\ D[0] = 0 /\ D[m] = 0
  BY DEF Inner
<1> PICK E : Depths(q, n, E) /\ E[0] = 0 /\ E[n] = 0
  BY DEF Inner
<1> DEFINE F == [i \in 0 .. m + n |-> IF i <= m THEN D[i] ELSE E[i - m]]
<1>5. F \in [0 .. m + n -> Nat]
  BY <1>1 DEF Depths
<1>6. \A i \in 1 .. m + n : F[i] = F[i - 1] + Delta(r[i])
  <2> SUFFICES ASSUME NEW i \in 1 .. m + n PROVE F[i] = F[i - 1] + Delta(r[i])
    OBVIOUS
  <2>1. CASE i <= m
    BY <1>1, <1>2, <2>1 DEF Joined, Depths
  <2>2. CASE i = m + 1
    <3>1. F[i] = E[1] /\ F[i - 1] = E[0] /\ r[i] = q[1] /\ 1 \in 1 .. n
      BY <1>1, <1>2, <2>2 DEF Joined
    <3> QED
      BY <3>1 DEF Depths
  <2>3. CASE i > m + 1
    <3>1. /\ F[i] = E[i - m] /\ F[i - 1] = E[i - m - 1] /\ r[i] = q[i - m]
          /\ i - m \in 1 .. n
      BY <1>1, <1>2, <2>3 DEF Joined
    <3> QED
      BY <3>1 DEF Depths
  <2> QED
    BY <1>1, <2>1, <2>2, <2>3
<1>7. F[0] = 0 /\ F[m + n] = 0
  BY <1>1
<1> HIDE DEF F
<1> QED
  BY <1>3, <1>4, <1>5, <1>6, <1>7 DEF Inner, Depths, r

LEMMA InnerLocked ==
    ASSUME NEW p, NEW n, Inner(p, n)
    PROVE  Inner(Locked(p), n + 2) /\ Rest(Locked(p), n + 2, 0)
<1> DEFINE first == Do("lock", "")
           last == Do("unlock", "")
           r == Wrapped(first, p, last)
<1>0. Locked(p) = r
  BY DEF Locked, Wrapped
<1>1. n \in Nat /\ Steps(p, n)
  BY DEF Inner, Steps
<1>2. /\ Steps(r, n + 2)
      /\ r[1].op = "lock" /\ r[n + 2].op = "unlock"
      /\ \A i \in 1 .. n : r[i + 1] = p[i]
  <2>1. first.op = "lock" /\ last.op = "unlock"
    BY DEF Do
  <2> HIDE DEF first, last
  <2>2. /\ Steps(r, n + 2)
        /\ r[1] = first /\ r[n + 2] = last
        /\ \A i \in 1 .. n : r[i + 1] = p[i]
    BY <1>1, Wrap
  <2> QED
    BY <2>1, <2>2
<1> HIDE DEF first, last, r
<1>3. \A i \in 1 .. n + 2 : i = 1 \/ i = n + 2
   \/ (i - 1 \in 1 .. n /\ r[i] = p[i - 1])
  BY <1>1, <1>2
<1>4. Releases(r, n + 2)
  <2> SUFFICES ASSUME NEW i \in 1 .. n + 2, r[i].op = "down"
               PROVE  \E j \in i + 1 .. n + 2 : r[j] = Do("up", r[i].arg)
    BY DEF Releases
  <2>1. i - 1 \in 1 .. n /\ r[i] = p[i - 1]
    BY <1>2, <1>3
  <2>2. PICK j \in i - 1 + 1 .. n : p[j] = Do("up", p[i - 1].arg)
    BY <2>1 DEF Inner, Releases
  <2>3. j \in 1 .. n /\ j + 1 \in i + 1 .. n + 2
    BY <1>1, <2>1, <2>2
  <2> QED
    BY <1>2, <2>1, <2>2, <2>3
<1>5. \A i \in 1 .. n + 2 : r[i].op # "focus"
  BY <1>2, <1>3 DEF Inner
<1> PICK D : Depths(p, n, D) /\ D[0] = 0 /\ D[n] = 0
  BY DEF Inner
<1> DEFINE E == [i \in 0 .. n + 2 |-> IF i = 0 \/ i = n + 2 THEN 0 ELSE D[i - 1] + 1]
<1>6. /\ E \in [0 .. n + 2 -> Nat]
      /\ E[0] = 0 /\ E[n + 2] = 0 /\ E[1] = 1 /\ E[n + 1] = 1
      /\ \A i \in 1 .. n + 1 : E[i] = D[i - 1] + 1 /\ E[i] > 0
  BY <1>1 DEF Depths
<1> HIDE DEF E
<1>7. \A i \in 1 .. n + 2 : E[i] = E[i - 1] + Delta(r[i])
  <2> SUFFICES ASSUME NEW i \in 1 .. n + 2 PROVE E[i] = E[i - 1] + Delta(r[i])
    OBVIOUS
  <2>1. CASE i = 1
    BY <1>2, <1>6, <2>1 DEF Delta
  <2>2. CASE i = n + 2
    <3>1. Delta(r[i]) = -1
      BY <1>2, <2>2 DEF Delta
    <3>2. E[i] = 0 /\ E[i - 1] = 1
      BY <1>1, <1>6, <2>2
    <3> QED
      BY <3>1, <3>2
  <2>3. CASE i # 1 /\ i # n + 2
    <3>1. i - 1 \in 1 .. n /\ r[i] = p[i - 1]
      BY <1>3, <2>3
    <3>2. E[i] = D[i - 1] + 1 /\ E[i - 1] = D[i - 1 - 1] + 1
      BY <1>1, <1>6, <3>1
    <3>3. D[i - 1] = D[i - 1 - 1] + Delta(p[i - 1])
      BY <3>1 DEF Depths
    <3>4. D[i - 1 - 1] \in Nat /\ Delta(p[i - 1]) \in Int
      BY <1>1, <3>1 DEF Depths, Delta
    <3> QED
      BY <3>1, <3>2, <3>3, <3>4
  <2> QED
    BY <2>1, <2>2, <2>3
<1>8. \A i \in 1 .. n + 2 : r[i].op \in EventOps => E[i - 1] > 0
  <2> SUFFICES ASSUME NEW i \in 1 .. n + 2, i # 1 PROVE E[i - 1] > 0
    BY <1>2 DEF EventOps
  <2> QED
    BY <1>1, <1>6
<1>9. \A i \in 1 .. n + 2 : ~(E[i] = 0 /\ i < n + 2)
  BY <1>1, <1>6
<1>10. Depths(r, n + 2, E)
  BY <1>6, <1>7 DEF Depths
<1> QED
  BY <1>0, <1>2, <1>4, <1>5, <1>6, <1>8, <1>9, <1>10 DEF Inner, Rest

\* What is done while a button is held down.
LEMMA InnerHeld ==
    ASSUME NEW p, NEW n, Inner(p, n), NEW button
    PROVE  Inner(Wrapped(Do("down", button), p, Do("up", button)), n + 2)
<1> DEFINE r == Wrapped(Do("down", button), p, Do("up", button))
<1>1. n \in Nat /\ Steps(p, n)
  BY DEF Inner, Steps
<1> HIDE DEF r
<1>2. /\ Steps(r, n + 2)
      /\ r[1] = Do("down", button) /\ r[n + 2] = Do("up", button)
      /\ \A i \in 1 .. n : r[i + 1] = p[i]
  BY <1>1, Wrap DEF r
<1>3. /\ r[1].op = "down" /\ r[1].arg = button
      /\ r[n + 2].op = "up"
  BY <1>2 DEF Do
<1>4. \A i \in 1 .. n + 2 : i = 1 \/ i = n + 2
   \/ (i - 1 \in 1 .. n /\ r[i] = p[i - 1])
  BY <1>1, <1>2
<1>5. Releases(r, n + 2)
  <2> SUFFICES ASSUME NEW i \in 1 .. n + 2, r[i].op = "down"
               PROVE  \E j \in i + 1 .. n + 2 : r[j] = Do("up", r[i].arg)
    BY DEF Releases
  <2>1. CASE i = 1
    <3>1. n + 2 \in i + 1 .. n + 2
      BY <1>1, <2>1
    <3> QED
      BY <1>2, <1>3, <2>1, <3>1
  <2>2. CASE i # 1
    <3>1. i - 1 \in 1 .. n /\ r[i] = p[i - 1]
      BY <1>3, <1>4, <2>2
    <3>2. PICK j \in i - 1 + 1 .. n : p[j] = Do("up", p[i - 1].arg)
      BY <3>1 DEF Inner, Releases
    <3>3. j \in 1 .. n /\ j + 1 \in i + 1 .. n + 2
      BY <1>1, <3>1, <3>2
    <3> QED
      BY <1>2, <3>1, <3>2, <3>3
  <2> QED
    BY <2>1, <2>2
<1>6. \A i \in 1 .. n + 2 : r[i].op # "focus"
  BY <1>3, <1>4 DEF Inner
<1> PICK D : Depths(p, n, D) /\ D[0] = 0 /\ D[n] = 0
  BY DEF Inner
<1> DEFINE E == [i \in 0 .. n + 2 |-> IF i = 0 \/ i = n + 2 THEN 0 ELSE D[i - 1]]
<1>7. /\ E \in [0 .. n + 2 -> Nat]
      /\ E[0] = 0 /\ E[n + 2] = 0 /\ E[1] = 0 /\ E[n + 1] = 0
      /\ \A i \in 1 .. n + 1 : E[i] = D[i - 1]
  BY <1>1 DEF Depths
<1> HIDE DEF E
<1>8. \A i \in 1 .. n + 2 : E[i] = E[i - 1] + Delta(r[i])
  <2> SUFFICES ASSUME NEW i \in 1 .. n + 2 PROVE E[i] = E[i - 1] + Delta(r[i])
    OBVIOUS
  <2>1. CASE i = 1
    BY <1>3, <1>7, <2>1 DEF Delta
  <2>2. CASE i = n + 2
    <3>1. Delta(r[i]) = 0
      BY <1>3, <2>2 DEF Delta
    <3>2. E[i] = 0 /\ E[i - 1] = 0
      BY <1>1, <1>7, <2>2
    <3> QED
      BY <3>1, <3>2
  <2>3. CASE i # 1 /\ i # n + 2
    <3>1. i - 1 \in 1 .. n /\ r[i] = p[i - 1]
      BY <1>4, <2>3
    <3>2. E[i] = D[i - 1] /\ E[i - 1] = D[i - 1 - 1]
      BY <1>1, <1>7, <3>1
    <3>3. D[i - 1] = D[i - 1 - 1] + Delta(p[i - 1])
      BY <3>1 DEF Depths
    <3> QED
      BY <3>1, <3>2, <3>3
  <2> QED
    BY <2>1, <2>2, <2>3
<1>9. Depths(r, n + 2, E)
  BY <1>7, <1>8 DEF Depths
<1> QED
  BY <1>2, <1>5, <1>6, <1>7, <1>9 DEF Inner, r

\* A focus, and then a call.
LEMMA RestFocus ==
    ASSUME NEW p, NEW n, Rest(p, n, 0), NEW hwnd
    PROVE  Rest(<<Do("focus", hwnd)>> \o p, 1 + n, 0)
<1> DEFINE a == <<Do("focus", hwnd)>>
           r == a \o p
<1>1. n \in Nat /\ Steps(p, n)
  BY DEF Rest, Steps
<1>2. Steps(a, 1) /\ a[1] = Do("focus", hwnd)
  BY Unit
<1>3. Joined(a, 1, p, n, r)
  <2> HIDE DEF a
  <2> QED  BY <1>1, <1>2, Join
<1> HIDE DEF a, r
<1>4. Steps(r, 1 + n)
  BY <1>3 DEF Joined
<1>5. r[1] = a[1] /\ \A i \in 1 .. n : r[i + 1] = p[i]
  BY <1>1, <1>3 DEF Joined
<1>6. r[1].op = "focus"
  BY <1>2, <1>5 DEF Do
<1>7. \A i \in 1 .. 1 + n : i = 1 \/ (i - 1 \in 1 .. n /\ r[i] = p[i - 1])
  BY <1>1, <1>5
<1>8. Releases(r, 1 + n)
  <2> SUFFICES ASSUME NEW i \in 1 .. 1 + n, r[i].op = "down"
               PROVE  \E j \in i + 1 .. 1 + n : r[j] = Do("up", r[i].arg)
    BY DEF Releases
  <2>1. i - 1 \in 1 .. n /\ r[i] = p[i - 1]
    BY <1>6, <1>7
  <2>2. PICK j \in i - 1 + 1 .. n : p[j] = Do("up", p[i - 1].arg)
    BY <2>1 DEF Rest, Releases
  <2>3. j \in 1 .. n /\ j + 1 \in i + 1 .. 1 + n
    BY <1>1, <2>1, <2>2
  <2> QED
    BY <1>5, <2>1, <2>2, <2>3
<1> PICK D :
      /\ Depths(p, n, D) /\ D[0] = 0 /\ D[n] = 0
      /\ \A i \in 1 .. n :
            /\ p[i].op \in EventOps => D[i - 1] > 0
            /\ D[i] = 0 /\ i < n => \A j \in 1 .. i : p[j].op = "focus"
  BY DEF Rest
<1> DEFINE E == [i \in 0 .. 1 + n |-> IF i = 0 THEN 0 ELSE D[i - 1]]
<1>9. /\ E \in [0 .. 1 + n -> Nat]
      /\ E[0] = 0 /\ E[1] = 0 /\ E[1 + n] = 0
      /\ \A i \in 1 .. 1 + n : E[i] = D[i - 1]
  BY <1>1 DEF Depths
<1> HIDE DEF E
<1>10. Depths(r, 1 + n, E)
  <2> SUFFICES ASSUME NEW i \in 1 .. 1 + n PROVE E[i] = E[i - 1] + Delta(r[i])
    BY <1>9 DEF Depths
  <2>1. CASE i = 1
    BY <1>6, <1>9, <2>1 DEF Delta
  <2>2. CASE i # 1
    <3>1. i - 1 \in 1 .. n /\ r[i] = p[i - 1]
      BY <1>7, <2>2
    <3>2. E[i] = D[i - 1] /\ E[i - 1] = D[i - 1 - 1]
      BY <1>1, <1>9, <3>1
    <3> QED
      BY <3>1, <3>2 DEF Depths
  <2> QED
    BY <2>1, <2>2
<1>11. \A i \in 1 .. 1 + n :
          /\ r[i].op \in EventOps => E[i - 1] > 0
          /\ E[i] = 0 /\ i < 1 + n => \A j \in 1 .. i : r[j].op = "focus"
  <2> SUFFICES ASSUME NEW i \in 1 .. 1 + n
               PROVE  /\ r[i].op \in EventOps => E[i - 1] > 0
                      /\ E[i] = 0 /\ i < 1 + n
                           => \A j \in 1 .. i : r[j].op = "focus"
    OBVIOUS
  <2>1. CASE i = 1
    BY <1>6, <2>1 DEF EventOps
  <2>2. CASE i # 1
    <3>1. i - 1 \in 1 .. n /\ r[i] = p[i - 1]
      BY <1>7, <2>2
    <3>2. E[i] = D[i - 1] /\ E[i - 1] = D[i - 1 - 1]
      BY <1>1, <1>9, <3>1
    <3>3. r[i].op \in EventOps => E[i - 1] > 0
      BY <3>1, <3>2
    <3>4. ASSUME E[i] = 0, i < 1 + n, NEW j \in 1 .. i
          PROVE  r[j].op = "focus"
      <4>1. \A k \in 1 .. i - 1 : p[k].op = "focus"
        <5>1. D[i - 1] = 0 /\ i - 1 < n
          BY <1>1, <3>2, <3>4
        <5> QED
          BY <3>1, <5>1
      <4>2. j = 1 \/ (j - 1 \in 1 .. i - 1 /\ r[j] = p[j - 1])
        BY <1>1, <1>7, <3>4
      <4> QED
        BY <1>6, <4>1, <4>2
    <3> QED
      BY <3>3, <3>4
  <2> QED
    BY <2>1, <2>2
<1> QED
  BY <1>4, <1>8, <1>9, <1>10, <1>11 DEF Rest, r, a

-----------------------------------------------------------------------------
(* The calls of InputTools.                                                *)

Balanced(p) == \E n : Inner(p, n)
Whole(p) == \E n : Rest(p, n, 0)

LEMMA BalancedEvent ==
    ASSUME NEW s, s.op \in EventOps \ {"down"} PROVE Balanced(<<s>>)
<1>1. Steps(<<s>>, 1) /\ <<s>>[1] = s
  BY Unit
<1>2. Releases(<<s>>, 1) /\ \A i \in 1 .. 1 : <<s>>[i].op \in EventOps
  BY <1>1 DEF Releases
<1> QED
  BY <1>1, <1>2, InnerFlat DEF Balanced

LEMMA BalancedEmpty == Balanced(<<>>)
<1>1. Steps(<<>>, 0)
  BY DEF Steps
<1>2. Releases(<<>>, 0) /\ \A i \in 1 .. 0 : <<>>[i].op \in EventOps
  BY DEF Releases
<1> QED
  BY <1>1, <1>2, InnerFlat DEF Balanced

LEMMA BalancedJoin ==
    ASSUME NEW p, NEW q, Balanced(p), Balanced(q) PROVE Balanced(p \o q)
BY InnerJoin DEF Balanced

LEMMA BalancedLocked ==
    ASSUME NEW p, Balanced(p) PROVE Balanced(Locked(p)) /\ Whole(Locked(p))
BY InnerLocked DEF Balanced, Whole

LEMMA EventDo ==
    \A arg : /\ Do("move", arg).op \in EventOps \ {"down"}
             /\ Do("wheel", arg).op \in EventOps \ {"down"}
             /\ Do("down", arg).op = "down" /\ Do("down", arg).arg = arg
             /\ Do("up", arg).op \in EventOps \ {"down"}
             /\ Do("char", arg).op \in EventOps \ {"down"}
BY DEF Do, EventOps

\* humanMouseMove and the movement before a click.
LEMMA MoveCalls ==
    ASSUME NEW place, NEW path
    PROVE  /\ Balanced(HumanMouseMove(place, path))
           /\ Whole(HumanMouseMove(place, path))
           /\ Balanced(MoveTo(place, path))
<1>1. \A to : Balanced(<<Do("move", to)>>)
  BY EventDo, BalancedEvent
<1> DEFINE way == IF path = "far" THEN <<Do("move", "on the way")>> ELSE <<>>
<1>2. Balanced(way)
  BY <1>1, BalancedEmpty
<1>3. Balanced(way \o <<Do("move", place)>>)
  <2> HIDE DEF way
  <2> QED  BY <1>1, <1>2, BalancedJoin
<1>4. Balanced(HumanMouseMove(place, path)) /\ Whole(HumanMouseMove(place, path))
  BY <1>3, BalancedLocked DEF HumanMouseMove
<1> QED
  BY <1>1, <1>4 DEF MoveTo

\* Two movements, or a button that is pressed and released.
LEMMA BalancedPair ==
    ASSUME NEW x, NEW y, x.op \in EventOps, y.op \in EventOps \ {"down"},
           x.op = "down" => y = Do("up", x.arg)
    PROVE  Balanced(<<x, y>>)
<1> DEFINE p == <<x, y>>
<1>1. Steps(p, 2) /\ p[1] = x /\ p[2] = y
  <2>1. p \in [1 .. 2 -> {x, y}]
    OBVIOUS
  <2> QED
    BY <2>1 DEF Steps
<1> HIDE DEF p
<1>2. \A i \in 1 .. 2 : i = 1 \/ i = 2
  OBVIOUS
<1>3. Releases(p, 2)
  BY <1>1, <1>2 DEF Releases
<1>4. \A i \in 1 .. 2 : p[i].op \in EventOps
  BY <1>1, <1>2
<1> QED
  BY <1>1, <1>3, <1>4, InnerFlat DEF Balanced, p

LEMMA BalancedPress ==
    ASSUME NEW key PROVE Balanced(<<Do("down", key), Do("up", key)>>)
<1>1. Do("down", key).op \in EventOps
  BY DEF Do, EventOps
<1> QED
  BY <1>1, EventDo, BalancedPair

LEMMA ClickCalls ==
    ASSUME NEW place, NEW button, NEW path
    PROVE  Balanced(Click(place, button, path)) /\ Whole(Click(place, button, path))
BY MoveCalls, BalancedPress, BalancedJoin, BalancedLocked DEF Click

LEMMA DoubleClickCalls ==
    ASSUME NEW place, NEW path
    PROVE  Whole(DoubleClick(place, path))
BY ClickCalls, BalancedJoin, BalancedLocked DEF DoubleClick

LEMMA ScrollCalls ==
    ASSUME NEW place, NEW path
    PROVE  Whole(Scroll(place, path))
BY MoveCalls, EventDo, BalancedEvent, BalancedJoin, BalancedLocked DEF Scroll

LEMMA Associative ==
    ASSUME NEW p, NEW q, NEW r, NEW m, NEW n, NEW l,
           Steps(p, m), Steps(q, n), Steps(r, l)
    PROVE  (p \o q) \o r = p \o (q \o r)
<1>1. PICK S : p \in Seq(S)
  BY StepsSeq
<1>2. PICK T : q \in Seq(T)
  BY StepsSeq
<1>3. PICK U : r \in Seq(U)
  BY StepsSeq
<1> DEFINE V == S \cup T \cup U
<1>4. p \in Seq(V)
  BY <1>1, SeqMonotonic
<1>5. q \in Seq(V)
  BY <1>2, SeqMonotonic
<1>6. r \in Seq(V)
  BY <1>3, SeqMonotonic
<1> HIDE DEF V
<1>7. \A s, t, u \in Seq(V) : (s \o t) \o u = s \o (t \o u)
  BY ConcatAssociative
<1> QED
  BY <1>4, <1>5, <1>6, <1>7

\* The way of a drag, with the button held.
LEMMA BalancedDrag ==
    ASSUME NEW p, NEW q, Balanced(p), Balanced(q), NEW button
    PROVE  Balanced(((p \o <<Do("down", button)>>) \o q) \o <<Do("up", button)>>)
<1> DEFINE a == <<Do("down", button)>>
           z == <<Do("up", button)>>
<1> PICK m : Inner(p, m)
  BY DEF Balanced
<1> PICK n : Inner(q, n)
  BY DEF Balanced
<1>1. Inner((a \o q) \o z, n + 2)
  BY InnerHeld DEF Wrapped
<1>2. Steps(p, m) /\ Steps(q, n) /\ Steps(a, 1) /\ Steps(z, 1)
  BY Unit DEF Inner
<1>3. Balanced(p \o ((a \o q) \o z))
  <2> HIDE DEF a, z
  <2> QED  BY <1>1, BalancedJoin DEF Balanced
<1> HIDE DEF a, z
<1>4. Steps(a \o q, 1 + n)
  BY <1>2, Join DEF Joined
<1>5. (p \o a) \o q = p \o (a \o q)
  BY <1>2, Associative
<1>6. (p \o (a \o q)) \o z = p \o ((a \o q) \o z)
  BY <1>2, <1>4, Associative
<1> QED
  BY <1>3, <1>5, <1>6 DEF a, z

LEMMA DragCalls ==
    ASSUME NEW from, NEW to, NEW path
    PROVE  Whole(Drag(from, to, path))
<1> DEFINE q == IF path = "jump" THEN <<Do("move", "on the way"), Do("move", to)>>
                ELSE MoveTo(to, path)
<1>1. Balanced(<<Do("move", "on the way"), Do("move", to)>>)
  <2> DEFINE u == Do("move", "on the way")
             v == Do("move", to)
  <2>1. u.op \in EventOps \ {"down"} /\ v.op \in EventOps \ {"down"}
    BY EventDo
  <2> HIDE DEF u, v
  <2>2. Balanced(<<u, v>>)
    BY <2>1, BalancedPair
  <2> QED
    BY <2>2 DEF u, v
<1>2. Balanced(q)
  BY <1>1, MoveCalls
<1> HIDE DEF q
<1>3. Balanced(((MoveTo(from, path) \o <<Do("down", "left")>>) \o q) \o <<Do("up", "left")>>)
  BY <1>2, MoveCalls, BalancedDrag
<1> QED
  BY <1>3, BalancedLocked DEF Drag, q

\* What is pressed for a combination is released in it.
LEMMA KeyCalls ==
    ASSUME NEW S, NEW mods \in Seq(S), NEW keys \in Seq(S)
    PROVE  Whole(KeyPress(mods, keys))
<1> DEFINE m == Len(mods)
           n == 2 * Len(keys)
           a == [i \in 1 .. m |-> Do("down", mods[i])]
           b == [i \in 1 .. n |->
                    Do(IF i % 2 = 1 THEN "down" ELSE "up", keys[(i + 1) \div 2])]
           c == [i \in 1 .. m |-> Do("up", mods[m + 1 - i])]
           ab == a \o b
           r == ab \o c
<1>1. m \in Nat /\ n \in Nat
  BY LenProperties
<1>2. KeyPress(mods, keys) = Locked(r)
  BY LenProperties DEF KeyPress
<1>3. Steps(a, m) /\ Steps(b, n) /\ Steps(c, m)
  <2>1. a \in [1 .. m -> {a[i] : i \in 1 .. m}]
    OBVIOUS
  <2>2. b \in [1 .. n -> {b[i] : i \in 1 .. n}]
    OBVIOUS
  <2>3. c \in [1 .. m -> {c[i] : i \in 1 .. m}]
    OBVIOUS
  <2> HIDE DEF a, b, c, m, n
  <2> QED
    BY <1>1, <2>1, <2>2, <2>3 DEF Steps
<1>4. Joined(a, m, b, n, ab)
  <2> HIDE DEF a, b, m, n
  <2> QED  BY <1>3, Join
<1>5. Joined(ab, m + n, c, m, r)
  <2>1. Steps(ab, m + n)
    <3> HIDE DEF ab, m, n
    <3> QED  BY <1>4 DEF Joined
  <2> HIDE DEF ab, c, m, n
  <2> QED  BY <1>3, <2>1, Join
<1>6. \A i \in 1 .. m : a[i] = Do("down", mods[i])
   /\ c[i] = Do("up", mods[m + 1 - i])
  OBVIOUS
<1>7. \A i \in 1 .. n :
         b[i] = Do(IF i % 2 = 1 THEN "down" ELSE "up", keys[(i + 1) \div 2])
  OBVIOUS
<1> HIDE DEF m, n, a, b, c, ab, r
<1>8. \A i \in 1 .. (m + n) + m :
         \/ i \in 1 .. m /\ r[i] = a[i]
         \/ i - m \in 1 .. n /\ r[i] = b[i - m]
         \/ i - (m + n) \in 1 .. m /\ r[i] = c[i - (m + n)]
  BY <1>1, <1>4, <1>5 DEF Joined
<1>9. \A i \in 1 .. m : r[m + n + (m + 1 - i)] = Do("up", mods[i])
  <2> TAKE i \in 1 .. m
  <2> DEFINE k == m + 1 - i
  <2>1. k \in 1 .. m /\ m + 1 - k = i
    BY <1>1
  <2> HIDE DEF k
  <2> DEFINE j == m + n + k
  <2>2. j \in 1 .. (m + n) + m /\ ~(j <= m + n) /\ j - (m + n) = k
    BY <1>1, <2>1
  <2> HIDE DEF j
  <2>3. r[j] = c[k]
    BY <1>5, <2>2 DEF Joined
  <2>4. c[k] = Do("up", mods[i])
    BY <1>6, <2>1
  <2> QED
    BY <2>3, <2>4 DEF j, k
<1>10. \A i \in 1 .. n : r[m + i] = b[i]
  BY <1>1, <1>4, <1>5 DEF Joined
<1>11. Releases(r, (m + n) + m)
  <2> SUFFICES ASSUME NEW i \in 1 .. (m + n) + m, r[i].op = "down"
               PROVE  \E j \in i + 1 .. (m + n) + m : r[j] = Do("up", r[i].arg)
    BY DEF Releases
  <2>1. CASE i \in 1 .. m /\ r[i] = a[i]
    <3>1. r[i].arg = mods[i]
      BY <1>6, <2>1, EventDo
    <3>2. m + n + (m + 1 - i) \in i + 1 .. (m + n) + m
      BY <1>1, <2>1
    <3> QED
      BY <1>9, <2>1, <3>1, <3>2
  <2>2. CASE i - m \in 1 .. n /\ r[i] = b[i - m]
    <3> DEFINE k == i - m
    <3>1. k \in 1 .. n /\ k \in Nat /\ r[i] = b[k] /\ i = m + k
      BY <1>1, <2>2
    <3> HIDE DEF k
    <3>2. k % 2 = 1
      BY <1>7, <2>2, <3>1, EventDo
    <3>3. r[i].arg = keys[(k + 1) \div 2]
      BY <1>7, <3>1, <3>2, EventDo
    <3>4. k + 1 \in 1 .. n
      <4>1. n % 2 = 0
        BY LenProperties DEF n
      <4> QED
        BY <1>1, <3>1, <3>2, <4>1
    <3>5. (k + 1) % 2 # 1 /\ (k + 1 + 1) \div 2 = (k + 1) \div 2
      BY <3>1, <3>2
    <3>6. b[k + 1] = Do("up", keys[(k + 1) \div 2])
      BY <1>7, <3>4, <3>5
    <3>7. r[m + (k + 1)] = b[k + 1]
      BY <1>10, <3>4
    <3>8. m + (k + 1) \in i + 1 .. (m + n) + m
      BY <1>1, <3>1, <3>4
    <3> QED
      BY <3>3, <3>6, <3>7, <3>8
  <2>3. CASE i - (m + n) \in 1 .. m /\ r[i] = c[i - (m + n)]
    BY <1>6, <2>3, EventDo
  <2> QED
    BY <1>8, <2>1, <2>2, <2>3
<1>12. \A i \in 1 .. (m + n) + m : r[i].op \in EventOps
  <2>1. \A i \in 1 .. m : a[i].op \in EventOps /\ c[i].op \in EventOps
    BY <1>6, EventDo DEF EventOps
  <2>2. \A i \in 1 .. n : b[i].op \in EventOps
    BY <1>7, EventDo DEF EventOps
  <2> QED
    BY <1>8, <2>1, <2>2
<1>13. Inner(r, (m + n) + m)
  BY <1>5, <1>11, <1>12, InnerFlat DEF Joined
<1> QED
  BY <1>2, <1>13, BalancedLocked DEF Balanced

LEMMA TypeCalls ==
    ASSUME NEW text, NEW n, Steps(text, n)
    PROVE  Whole(TypeText(text))
<1> DEFINE p == [i \in 1 .. n |-> Do("char", text[i])]
<1>1. n \in Nat /\ DOMAIN text = 1 .. n
  BY DEF Steps
<1>2. TypeText(text) = Locked(p)
  BY <1>1 DEF TypeText
<1>3. Steps(p, n)
  <2>1. p \in [1 .. n -> {p[i] : i \in 1 .. n}]
    OBVIOUS
  <2> HIDE DEF p
  <2> QED
    BY <1>1, <2>1 DEF Steps
<1>4. \A i \in 1 .. n : p[i].op \in EventOps \ {"down"}
  BY EventDo
<1> HIDE DEF p
<1>5. Inner(p, n)
  BY <1>3, <1>4, InnerFlat DEF Releases
<1> QED
  BY <1>2, <1>5, BalancedLocked DEF Balanced

\* Every call that the tools and the script can make is whole.
LEMMA CallsWhole ==
    /\ \A call \in Calls : Whole(call)
    /\ \A hwnd, place, button, path :
          Whole(<<Do("focus", hwnd)>> \o Click(place, button, path))
    /\ Whole(TypeText(<<"x", "y">>))
    /\ \A hwnd : Whole(<<Do("focus", hwnd)>> \o KeyPress(<<"ctrl">>, <<"s">>))
<1>1. ASSUME NEW call \in Calls PROVE Whole(call)
  <2>1. ASSUME NEW p \in Places, NEW q \in Places, NEW w \in Paths,
               call \in {HumanMouseMove(p, w), DoubleClick(p, w), Drag(p, q, w), Scroll(p, w)}
        PROVE  Whole(call)
    <3>1. Whole(HumanMouseMove(p, w))
      BY MoveCalls
    <3>2. Whole(DoubleClick(p, w)) /\ Whole(Drag(p, q, w)) /\ Whole(Scroll(p, w))
      BY DoubleClickCalls, DragCalls, ScrollCalls
    <3> QED
      BY <2>1, <3>1, <3>2
  <2>2. ASSUME NEW mods \in Words, NEW keys \in Words, call = KeyPress(mods, keys)
        PROVE  Whole(call)
    <3>1. mods \in Seq(Keys) /\ keys \in Seq(Keys)
      BY InputAssumption
    <3> QED
      BY <2>2, <3>1, KeyCalls
  <2>3. ASSUME NEW text \in Words, call = TypeText(text)
        PROVE  Whole(call)
    <3>1. text \in Seq(Keys)
      BY InputAssumption
    <3> QED
      BY <2>3, <3>1, SeqSteps, TypeCalls
  <2>4. \/ \E p, q \in Places, w \in Paths :
              call \in {HumanMouseMove(p, w), DoubleClick(p, w), Drag(p, q, w), Scroll(p, w)}
        \/ \E p \in Places, b \in Buttons, w \in Paths : call = Click(p, b, w)
        \/ \E mods, keys \in Words : call = KeyPress(mods, keys)
        \/ \E text \in Words : call = TypeText(text)
    BY DEF Calls
  <2> QED
    BY <2>1, <2>2, <2>3, <2>4, ClickCalls
<1>2. ASSUME NEW p, Whole(p), NEW hwnd PROVE Whole(<<Do("focus", hwnd)>> \o p)
  BY <1>2, RestFocus DEF Whole
<1>3. Whole(TypeText(<<"x", "y">>))
  <2>1. <<"x", "y">> \in Seq({"x", "y"})
    OBVIOUS
  <2> QED
    BY <2>1, SeqSteps, TypeCalls
<1>4. Whole(KeyPress(<<"ctrl">>, <<"s">>))
  <2>1. <<"ctrl">> \in Seq({"ctrl", "s"}) /\ <<"s">> \in Seq({"ctrl", "s"})
    OBVIOUS
  <2> QED
    BY <2>1, KeyCalls
<1>5. \A hwnd, place, button, path :
         Whole(<<Do("focus", hwnd)>> \o Click(place, button, path))
  BY <1>2, ClickCalls
<1>6. \A hwnd : Whole(<<Do("focus", hwnd)>> \o KeyPress(<<"ctrl">>, <<"s">>))
  BY <1>2, <1>4
<1> QED
  BY <1>1, <1>3, <1>5, <1>6

-----------------------------------------------------------------------------
(* The invariant.                                                          *)

Holds(o, k, c) == IF o = c THEN k ELSE 0

\* What is left of a call fits how often its caller holds the mutex, so that who
\* has begun to send events is the owner, and what is down its call releases.
InputInv ==
    /\ prog = [c \in Callers |-> prog[c]]
    /\ owner \in Callers \cup {NoOne} /\ count \in Nat
    /\ owner = NoOne <=> count = 0
    /\ \A c \in Callers : \E n : Rest(prog[c], n, Holds(owner, count, c))
    /\ begun \subseteq Callers
    /\ \A c \in begun : owner = c /\ prog[c] # <<>>
    /\ \A key \in down : \E c \in begun : Contains(prog[c], Do("up", key))

LEMMA StepsLen ==
    ASSUME NEW p, NEW n, Steps(p, n)
    PROVE  \A x : Contains(p, x) <=> \E i \in 1 .. n : p[i] = x
BY StepsSeq DEF Contains

\* What one step leaves of a call.
LEMMA TailRest ==
    ASSUME NEW p, NEW n, NEW d \in Nat, Rest(p, n, d), p # <<>>
    PROVE  /\ d + Delta(Head(p)) \in Nat
           /\ Rest(Tail(p), n - 1, d + Delta(Head(p)))
           /\ Head(p).op \in EventOps => d > 0
           /\ Tail(p) # <<>> /\ d + Delta(Head(p)) = 0 => Head(p).op = "focus"
           /\ Tail(p) = <<>> => d + Delta(Head(p)) = 0
           /\ Head(p).op = "down" => Contains(Tail(p), Do("up", Head(p).arg))
           /\ \A x : Contains(p, x) /\ x # Head(p) => Contains(Tail(p), x)
<1> DEFINE t == Tail(p)
           s == Head(p)
<1>1. Steps(p, n) /\ Releases(p, n)
  BY DEF Rest
<1>2. /\ n \in Nat \ {0} /\ Steps(t, n - 1) /\ s = p[1]
      /\ \A i \in 1 .. n - 1 : t[i] = p[i + 1]
      /\ t = <<>> <=> n = 1
  BY <1>1, TailFacts
<1>3. /\ \A x : Contains(p, x) <=> \E i \in 1 .. n : p[i] = x
      /\ \A x : Contains(t, x) <=> \E i \in 1 .. n - 1 : t[i] = x
  <2>1. \A x : Contains(p, x) <=> \E i \in 1 .. n : p[i] = x
    BY <1>1, StepsLen
  <2> HIDE DEF t
  <2>2. \A x : Contains(t, x) <=> \E i \in 1 .. n - 1 : t[i] = x
    BY <1>2, StepsLen
  <2> QED
    BY <2>1, <2>2
<1> PICK D :
      /\ Depths(p, n, D) /\ D[0] = d /\ D[n] = 0
      /\ \A i \in 1 .. n :
            /\ p[i].op \in EventOps => D[i - 1] > 0
            /\ D[i] = 0 /\ i < n => \A j \in 1 .. i : p[j].op = "focus"
  BY DEF Rest
<1> HIDE DEF t, s
<1>4. D[1] = d + Delta(s) /\ D[1] \in Nat
  BY <1>2 DEF Depths
<1>5. s.op \in EventOps => d > 0
  BY <1>2
<1>6. t # <<>> /\ D[1] = 0 => s.op = "focus"
  BY <1>2
<1>7. t = <<>> => D[1] = 0
  BY <1>2
<1>8. s.op = "down" => Contains(t, Do("up", s.arg))
  <2> SUFFICES ASSUME s.op = "down" PROVE Contains(t, Do("up", s.arg))
    OBVIOUS
  <2> PICK j \in 1 + 1 .. n : p[j] = Do("up", s.arg)
    BY <1>1, <1>2 DEF Releases
  <2>1. j - 1 \in 1 .. n - 1 /\ t[j - 1] = p[j]
    BY <1>2
  <2> QED
    BY <1>3, <2>1
<1>9. \A x : Contains(p, x) /\ x # s => Contains(t, x)
  <2> SUFFICES ASSUME NEW x, Contains(p, x), x # s PROVE Contains(t, x)
    OBVIOUS
  <2> PICK j \in 1 .. n : p[j] = x
    BY <1>3
  <2>1. j - 1 \in 1 .. n - 1 /\ t[j - 1] = p[j]
    BY <1>2
  <2> QED
    BY <1>3, <2>1
<1>10. Releases(t, n - 1)
  <2> SUFFICES ASSUME NEW i \in 1 .. n - 1, t[i].op = "down"
               PROVE  \E j \in i + 1 .. n - 1 : t[j] = Do("up", t[i].arg)
    BY DEF Releases
  <2>1. i + 1 \in 1 .. n /\ t[i] = p[i + 1]
    BY <1>2
  <2> PICK j \in i + 1 + 1 .. n : p[j] = Do("up", p[i + 1].arg)
    BY <1>1, <2>1 DEF Releases
  <2>2. j - 1 \in i + 1 .. n - 1 /\ t[j - 1] = p[j]
    BY <1>2
  <2> QED
    BY <2>1, <2>2
<1> DEFINE E == [i \in 0 .. n - 1 |-> D[i + 1]]
<1>11. /\ E \in [0 .. n - 1 -> Nat]
       /\ E[0] = D[1] /\ E[n - 1] = 0
       /\ \A i \in 1 .. n - 1 : E[i] = D[i + 1] /\ E[i - 1] = D[i]
  BY <1>2 DEF Depths
<1> HIDE DEF E
<1>12. Depths(t, n - 1, E)
  <2> SUFFICES ASSUME NEW i \in 1 .. n - 1 PROVE E[i] = E[i - 1] + Delta(t[i])
    BY <1>11 DEF Depths
  <2>1. i + 1 \in 1 .. n /\ i + 1 - 1 = i /\ t[i] = p[i + 1]
    BY <1>2
  <2>2. D[i + 1] = D[i + 1 - 1] + Delta(p[i + 1])
    BY <2>1 DEF Depths
  <2> QED
    BY <1>11, <2>1, <2>2
<1>13. \A i \in 1 .. n - 1 :
          /\ t[i].op \in EventOps => E[i - 1] > 0
          /\ E[i] = 0 /\ i < n - 1 => \A j \in 1 .. i : t[j].op = "focus"
  <2> SUFFICES ASSUME NEW i \in 1 .. n - 1
               PROVE  /\ t[i].op \in EventOps => E[i - 1] > 0
                      /\ E[i] = 0 /\ i < n - 1
                           => \A j \in 1 .. i : t[j].op = "focus"
    OBVIOUS
  <2>1. i + 1 \in 1 .. n /\ i + 1 - 1 = i /\ t[i] = p[i + 1]
    BY <1>2
  <2>2. t[i].op \in EventOps => E[i - 1] > 0
    BY <1>11, <2>1
  <2>3. ASSUME E[i] = 0, i < n - 1, NEW j \in 1 .. i PROVE t[j].op = "focus"
    <3>1. D[i + 1] = 0 /\ i + 1 < n
      <4>1. D[i + 1] = 0
        BY <1>11, <2>3
      <4>2. i + 1 < n
        BY <1>2, <2>3
      <4> QED
        BY <4>1, <4>2
    <3>2. j + 1 \in 1 .. i + 1 /\ t[j] = p[j + 1]
      BY <1>2, <2>3
    <3>3. \A k \in 1 .. i + 1 : p[k].op = "focus"
      BY <2>1, <3>1
    <3> QED
      BY <3>2, <3>3
  <2> QED
    BY <2>2, <2>3
<1>14. Rest(t, n - 1, D[1])
  <2> DEFINE k == n - 1
  <2>1. /\ Depths(t, k, E) /\ E[0] = D[1] /\ E[k] = 0
        /\ \A i \in 1 .. k :
              /\ t[i].op \in EventOps => E[i - 1] > 0
              /\ E[i] = 0 /\ i < k => \A j \in 1 .. i : t[j].op = "focus"
    BY <1>11, <1>12, <1>13
  <2>2. Steps(t, k) /\ Releases(t, k)
    BY <1>2, <1>10
  <2> HIDE DEF k
  <2> QED
    BY <2>1, <2>2 DEF Rest, k
<1> QED
  BY <1>4, <1>5, <1>6, <1>7, <1>8, <1>9, <1>14 DEF s, t

\* A call that is made begins with the mutex not held.
LEMMA EmptyRest ==
    ASSUME NEW n, NEW d, Rest(<<>>, n, d) PROVE d = 0
<1>1. n = 0
  <2>1. Steps(<<>>, n)
    BY DEF Rest
  <2> PICK S : <<>> \in Seq(S) /\ Len(<<>>) = n
    BY <2>1, StepsSeq
  <2> QED
    BY EmptySeq
<1> QED
  BY <1>1 DEF Rest


\* A caller takes the next step of its call.
Takes(c) ==
    LET s == Head(prog[c]) IN
    /\ prog[c] # <<>> /\ Go(c)
    /\ owner' \in Callers \cup {NoOne} /\ count' \in Nat
    /\ owner' = NoOne <=> count' = 0
    /\ Holds(owner', count', c) = Holds(owner, count, c) + Delta(s)
    /\ \A e \in Callers \ {c} : Holds(owner', count', e) = Holds(owner, count, e)
    /\ \A key \in down' : key \in down \/ (s.op = "down" /\ key = s.arg)
    /\ s.op = "up" => s.arg \notin down'

LEMMA TakesKeeps ==
    ASSUME InputInv, NEW c \in Callers, Takes(c)
    PROVE  InputInv'
<1> DEFINE s == Head(prog[c])
           t == Tail(prog[c])
           before == Holds(owner, count, c)
           after == Holds(owner', count', c)
<1>1. PICK n : Rest(prog[c], n, before)
  BY DEF InputInv
<1>2. before \in Nat /\ after = before + Delta(s) /\ prog[c] # <<>>
  BY DEF Takes, Holds, InputInv
<1>3. /\ after \in Nat /\ Rest(t, n - 1, after)
      /\ s.op \in EventOps => before > 0
      /\ t # <<>> /\ after = 0 => s.op = "focus"
      /\ s.op = "down" => Contains(t, Do("up", s.arg))
      /\ \A x : Contains(prog[c], x) /\ x # s => Contains(t, x)
  <2> HIDE DEF before, after
  <2> QED
    BY <1>1, <1>2, TailRest
<1>4. /\ prog' = [prog EXCEPT ![c] = t]
      /\ begun' = IF t = <<>> THEN begun \ {c}
                  ELSE IF s.op \in EventOps THEN begun \cup {c} ELSE begun
  BY DEF Takes, Go, At, Free, EventOps
<1>5. prog' = [e \in Callers |-> prog'[e]] /\ prog'[c] = t
      /\ \A e \in Callers \ {c} : prog'[e] = prog[e]
  BY <1>4 DEF InputInv
<1>6. \A e \in Callers : \E k : Rest(prog'[e], k, Holds(owner', count', e))
  <2> TAKE e \in Callers
  <2>1. CASE e = c
    BY <1>3, <1>5, <2>1
  <2>2. CASE e # c
    <3>1. /\ Holds(owner', count', e) = Holds(owner, count, e)
          /\ prog'[e] = prog[e]
      BY <1>5, <2>2 DEF Takes
    <3>2. PICK k : Rest(prog[e], k, Holds(owner, count, e))
      BY DEF InputInv
    <3> QED
      BY <3>1, <3>2
  <2> QED
    BY <2>1, <2>2
<1>7. begun' \subseteq Callers
  BY <1>4 DEF InputInv
<1>8. ASSUME NEW e \in begun' PROVE owner' = e /\ prog'[e] # <<>>
  <2>1. CASE e = c
    <3>1. t # <<>> /\ (c \in begun \/ s.op \in EventOps)
      BY <1>4, <1>8, <2>1
    <3>2. before > 0
      <4>1. c \in begun => before # 0
        BY InputAssumption DEF InputInv, Holds
      <4> HIDE DEF before, s
      <4> QED
        BY <1>2, <1>3, <3>1, <4>1
    <3>3. after # 0
      <4> SUFFICES ASSUME after = 0 PROVE FALSE
        OBVIOUS
      <4>1. s.op = "focus"
        BY <1>3, <3>1
      <4>2. Delta(s) = 0
        BY <4>1 DEF Delta
      <4> QED
        BY <1>2, <3>2, <4>2
    <3> QED
      BY <1>5, <2>1, <3>1, <3>3 DEF Holds
  <2>2. CASE e # c
    <3>1. e \in begun /\ owner = e /\ prog[e] # <<>> /\ e \in Callers
      BY <1>4, <1>8, <2>2 DEF InputInv
    <3>2. Holds(owner', count', e) = Holds(owner, count, e)
      BY <2>2, <3>1 DEF Takes
    <3>3. Holds(owner, count, e) # 0
      BY <3>1, InputAssumption DEF InputInv, Holds
    <3> QED
      BY <1>5, <2>2, <3>1, <3>2, <3>3 DEF Holds
  <2> QED
    BY <2>1, <2>2
<1>9. ASSUME NEW key \in down'
   PROVE \E e \in begun' : Contains(prog'[e], Do("up", key))
  <2>1. CASE s.op = "down" /\ key = s.arg
    <3>1. Contains(t, Do("up", key)) /\ s.op \in EventOps
      BY <1>3, <2>1 DEF EventOps
    <3>2. t # <<>>
      BY <3>1 DEF Contains
    <3> QED
      BY <1>4, <1>5, <3>1, <3>2
  <2>2. CASE key \in down
    <3>1. PICK e \in begun : Contains(prog[e], Do("up", key))
      BY <2>2 DEF InputInv
    <3>2. CASE e # c
      <4>1. e \in begun' /\ prog'[e] = prog[e]
        BY <1>4, <1>5, <3>2 DEF InputInv
      <4> QED
        BY <3>1, <4>1
    <3>3. CASE e = c
      <4>1. Do("up", key) # s
        BY <1>9 DEF Takes, Do
      <4>2. Contains(t, Do("up", key))
        BY <1>3, <3>1, <3>3, <4>1
      <4>3. t # <<>>
        BY <4>2 DEF Contains
      <4>4. c \in begun'
        BY <1>4, <3>3, <4>3
      <4> QED
        BY <1>5, <4>2, <4>4
    <3> QED
      BY <3>2, <3>3
  <2> QED
    BY <1>9, <2>1, <2>2 DEF Takes
<1> QED
  BY <1>5, <1>6, <1>7, <1>8, <1>9 DEF InputInv, Takes

\* A call is made.
LEMMA CallKeeps ==
    ASSUME InputInv, NEW c \in Callers, NEW steps, Whole(steps), Call(c, steps),
           UNCHANGED <<owner, count, down, begun>>
    PROVE  InputInv'
<1>1. prog[c] = <<>> /\ prog' = [prog EXCEPT ![c] = steps]
  BY DEF Call, Free
<1>2. prog' = [e \in Callers |-> prog'[e]] /\ prog'[c] = steps
      /\ \A e \in Callers \ {c} : prog'[e] = prog[e]
  BY <1>1 DEF InputInv
<1>3. Holds(owner, count, c) = 0
  BY <1>1, EmptyRest DEF InputInv
<1>4. \A e \in Callers : \E n : Rest(prog'[e], n, Holds(owner, count, e))
  BY <1>2, <1>3 DEF InputInv, Whole
<1>5. \A e \in begun : prog'[e] = prog[e]
  BY <1>1, <1>2 DEF InputInv
<1> QED
  BY <1>2, <1>4, <1>5 DEF InputInv


LEMMA StepTakes ==
    ASSUME InputInv, NEW c \in Callers,
           \/ InputStep(c)
           \/ At(c, {"focus"}) /\ Go(c) /\ UNCHANGED <<owner, count, down>>
    PROVE  Takes(c)
<1> DEFINE s == Head(prog[c])
<1>1. prog[c] # <<>> /\ Go(c)
  BY DEF InputStep, Lock, Unlock, SendEvent, At, Free
<1>2. /\ owner \in Callers \cup {NoOne} /\ count \in Nat
      /\ owner = NoOne <=> count = 0
      /\ NoOne \notin Callers
  BY InputAssumption DEF InputInv
<1>3. CASE Lock(c)
  <2>1. /\ s.op = "lock" /\ owner \in {c, NoOne}
        /\ owner' = c /\ count' = count + 1 /\ down' = down
    BY <1>3 DEF Lock, At
  <2>2. Delta(s) = 1
    BY <2>1 DEF Delta
  <2>3. Holds(owner', count', c) = Holds(owner, count, c) + Delta(s)
    BY <1>2, <2>1, <2>2 DEF Holds
  <2>4. \A e \in Callers \ {c} : Holds(owner', count', e) = Holds(owner, count, e)
    BY <1>2, <2>1 DEF Holds
  <2>5. count' \in Nat /\ count' # 0
    BY <1>2, <2>1
  <2> QED
    BY <1>1, <1>2, <2>1, <2>3, <2>4, <2>5 DEF Takes
<1>4. CASE Unlock(c)
  <2>1. /\ s.op = "unlock" /\ count' = count - 1 /\ down' = down
        /\ owner' = IF count = 1 THEN NoOne ELSE owner
    BY <1>4 DEF Unlock, At
  <2>2. Delta(s) = -1
    BY <2>1 DEF Delta
  <2>3. Holds(owner, count, c) \in Nat
    BY <1>2 DEF Holds
  <2>4. Holds(owner, count, c) + Delta(s) \in Nat
    <3> PICK n : Rest(prog[c], n, Holds(owner, count, c))
      BY DEF InputInv
    <3> QED
      BY <1>1, <2>3, TailRest
  <2>5. Holds(owner, count, c) > 0
    BY <2>2, <2>3, <2>4
  <2>6. owner = c /\ count > 0
    BY <2>5 DEF Holds
  <2>7. count' \in Nat /\ (count' = 0 <=> count = 1)
    BY <1>2, <2>1, <2>6
  <2>8. Holds(owner', count', c) = Holds(owner, count, c) + Delta(s)
    BY <1>2, <2>1, <2>2, <2>6 DEF Holds
  <2>9. \A e \in Callers \ {c} : Holds(owner', count', e) = Holds(owner, count, e)
    BY <1>2, <2>1, <2>6 DEF Holds
  <2> QED
    BY <1>1, <1>2, <2>1, <2>6, <2>7, <2>8, <2>9 DEF Takes
<1>5. CASE ~Lock(c) /\ ~Unlock(c)
  <2>1. /\ s.op \in EventOps \cup {"focus"} /\ owner' = owner /\ count' = count
        /\ \A key \in down' : key \in down \/ (s.op = "down" /\ key = s.arg)
        /\ s.op = "up" => s.arg \notin down'
    BY <1>5 DEF InputStep, SendEvent, At, EventOps
  <2>2. Delta(s) = 0
    BY <2>1 DEF Delta, EventOps
  <2>3. Holds(owner, count, c) \in Nat
    BY <1>2 DEF Holds
  <2> QED
    BY <1>1, <1>2, <2>1, <2>2, <2>3 DEF Takes
<1> QED
  BY <1>3, <1>4, <1>5

-----------------------------------------------------------------------------
(* The operations of the script make the calls of CallsWhole or none.        *)

\* No event, or a call of the script.
ScriptCalls ==
    /\ UNCHANGED <<owner, count, down, begun>>
    /\ prog' = prog \/ \E steps : Whole(steps) /\ Call(Script, steps)

LEMMA ClickOnCalls ==
    ASSUME NEW e, ClickOn(e), UNCHANGED <<owner, count, down, begun>>
    PROVE  ScriptCalls
BY CallsWhole DEF ClickOn, ScriptCalls

LEMMA FoundCalls ==
    ASSUME NEW tree, NEW act, NEW renewed, Found(tree, act, renewed),
           UNCHANGED <<owner, count, down, begun>>
    PROVE  ScriptCalls
BY ClickOnCalls DEF Found, ScriptCalls

LEMMA OperationCalls ==
    ASSUME Operation PROVE ScriptCalls
<1>1. ASSUME NEW q, NEW type, NEW act, Select(q, type, act) PROVE ScriptCalls
  BY <1>1, FoundCalls DEF Select, ScriptCalls
<1>2. ASSUME NEW q, NEW type, SelectGlobally(q, type) PROVE ScriptCalls
  BY <1>2, FoundCalls DEF SelectGlobally, ScriptCalls
<1>3. CASE PollSelect
  BY <1>3, FoundCalls DEF PollSelect, ScriptCalls
<1>4. CASE PollFocus
  BY <1>4, FoundCalls DEF PollFocus
<1>5. ASSUME NEW q, WaitForWindow(q) PROVE ScriptCalls
  BY <1>5 DEF WaitForWindow, ScriptCalls, inputVars
<1>6. CASE PollWindow
  BY <1>6, FoundCalls DEF PollWindow
<1>7. CASE GiveUp
  BY <1>7 DEF GiveUp, ScriptCalls, inputVars
<1>8. CASE ClickHandle
  BY <1>8, ClickOnCalls DEF ClickHandle
<1>9. CASE TypeOrKey
  BY <1>9, CallsWhole DEF TypeOrKey, ScriptCalls
<1>10. CASE Refresh
  BY <1>10 DEF Refresh, ScriptCalls, inputVars
<1>11. CASE Parent
  BY <1>11 DEF Parent, Moves, ScriptCalls, inputVars
<1>12. CASE Window
  BY <1>12 DEF Window, Moves, ScriptCalls, inputVars
<1> QED
  BY <1>1, <1>2, <1>3, <1>4, <1>5, <1>6, <1>7, <1>8, <1>9, <1>10, <1>11, <1>12
  DEF Operation

LEMMA InputNext ==
    ASSUME InputInv, [Next]_vars PROVE InputInv'
<1>1. ASSUME UNCHANGED inputVars PROVE InputInv'
  BY <1>1 DEF inputVars, InputInv
<1>2. ASSUME ScriptCalls PROVE InputInv'
  <2>1. CASE prog' = prog
    BY <1>1, <1>2, <2>1 DEF ScriptCalls, inputVars
  <2>2. CASE \E steps : Whole(steps) /\ Call(Script, steps)
    BY <1>2, <2>2, CallKeeps, HandleAssumption DEF ScriptCalls
  <2> QED
    BY <1>2, <2>1, <2>2 DEF ScriptCalls
<1>3. CASE Operation
  BY <1>2, <1>3, OperationCalls
<1>4. ASSUME NEW c \in Callers, InputCall(c) PROVE InputInv'
  <2>1. PICK call \in InputCalls : Call(c, call)
    BY <1>4 DEF InputCall
  <2>2. Whole(call)
    BY CallsWhole, HandleAssumption
  <2>3. UNCHANGED <<owner, count, down, begun>>
    BY <1>4 DEF InputCall
  <2> QED
    BY <2>1, <2>2, <2>3, CallKeeps
<1>5. ASSUME NEW c \in Callers, Focus(c) \/ Step(c) PROVE InputInv'
  BY <1>5, StepTakes, TakesKeeps DEF Focus, Step
<1>6. CASE DesktopChanges \/ UserFocuses \/ UNCHANGED vars
  BY <1>1, <1>6 DEF DesktopChanges, UserFocuses, vars
<1> QED
  BY <1>3, <1>4, <1>5, <1>6 DEF Next

LEMMA InputStart == Init => InputInv
<1>1. Rest(<<>>, 0, 0)
  <2> DEFINE D == [i \in 0 .. 0 |-> 0]
  <2>1. Depths(<<>>, 0, D) /\ D[0] = 0
    BY DEF Depths
  <2>2. Steps(<<>>, 0) /\ Releases(<<>>, 0)
    BY DEF Steps, Releases
  <2> HIDE DEF D
  <2> QED
    BY <2>1, <2>2 DEF Rest
<1> QED
  BY <1>1 DEF Init, InputInit, InputInv, Holds

\* The invariant that InputWhole follows from.
THEOREM InputInvariant == Spec => []InputInv
BY InputStart, InputNext, PTL DEF Spec

\* However the callers of the input tools interleave, whatever the calls are and
\* whatever the desktop does: the events of a call stay together, and what is down
\* is released by the call under way (InputTools.cpp:13-17, 115-365).
THEOREM InputCallsAreWhole == Spec => []InputWhole
<1>1. ASSUME InputInv PROVE InputWhole
  <2>1. \A c \in begun : begun = {c}
    BY <1>1 DEF InputInv
  <2>2. Cardinality(begun) <= 1
    <3>1. Cardinality({}) = 0 /\ \A c : Cardinality({c}) = 1
      BY FS_EmptySet, FS_Singleton
    <3>2. CASE begun = {}
      BY <3>1, <3>2
    <3>3. ASSUME NEW c \in begun PROVE Cardinality(begun) <= 1
      BY <2>1, <3>1, <3>3
    <3> QED
      BY <3>2, <3>3
  <2> QED
    BY <1>1, <2>2 DEF InputInv, InputWhole
<1> QED
  BY <1>1, InputInvariant, PTL

-----------------------------------------------------------------------------
(* The trees and the searches in them.                                     *)

\* A non-empty set of numbers has a least element, and a greatest if it is bounded.
LEMMA Least ==
    ASSUME NEW S, S \subseteq Nat, S # {}
    PROVE  \E x \in S : \A y \in S : x <= y
<1> DEFINE R == {ss \in Nat \X Nat : ss[1] < ss[2]}
<1>1. IsWellFoundedOn(R, Nat)
  BY NatLessThanWellFounded DEF OpToRel
<1>2. \A x, y \in Nat : x < y => <<x, y>> \in R
  OBVIOUS
<1> HIDE DEF R
<1>3. PICK x \in S : \A y \in S : <<y, x>> \notin R
  BY <1>1, WFMin
<1>4. \A y \in S : ~ (y < x)
  BY <1>2, <1>3
<1> QED
  BY <1>4

LEMMA Greatest ==
    ASSUME NEW S, S \subseteq Nat, S # {}, NEW b \in Nat, \A x \in S : x <= b
    PROVE  \E x \in S : \A y \in S : y <= x
<1> DEFINE T == {t \in Nat : \E x \in S : t = b - x}
<1>1. T \subseteq Nat /\ T # {}
  <2>1. \A x \in S : b - x \in T
    OBVIOUS
  <2>2. T \subseteq Nat
    OBVIOUS
  <2> HIDE DEF T
  <2> QED
    BY <2>1, <2>2
<1>2. PICK t \in T : \A u \in T : t <= u
  BY <1>1, Least
<1>3. PICK x \in S : t = b - x
  OBVIOUS
<1>4. \A y \in S : b - y \in T
  OBVIOUS
<1> HIDE DEF T
<1>5. \A y \in S : y <= x
  BY <1>2, <1>3, <1>4
<1> QED
  BY <1>5

\* So Min and Max choose an element.
LEMMA MinIn ==
    ASSUME NEW S, S \subseteq Nat, S # {} PROVE Min(S) \in S
BY Least DEF Min

LEMMA MaxIn ==
    ASSUME NEW S, S \subseteq Nat, S # {}, NEW b \in Nat, \A x \in S : x <= b
    PROVE  Max(S) \in S
<1>1. PICK x \in S : \A y \in S : y <= x
  BY Greatest
<1>2. \A y \in S : x >= y
  BY <1>1
<1> QED
  BY <1>2 DEF Max

\* A tree is a sequence of any elements.
IsTree(tree) == \E X : tree \in Seq(X)

\* The subtree of an element is a tree with that element as its root.
LEMMA SubtreeIs ==
    ASSUME NEW tree, IsTree(tree), NEW k \in DOMAIN tree
    PROVE  /\ IsTree(SubtreeAt(tree, k)) /\ SubtreeAt(tree, k) # NoTree
           /\ SubtreeAt(tree, k)[1] = tree[k]
<1> PICK X : tree \in Seq(X)
  BY DEF IsTree
<1> DEFINE inside == {l \in k .. Len(tree) :
                        \A j \in k + 1 .. l : tree[j].depth > tree[k].depth}
           last == Max(inside)
<1>1. Len(tree) \in Nat /\ k \in 1 .. Len(tree)
  OBVIOUS
<1>2. k \in inside
  BY <1>1
<1>3. inside \subseteq Nat /\ \A x \in inside : x <= Len(tree)
  BY <1>1
<1>4. \A x \in inside : k <= x
  BY <1>1
<1>5. SubtreeAt(tree, k) = SubSeq(tree, k, last)
  BY DEF SubtreeAt
<1> HIDE DEF inside
<1>6. last \in inside
  BY <1>1, <1>2, <1>3, MaxIn
<1> HIDE DEF last
<1>7. last \in k .. Len(tree)
  <2>1. last \in Nat /\ k <= last /\ last <= Len(tree)
    BY <1>3, <1>4, <1>6
  <2> QED
    BY <1>1, <2>1
<1>8. \A i \in k .. last : tree[i] \in X
  BY <1>1, <1>7, ElementOfSeq
<1>9. /\ SubSeq(tree, k, last) \in Seq(X)
      /\ Len(SubSeq(tree, k, last)) = last - k + 1
      /\ SubSeq(tree, k, last)[1] = tree[k]
  BY <1>1, <1>7
<1>10. Len(SubSeq(tree, k, last)) # 0
  BY <1>1, <1>7, <1>9
<1>11. SubSeq(tree, k, last) # <<>>
  <2> DEFINE t == SubSeq(tree, k, last)
  <2>1. Len(t) # 0
    BY <1>10
  <2> HIDE DEF t
  <2>2. t # <<>>
    BY <2>1
  <2> QED
    BY <2>2 DEF t
<1> QED
  BY <1>5, <1>9, <1>11 DEF NoTree, IsTree

\* The first of some elements is one of them.
LEMMA FirstIs ==
    ASSUME NEW tree, IsTree(tree), NEW S, S \subseteq DOMAIN tree
    PROVE  /\ IsTree(FirstIn(tree, S))
           /\ FirstIn(tree, S) = NoTree <=> S = {}
           /\ S # {} => \E k \in S : FirstIn(tree, S)[1] = tree[k]
<1>1. CASE S = {}
  <2>1. NoTree \in Seq({})
    BY DEF NoTree
  <2> QED
    BY <1>1, <2>1 DEF FirstIn, IsTree
<1>2. CASE S # {}
  <2>1. S \subseteq Nat
    BY DEF IsTree
  <2>2. Min(S) \in S
    BY <1>2, <2>1, MinIn
  <2>3. FirstIn(tree, S) = SubtreeAt(tree, Min(S))
    BY <1>2 DEF FirstIn
  <2> QED
    BY <1>2, <2>2, <2>3, SubtreeIs
<1> QED
  BY <1>1, <1>2

\* An element with the whole name has more points than one with a part of it that
\* is no window, which never has enough.
LEMMA PointsOf ==
    ASSUME NEW e, NEW q, NEW type
    PROVE  /\ Points(e, q, type) \in Nat /\ Points(e, q, type) <= 255
           /\ IsNamed(e, q) /\ type = AnyType => Points(e, q, type) >= 50
           /\ IsNamed(e, q) /\ type # AnyType => Points(e, q, type) >= 150
           /\ ~IsNamed(e, q) /\ e.type # "Window" /\ type = AnyType =>
                 Points(e, q, type) <= 15
           /\ ~IsNamed(e, q) /\ e.type # "Window" /\ type # AnyType =>
                 Points(e, q, type) <= 115
BY DEF Points, NamePoints

\* What is found is a candidate, and has enough points or no fewer than another.
LEMMA BestMatch ==
    ASSUME NEW tree, IsTree(tree), NEW q, NEW type, NEW own
    PROVE  LET found == FindBestMatch(tree, q, type, own) IN
           /\ IsTree(found)
           /\ (\E k \in DOMAIN tree : Candidate(tree[k], q, type, own))
                => found # NoTree
           /\ found # NoTree =>
                 \E k \in DOMAIN tree :
                    /\ found[1] = tree[k] /\ Candidate(tree[k], q, type, own)
                    /\ \/ Points(tree[k], q, type) >= Enough
                       \/ \A l \in DOMAIN tree :
                             Candidate(tree[l], q, type, own) =>
                                Points(tree[l], q, type) <= Points(tree[k], q, type)
<1> DEFINE hits == {k \in DOMAIN tree : Candidate(tree[k], q, type, own)}
           points(k) == Points(tree[k], q, type)
           enough == {k \in hits : points(k) >= Enough}
           best == {k \in hits : \A l \in hits : points(l) <= points(k)}
           S == IF enough # {} THEN enough ELSE best
<1>1. FindBestMatch(tree, q, type, own) = FirstIn(tree, S)
  BY DEF FindBestMatch
<1>2. S \subseteq DOMAIN tree
  OBVIOUS
<1>3. hits # {} => S # {}
  <2> SUFFICES ASSUME hits # {} PROVE best # {}
    OBVIOUS
  <2> DEFINE all == {points(k) : k \in hits}
  <2>1. all \subseteq Nat /\ all # {} /\ 255 \in Nat /\ \A n \in all : n <= 255
    BY PointsOf
  <2>2. \A k \in hits : points(k) \in all
    OBVIOUS
  <2>3. \A n \in all : \E k \in hits : n = points(k)
    OBVIOUS
  <2> HIDE DEF all, hits, points
  <2>4. PICK n \in all : \A m \in all : m <= n
    <3> HIDE DEF all
    <3> QED
      BY <2>1, Greatest
  <2>5. PICK k \in hits : n = points(k)
    BY <2>3
  <2> QED
    BY <2>2, <2>4, <2>5
<1>4. \A k \in S : /\ k \in hits
                   /\ points(k) >= Enough \/ \A l \in hits : points(l) <= points(k)
  OBVIOUS
<1>5. \A k \in DOMAIN tree : Candidate(tree[k], q, type, own) => k \in hits
  OBVIOUS
<1>6. \A k \in hits : k \in DOMAIN tree /\ Candidate(tree[k], q, type, own)
  OBVIOUS
<1> HIDE DEF S, hits
<1>7. /\ IsTree(FirstIn(tree, S))
      /\ FirstIn(tree, S) = NoTree <=> S = {}
      /\ S # {} => \E k \in S : FirstIn(tree, S)[1] = tree[k]
  BY <1>2, FirstIs
<1> QED
  BY <1>1, <1>3, <1>4, <1>5, <1>6, <1>7

\* Of a tree that has an element with the whole name, findBestMatch finds a
\* window or an element with the whole name.
LEMMA WholeName ==
    ASSUME NEW tree, IsTree(tree), NEW q, NEW type, NEW own,
           NEW e \in ToSet(tree), Candidate(e, q, type, own), IsNamed(e, q)
    PROVE  LET found == FindBestMatch(tree, q, type, own) IN
           found[1].type = "Window" \/ IsNamed(found[1], q)
<1> DEFINE found == FindBestMatch(tree, q, type, own)
<1>1. PICK l \in DOMAIN tree : e = tree[l]
  BY DEF ToSet
<1>2. PICK k \in DOMAIN tree :
         /\ found[1] = tree[k]
         /\ \/ Points(tree[k], q, type) >= Enough
            \/ Points(tree[l], q, type) <= Points(tree[k], q, type)
  BY <1>1, BestMatch
<1> HIDE DEF found
<1>3. CASE ~IsNamed(tree[k], q) /\ tree[k].type # "Window"
  BY <1>1, <1>2, <1>3, PointsOf DEF Enough
<1> QED
  BY <1>2, <1>3 DEF found

\* A scan of the desktop is a tree.
LEMMA ScanIsTree ==
    ASSUME NEW tree, IsTree(tree) PROVE IsTree(ScanDesktop(tree))
<1> DEFINE kept == {k \in DOMAIN tree :
                      tree[k].depth = 0 \/ ~tree[WindowOf(tree, k)].self}
           nth(n) == CHOOSE k \in kept : Cardinality({j \in kept : j <= k}) = n
           N == Cardinality(kept)
           seen(e) == IF e.depth = 0 THEN [e EXCEPT !.id = NoId] ELSE e
<1>1. ScanDesktop(tree) = [n \in 1 .. N |-> seen(tree[nth(n)])]
  BY DEF ScanDesktop
<1>2. N \in Nat
  <2>1. Len(tree) \in Nat /\ DOMAIN tree = 1 .. Len(tree)
    BY DEF IsTree
  <2>2. IsFiniteSet(1 .. Len(tree))
    BY <2>1, FS_Interval
  <2>3. kept \subseteq 1 .. Len(tree)
    BY <2>1
  <2> HIDE DEF kept
  <2> QED
    BY <2>2, <2>3, FS_Subset, FS_CardinalityType
<1> DEFINE Y == {seen(tree[nth(n)]) : n \in 1 .. N}
<1> HIDE DEF N, nth, seen
<1>3. [n \in 1 .. N |-> seen(tree[nth(n)])] \in [1 .. N -> Y]
  OBVIOUS
<1> HIDE DEF Y
<1>4. [1 .. N -> Y] \subseteq Seq(Y)
  BY <1>2, SeqDef
<1>5. ScanDesktop(tree) \in Seq(Y)
  BY <1>1, <1>3, <1>4
<1> QED
  BY <1>5 DEF IsTree

\* The element of a handle in a new scan.
LEMMA SameIs ==
    ASSUME NEW scan, IsTree(scan), NEW e
    PROVE  LET same == FindByRuntimeId(scan, e.id) IN
           /\ (\E x \in ToSet(scan) : x.id = e.id) /\ e.id # NoId => same # NoTree
           /\ same # NoTree => same[1].id = e.id /\ same[1].id # NoId
                /\ e.id \in {x.id : x \in ToSet(scan)}
<1> DEFINE S == {k \in DOMAIN scan : e.id # NoId /\ scan[k].id = e.id}
<1>1. FindByRuntimeId(scan, e.id) = FirstIn(scan, S)
  BY DEF FindByRuntimeId
<1>2. S \subseteq DOMAIN scan
  OBVIOUS
<1>3. (\E x \in ToSet(scan) : x.id = e.id) /\ e.id # NoId => S # {}
  BY DEF ToSet
<1>4. \A k \in S : scan[k].id = e.id /\ e.id # NoId /\ scan[k] \in ToSet(scan)
  BY DEF ToSet
<1> HIDE DEF S
<1>5. /\ FirstIn(scan, S) = NoTree <=> S = {}
      /\ S # {} => \E k \in S : FirstIn(scan, S)[1] = scan[k]
  BY <1>2, FirstIs
<1> QED
  BY <1>1, <1>3, <1>4, <1>5

\* And the one that is found by its name.
LEMMA LikeIs ==
    ASSUME NEW scan, IsTree(scan), NEW e, Like(scan, e) # NoTree
    PROVE  \E key \in {e.name, e.autoId} : IsNamedInPart(Like(scan, e)[1], key)
<1>1. Like(scan, e) = FindBestMatch(scan, SearchKey(e), AnyType, FALSE)
  BY DEF Like
<1>2. SearchKey(e) \in {e.name, e.autoId}
  BY DEF SearchKey
<1>3. \E k \in DOMAIN scan :
         /\ Like(scan, e)[1] = scan[k]
              /\ Candidate(scan[k], SearchKey(e), AnyType, FALSE)
  BY <1>1, BestMatch
<1> QED
  BY <1>2, <1>3 DEF Candidate

-----------------------------------------------------------------------------
(* The handle of the script, between two operations and while one polls.    *)

\* The script's handle is a window and a tree, whatever was found or not.
HandleInv ==
    /\ desktop \in Desktops
    /\ h = [hwnd |-> h.hwnd, tree |-> h.tree]

LEMMA HandleNext ==
    ASSUME HandleInv, [Next]_vars PROVE HandleInv'
<1>1. Renewed = [hwnd |-> Renewed.hwnd, tree |-> Renewed.tree]
  <2>1. [h EXCEPT !.tree = Fresh] = [hwnd |-> h.hwnd, tree |-> Fresh]
    <3> DEFINE hwnd == h.hwnd
               tree == h.tree
    <3>1. h = [hwnd |-> hwnd, tree |-> tree]
      BY DEF HandleInv
    <3> HIDE DEF hwnd, tree
    <3>2. [[hwnd |-> hwnd, tree |-> tree] EXCEPT !.tree = Fresh] = [hwnd |-> hwnd, tree |-> Fresh]
      OBVIOUS
    <3>3. h.hwnd = hwnd
      BY DEF hwnd
    <3> QED
      BY <3>1, <3>2, <3>3
  <2> QED
    BY <2>1 DEF Renewed, HandleInv
<1>2. \A tree : Handle(tree) = [hwnd |-> Handle(tree).hwnd, tree |-> Handle(tree).tree]
  BY DEF Handle
<1>3. ASSUME NEW tree, NEW act, NEW renewed, Found(tree, act, renewed),
             renewed = [hwnd |-> renewed.hwnd, tree |-> renewed.tree]
      PROVE  h' = [hwnd |-> h'.hwnd, tree |-> h'.tree]
  BY <1>2, <1>3 DEF Found
<1>4. h = [hwnd |-> h.hwnd, tree |-> h.tree] /\ desktop \in Desktops
  BY DEF HandleInv
<1>5. CASE desktop' = desktop /\ h' = h
  BY <1>4, <1>5 DEF HandleInv
<1>6. CASE desktop' = desktop /\ Operation
  <2>1. ASSUME NEW q, NEW type, NEW act, Select(q, type, act)
        PROVE  h' = [hwnd |-> h'.hwnd, tree |-> h'.tree]
    BY <1>3, <1>4, <2>1 DEF Select
  <2>2. ASSUME NEW q, NEW type, SelectGlobally(q, type)
        PROVE  h' = [hwnd |-> h'.hwnd, tree |-> h'.tree]
    BY <1>3, <1>4, <2>2 DEF SelectGlobally
  <2>3. ASSUME PollSelect PROVE h' = [hwnd |-> h'.hwnd, tree |-> h'.tree]
    BY <1>1, <1>3, <2>3 DEF PollSelect
  <2>4. ASSUME PollFocus \/ PollWindow
     PROVE h' = [hwnd |-> h'.hwnd, tree |-> h'.tree]
    BY <1>3, <1>4, <2>4 DEF PollFocus, PollWindow
  <2>5. ASSUME Refresh PROVE h' = [hwnd |-> h'.hwnd, tree |-> h'.tree]
    BY <1>1, <2>5 DEF Refresh
  <2>6. ASSUME Parent \/ Window PROVE h' = [hwnd |-> h'.hwnd, tree |-> h'.tree]
    BY <1>2, <1>4, <2>6 DEF Parent, Window, Moves
  <2>7. ASSUME GiveUp \/ ClickHandle \/ TypeOrKey
     \/ \E q \in Queries : WaitForWindow(q)
        PROVE  h' = [hwnd |-> h'.hwnd, tree |-> h'.tree]
    BY <1>4, <2>7 DEF GiveUp, ClickHandle, TypeOrKey, WaitForWindow
  <2>8. h' = [hwnd |-> h'.hwnd, tree |-> h'.tree]
    BY <1>6, <2>1, <2>2, <2>3, <2>4, <2>5, <2>6, <2>7 DEF Operation
  <2> QED
    BY <1>4, <1>6, <2>8 DEF HandleInv
<1>7. Operation => desktop' = desktop
  BY DEF Operation, Select, SelectGlobally, PollSelect, PollFocus, WaitForWindow,
         PollWindow, GiveUp, ClickHandle, TypeOrKey, Refresh, Moves, Parent, Window
<1>8. ASSUME NEW c \in Callers, InputCall(c) \/ Focus(c) \/ Step(c)
      PROVE  desktop' = desktop /\ h' = h
  BY <1>8 DEF InputCall, Focus, Step
<1>9. CASE DesktopChanges
  BY <1>4, <1>9 DEF DesktopChanges, HandleInv
<1>10. CASE UserFocuses \/ UNCHANGED vars
  BY <1>5, <1>10 DEF UserFocuses, vars
<1> QED
  BY <1>5, <1>6, <1>7, <1>8, <1>9, <1>10 DEF Next

\* The desktop is one of the desktops and the handle has a window and a tree.
THEOREM HandleInvariant == Spec => []HandleInv
<1>1. Init => HandleInv
  BY DEF Init, HandleInv, NoHandle
<1> QED
  BY <1>1, HandleNext, PTL DEF Spec

LEMMA DesktopTree == ASSUME HandleInv PROVE IsTree(desktop)
BY HandleAssumption DEF HandleInv, IsTree

\* Whatever is on the desktop: a search for a name finds no element that has a part
\* of it, other than a window, where one has all of it (UIAutomationScanner.cpp:640-703).
THEOREM WholeNameWins == Spec => []WholeBeatsPart
<1>1. ASSUME HandleInv PROVE WholeBeatsPart
  <2>1. IsTree(ScanDesktop(desktop))
    BY <1>1, DesktopTree, ScanIsTree
  <2> QED
    BY <2>1, WholeName DEF WholeBeatsPart, InDesktop
<1> QED
  BY <1>1, HandleInvariant, PTL

\* Whatever the desktop has become: refresh keeps the element while its window has
\* it, and else takes one of its name or keeps what it had (UIHandle.cpp:257-289).
THEOREM RefreshedIsSame == Spec => []RefreshKeepsElement
<1>1. ASSUME HandleInv PROVE RefreshKeepsElement
  <2> DEFINE e == h.tree[1]
             scan == ScanWindowByHandle(desktop, h.hwnd)
             ids == {x.id : x \in ToSet(scan)}
  <2>1. IsTree(scan)
    BY <1>1, DesktopTree, FirstIs DEF ScanWindowByHandle
  <2>2. Fresh = SameOrLike(scan, e)
    BY DEF Fresh
  <2>3. Renewed.tree = IF Fresh = NoTree THEN h.tree ELSE Fresh
    BY <1>1 DEF HandleInv, Renewed
  <2>4. e.id \in ids => \E x \in ToSet(scan) : x.id = e.id
    OBVIOUS
  <2> SUFFICES IF e.id \in ids \ {NoId} THEN Renewed.tree[1].id = e.id
               ELSE \/ Renewed.tree = h.tree
                    \/ \E key \in {e.name, e.autoId} : IsNamedInPart(Renewed.tree[1], key)
    BY DEF RefreshKeepsElement
  <2> HIDE DEF e, scan
  <2>5. CASE FindByRuntimeId(scan, e.id) # NoTree
    <3>1. Fresh[1].id = e.id /\ e.id \in ids /\ e.id # NoId /\ Fresh # NoTree
      BY <2>1, <2>2, <2>5, SameIs DEF SameOrLike
    <3> QED
      BY <2>3, <3>1
  <2>6. CASE FindByRuntimeId(scan, e.id) = NoTree
    <3>1. Fresh = Like(scan, e)
      BY <2>2, <2>6 DEF SameOrLike
    <3>2. e.id \notin ids \ {NoId}
      BY <2>1, <2>4, <2>6, SameIs
    <3>3. Fresh # NoTree
       => \E key \in {e.name, e.autoId} : IsNamedInPart(Fresh[1], key)
      BY <2>1, <3>1, LikeIs
    <3> QED
      BY <2>3, <3>2, <3>3
  <2> QED
    BY <2>5, <2>6
<1> QED
  BY <1>1, HandleInvariant, PTL
=============================================================================
