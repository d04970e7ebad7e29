----------------------------- MODULE InputTools -----------------------------
(***************************************************************************)
(* The input calls of tools/InputTools.cpp: each takes s_inputMutex, a       *)
(* recursive mutex, sends its events one by one with pauses between them, and  *)
(* may call others in between.  A call under way is the sequence of the steps *)
(* that are left of it.                                                     *)
(***************************************************************************)
EXTENDS Integers, Sequences, FiniteSets, SequencesExt

CONSTANTS Callers, NoOne,
          Places,      \* the points of the screen
          Buttons, Keys,
          Words        \* the texts and the parts of key combinations

VARIABLES prog,    \* what is left of each caller's call
          owner, count,   \* s_inputMutex
          down,    \* the keys and buttons that are down
          begun    \* history: who has sent an event of a call and not ended it

inputVars == <<prog, owner, count, down, begun>>

Do(op, arg) == [op |-> op, arg |-> arg]
Locked(steps) == <<Do("lock", "")>> \o steps \o <<Do("unlock", "")>>

(***************************************************************************)
(* The calls.  A path is "jump" (no human movement), "near" or "far".        *)
(***************************************************************************)
\* A far target is reached on a curve that overshoots.
HumanMouseMove(at, path) ==
    Locked((IF path = "far" THEN <<Do("move", "on the way")>> ELSE <<>>) \o <<Do("move", at)>>)

MoveTo(at, path) ==
    IF path = "jump" THEN <<Do("move", at)>> ELSE HumanMouseMove(at, path)

Click(at, button, path) ==
    Locked(MoveTo(at, path) \o <<Do("down", button), Do("up", button)>>)

DoubleClick(at, path) == Locked(Click(at, "left", path) \o Click(at, "left", "jump"))

Drag(from, to, path) ==
    Locked(MoveTo(from, path) \o <<Do("down", "left")>>
            \o (IF path = "jump" THEN <<Do("move", "on the way"), Do("move", to)>>
                ELSE MoveTo(to, path))
            \o <<Do("up", "left")>>)

Scroll(at, path) == Locked(MoveTo(at, path) \o <<Do("wheel", at)>>)

\* A combination that is taken apart already: its modifiers and its other keys,
\* in order, without the tokens that name no key.
KeyPress(mods, keys) ==
    Locked([i \in DOMAIN mods |-> Do("down", mods[i])]
            \o [i \in 1 .. 2 * Len(keys) |->
                  Do(IF i % 2 = 1 THEN "down" ELSE "up", keys[(i + 1) \div 2])]
            \o [i \in DOMAIN mods |-> Do("up", mods[Len(mods) + 1 - i])])

\* One SendInput presses and releases a character.
TypeText(text) == Locked([i \in DOMAIN text |-> Do("char", text[i])])

Paths == {"jump", "near", "far"}

\* What the tools of the module and its two hooks may call.
Calls ==
    {HumanMouseMove(p, w) : p \in Places, w \in Paths}
    \cup {Click(p, b, w) : p \in Places, b \in Buttons, w \in Paths}
    \cup {DoubleClick(p, w) : p \in Places, w \in Paths}
    \cup {Drag(p, q, w) : p, q \in Places, w \in Paths}
    \cup {Scroll(p, w) : p \in Places, w \in Paths}
    \cup {KeyPress(mods, keys) : mods, keys \in Words}
    \cup {TypeText(text) : text \in Words}

ASSUME InputAssumption ==
    /\ NoOne \notin Callers
    /\ Words \subseteq Seq(Keys)

(***************************************************************************)
(* The steps.                                                              *)
(***************************************************************************)
InputInit ==
    /\ prog = [c \in Callers |-> <<>>]
    /\ owner = NoOne /\ count = 0
    /\ down = {} /\ begun = {}

Free(c) == prog[c] = <<>>
Call(c, steps) == Free(c) /\ prog' = [prog EXCEPT ![c] = steps]

At(c, ops) == ~Free(c) /\ Head(prog[c]).op \in ops
Go(c) ==
    /\ prog' = [prog EXCEPT ![c] = Tail(@)]
    /\ begun' = IF Tail(prog[c]) = <<>> THEN begun \ {c}
                ELSE IF At(c, {"move", "down", "up", "wheel", "char"}) THEN begun \cup {c}
                ELSE begun

Lock(c) ==
    /\ At(c, {"lock"}) /\ owner \in {c, NoOne}
    /\ owner' = c /\ count' = count + 1
    /\ Go(c) /\ UNCHANGED down

\* Mutant of Unlock: the call that was called inside gives the mutex away.
UnlockAll(c) ==
    /\ At(c, {"unlock"})
    /\ owner' = NoOne /\ count' = 0
    /\ Go(c) /\ UNCHANGED down

Unlock(c) ==
    /\ At(c, {"unlock"})
    /\ count' = count - 1
    /\ owner' = IF count = 1 THEN NoOne ELSE owner
    /\ Go(c) /\ UNCHANGED down

SendEvent(c) ==
    /\ At(c, {"move", "down", "up", "wheel", "char"})
    /\ LET key == Head(prog[c]).arg IN
       down' = IF At(c, {"down"}) THEN down \cup {key}
               ELSE IF At(c, {"up"}) THEN down \ {key}
               ELSE down
    /\ Go(c) /\ UNCHANGED <<owner, count>>

InputStep(c) == Lock(c) \/ Unlock(c) \/ SendEvent(c)

(***************************************************************************)
(* Properties.                                                             *)
(***************************************************************************)
InputTypeOK ==
    /\ prog \in [Callers -> Seq([op : {"lock", "unlock", "focus", "move", "down", "up",
                                       "wheel", "char"}, arg : STRING])]
    /\ owner \in Callers \cup {NoOne} /\ count \in Nat
    /\ down \subseteq STRING /\ begun \subseteq Callers

\* The events of an input call reach the system together: none of another call
\* comes between its first and its last, and a key or button that is down is one
\* that the call under way releases (InputTools.cpp:13-17, 115-365).
InputWhole ==
    /\ Cardinality(begun) <= 1
    /\ \A key \in down : \E c \in begun : Contains(prog[c], Do("up", key))
=============================================================================
