-------------------------------- MODULE Cron --------------------------------
(***************************************************************************)
(* The cron expressions of services/Scheduler.cpp.  A field is "*", "*" and  *)
(* a step, or parts separated by commas, each a sequence of numbers          *)
(* separated by dashes.  Bad is text that is no number.                      *)
(***************************************************************************)
EXTENDS Integers, Sequences

Bad == -1
Star == [form |-> "star"]
Step(n) == [form |-> "step", by |-> n]
Parts(ps) == [form |-> "parts", parts |-> ps]
Exactly(n) == Parts(<<<<n>>>>)
FromTo(a, b) == Parts(<<<<a, b>>>>)
List(ns) == Parts([i \in DOMAIN ns |-> <<ns[i]>>])

CronFields ==
    {Star} \cup [form : {"step"}, by : Int] \cup [form : {"parts"}, parts : Seq(Seq(Int))]

HasDash(ps) == \E i \in DOMAIN ps : Len(ps[i]) > 1

\* Mutant of StepMatches: steps are counted from zero.
StepFromZero(n, value, min) == n > 0 /\ value % n = 0

StepMatches(n, value, min) == n > 0 /\ (value - min) % n = 0

\* The first dash divides the whole field, commas and further dashes included,
\* and both halves have to be numbers.
RangeMatches(ps, value) ==
    /\ Len(ps) = 1 /\ Len(ps[1]) = 2
    /\ Bad \notin {ps[1][1], ps[1][2]}
    /\ value \in ps[1][1] .. ps[1][2]

FieldMatches(field, value, min) ==
    \/ field.form = "star"
    \/ field.form = "step" /\ StepMatches(field.by, value, min)
    \/ field.form = "parts" /\ HasDash(field.parts) /\ RangeMatches(field.parts, value)
    \/ /\ field.form = "parts" /\ ~HasDash(field.parts)
       /\ \E i \in DOMAIN field.parts : field.parts[i] = <<value>>

\* Minute, hour, day, month, weekday; more fields are not looked at.
Minimum == <<0, 0, 1, 1, 0>>
CronMatches(expr, tm) ==
    /\ Len(expr) >= 5
    /\ \A n \in 1 .. 5 : FieldMatches(expr[n], tm[n], Minimum[n])

(***************************************************************************)
(* What a field, counting from min, says of a value.                       *)
(***************************************************************************)
PartDenotes(p, v) ==
    IF Len(p) = 1 THEN v = p[1]
    ELSE Len(p) = 2 /\ Bad \notin {p[1], p[2]} /\ p[1] <= v /\ v <= p[2]

Denotes(field, v, min) ==
    \/ field.form = "star"
    \/ field.form = "step" /\ field.by > 0 /\ \E k \in 0 .. v : v = min + k * field.by
    \/ field.form = "parts" /\ \E i \in DOMAIN field.parts : PartDenotes(field.parts[i], v)

\* A dash in a list.
Mixed(field) == field.form = "parts" /\ HasDash(field.parts) /\ Len(field.parts) > 1
=============================================================================
