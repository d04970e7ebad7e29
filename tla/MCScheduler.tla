---------------------------- MODULE MCScheduler -----------------------------
\* Instances of Scheduler for TLC.
EXTENDS Scheduler

Daily(minute) == <<minute, Star, Star, Star, Step(2)>>
TheDefs == {[name |-> "a", expr |-> <<Star, Star, Star, Star, Star>>],
            [name |-> "a", expr |-> Daily(Step(2))],
            [name |-> "b", expr |-> Daily(List(<<0, 1>>))]}

\* Fields over small numbers: all forms, with numbers that are none.
Numbers == {Bad, 0, 1, 5}
TheFields ==
    {Star} \cup {Step(n) : n \in Numbers} \cup {Exactly(n) : n \in Numbers}
        \cup {FromTo(a, b) : a, b \in Numbers}
        \cup {List(<<a, b>>) : a, b \in Numbers}
        \cup {Parts(<<<<a, b>>, <<c>>>>) : a, b, c \in {Bad, 1, 5}}
        \cup {Parts(<<<<1, b, c>>>>) : b, c \in {Bad, 1, 5}}
=============================================================================
