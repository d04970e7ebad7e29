---------------------------- MODULE MCScriptRun -----------------------------
\* Instances of ScriptRun for TLC.
EXTENDS ScriptRun, TLC

CONSTANTS w1, w2

I(op) == [op |-> op]
J(op, to) == [op |-> op, to |-> to]

\* A script that loops and catches everything, one that nests two pcalls around
\* a command and goes on after it, one that sleeps, and a short one.
TheScripts ==
    [stubborn |-> <<J("try", 4), I("line"), I("end"), J("jump", 1)>>,
     careful |-> <<J("try", 7), J("try", 5), I("shell"), I("end"), I("line"), I("end"),
                   I("line")>>,
     sleepy |-> <<I("sleep"), I("line")>>,
     short |-> <<I("line"), I("line")>>]

TheCalls == w1 :> {"run_command", "stubborn", "careful", "sleepy"} @@ w2 :> {"short"}
=============================================================================
