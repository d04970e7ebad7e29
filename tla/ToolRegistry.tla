---------------------------- MODULE ToolRegistry ----------------------------
(***************************************************************************)
(* core/ToolRegistry.cpp: the tools in the order of their registration,    *)
(* and the index by name that calls are dispatched with.  Each operation   *)
(* is one block under m_mutex; the callback that follows it, outside the   *)
(* lock, is the caller's step.                                             *)
(*                                                                         *)
(* A tool has a name, the script it comes from (or Builtin) and the        *)
(* version of that script that gave it its description and its schema.     *)
(***************************************************************************)
EXTENDS Naturals, Sequences

CONSTANTS Names, Files, Builtin

VARIABLES
    tools,  \* m_tools
    index   \* m_index

Tools == [name : Names, file : Files \cup {Builtin}, version : Nat]

HasTool(n) == n \in DOMAIN index

\* The first tool of that name is replaced, in its place.
RegisterOrReplace(t) ==
    /\ index' = [n \in DOMAIN index \cup {t.name} |->
                    IF n = t.name THEN t ELSE index[n]]
    /\ tools' =
          IF HasTool(t.name)
          THEN [i \in DOMAIN tools |->
                   IF /\ tools[i].name = t.name
                      /\ \A j \in 1 .. i - 1 : tools[j].name # t.name
                   THEN t ELSE tools[i]]
          ELSE Append(tools, t)

\* A name that is not registered is left alone: unregisterTool returns false.
Unregister(n) ==
    /\ index' = [m \in DOMAIN index \ {n} |-> index[m]]
    /\ tools' = IF HasTool(n)
                THEN SelectSeq(tools, LAMBDA t : t.name # n)
                ELSE tools

=============================================================================
