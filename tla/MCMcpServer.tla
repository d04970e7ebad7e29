---------------------------- MODULE MCMcpServer -----------------------------
\* Instances of McpServer for TLC: the ids are those of the lines, either all
\* different or all the same.
EXTENDS McpServer, TLC

OwnId == [l \in Lines |-> l]
OneId == [l \in Lines |-> CHOOSE i \in Ids : TRUE]

\* Lines (with their ids) and workers are interchangeable.
Symmetry == Permutations(Lines) \cup Permutations(Workers)
=============================================================================
