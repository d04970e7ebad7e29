-------------------------- MODULE MCToolCatalogue --------------------------
(* Instances of ToolCatalogue for TLC: a script defines one tool, two, one *)
(* of them with the name of a built-in tool, or none since it fails.       *)
EXTENDS ToolCatalogue, TLC

Lists(s) == [single |-> FALSE, names |-> s]
Returns(n) == [single |-> TRUE, names |-> <<n>>]

ManyContents == {Returns("a"), Lists(<<"a", "ping">>), NoContent}
Symmetry == Permutations(Files)
=============================================================================
