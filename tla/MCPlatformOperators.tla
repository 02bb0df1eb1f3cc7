------------------------ MODULE MCPlatformOperators ------------------------
(* Model-checking instances of PlatformOperators.                          *)
EXTENDS PlatformOperators, TLC

CONSTANT MaxCommits     \* bound on the commands that commit

Symmetry == Permutations(Operators \ {Admin}) \cup Permutations(Keys) \cup Permutations(Slots)
FewCommits == Cardinality(ledger) <= MaxCommits
=============================================================================
