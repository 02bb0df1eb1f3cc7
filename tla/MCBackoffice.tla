----------------------------- MODULE MCBackoffice -----------------------------
(* Model-checking instances of Backoffice.                                 *)
EXTENDS Backoffice, TLC

\* All tables but that of the plans insert their rows in one order.
Symmetry == Permutations(Plans) \cup Permutations(Slots)
=============================================================================
