------------------------- MODULE MCAuthTransactions -------------------------
(* Model-checking instances of AuthTransactions.                           *)
EXTENDS AuthTransactions, TLC

Symmetry == Permutations(Subjects) \cup Permutations(Secrets)
            \cup Permutations(SessionIds) \cup Permutations(Tokens)
            \cup Permutations(Keys) \cup Permutations(Slots)
=============================================================================
