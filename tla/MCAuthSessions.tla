--------------------------- MODULE MCAuthSessions ---------------------------
(* Model-checking instance of AuthSessions.                                *)
EXTENDS AuthSessions, TLC

Symmetry == Permutations(Subjects) \cup Permutations(Secrets)
            \cup Permutations(SessionIds) \cup Permutations(Tokens)
            \cup Permutations(Keys)
=============================================================================
