----------------------------- MODULE MCOtpLogin -----------------------------
(* Model-checking instances of OtpLogin.                                   *)
EXTENDS OtpLogin, TLC

Symmetry == Permutations(Shops) \cup Permutations(Destinations)
            \cup Permutations(Subjects) \cup Permutations(SessionIds)
            \cup Permutations(Challenges)
=============================================================================
