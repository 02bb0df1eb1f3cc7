-------------------------- MODULE MCAuthorization --------------------------
(* Model-checking instance of Authorization.                               *)
EXTENDS Authorization, TLC

CONSTANTS p1, p2

\* A contribution for whoever may p1, with a route for p2.
MCContributions == {[required |-> {p1}, routes |-> {{p2}, {p1}}]}

\* Each slice spends its budget on one kind of trouble: commands between the
\* reads of an issuing request; a sync between them and a command; snapshots
\* stored in the wrong order; and the age of what is stored.
MCBudgets == {[ticks |-> 0, changes |-> 0, fetches |-> 0, commands |-> 2],
              [ticks |-> 0, changes |-> 1, fetches |-> 1, commands |-> 1],
              [ticks |-> 0, changes |-> 1, fetches |-> 2, commands |-> 0],
              [ticks |-> 3, changes |-> 1, fetches |-> 1, commands |-> 0]}

Symmetry == Permutations(Shops) \cup Permutations(Workforce) \cup Permutations(Replicas)
=============================================================================
