---------------------------- MODULE MCInternPool ----------------------------
(* InternPool for model checking: two raw tokens with one key, and a string. *)
EXTENDS InternPool, TLC

CONSTANTS s1, r1, r2, k1

MCRawKey == [r \in {r1, r2} |-> k1]

Symmetry == Permutations(Owner) \cup Permutations(Addr) \cup Permutations({r1, r2})
=============================================================================
