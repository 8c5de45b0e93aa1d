--------------------------- MODULE MCTokenRoutes ---------------------------
(* TokenRoutes for model checking: no operator tells two keys apart. *)
EXTENDS TokenRoutes, TLC

Symmetry == Permutations(Key)
=============================================================================
