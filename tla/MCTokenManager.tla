--------------------------- MODULE MCTokenManager ---------------------------
(* Small instances of TokenManager for TLC. *)
EXTENDS TokenManager
=============================================================================
