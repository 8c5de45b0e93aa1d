----------------------------- MODULE MCDebugLog -----------------------------
(* A small instance of DebugLog for TLC. *)
EXTENDS DebugLog
=============================================================================
