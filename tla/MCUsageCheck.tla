---------------------------- MODULE MCUsageCheck ----------------------------
(* UsageCheck for model checking. *)
EXTENDS UsageCheck
=============================================================================
