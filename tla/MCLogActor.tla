----------------------------- MODULE MCLogActor -----------------------------
(* LogActor for model checking. *)
EXTENDS LogActor
=============================================================================
