--------------------------- MODULE MCChatRequest ---------------------------
(* A small instance of ChatRequest for TLC. *)
EXTENDS ChatRequest
=============================================================================
