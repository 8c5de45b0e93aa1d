---------------------------- MODULE MCChatStream ----------------------------
(* ChatStream for model checking: the frames that the upstream server sends. *)
EXTENDS ChatStream

Plain(kind) == [kind |-> kind, len |-> 0, last |-> FALSE]
Tool(len, last) == [kind |-> "tool", len |-> len, last |-> last]

\* Every kind of frame.
MCSteadyFrames ==
  {Plain(k) : k \in FrameKind \ {"tool"}} \cup {Tool(1, FALSE), Tool(2, TRUE)}
=============================================================================
