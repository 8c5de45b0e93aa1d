----------------------------- MODULE ChatEvents -----------------------------
(***************************************************************************)
(* What a chat response sends to the client: process_messages of           *)
(* handle_chat_completions (OpenAI's format) and of handle_messages        *)
(* (Anthropic's) in src/src/core/service.rs, as operators that take the    *)
(* state kept between chunks and a batch of decoded messages; and what the *)
(* same handlers collect for a response that is not streamed.              *)
(*                                                                         *)
(* A message is its kind and the number of the upstream frame it was       *)
(* decoded from, which stands for its text.                                *)
(***************************************************************************)
EXTENDS Integers, Sequences, SequencesExt

\* StreamMessage: Content, the three kinds of Thinking, ToolCall,
\* WebReference, StreamEnd.
MsgKind == {"text", "think", "sign", "redacted", "tool", "web", "end"}
Msg(kind, n) == [kind |-> kind, n |-> n]

\* An event of either format: what it is, the content block it belongs to
\* (0 for OpenAI), and the frame whose text it carries (0: none).
Event(type, index, n) == [type |-> type, index |-> index, n |-> n]
EventTypes ==
  {"role", "open", "close", "text", "think", "sign", "json", "finish", "done",
   "message_start", "ping", "start text", "start thinking", "start tool",
   "stop", "error", "tool_use", "end_turn", "message_stop", "redacted"}
EventSet == [type : EventTypes, index : Nat, n : Nat]

\* The state that a stream keeps for its events:
\* started: !is_start, or stream_state # NotStarted;  thinking: meet_thinking;
\* last, index: last_content_type and index;  ended: is_end, or Completed.
FreshEvents == [started |-> FALSE, thinking |-> FALSE, last |-> "None", index |-> 0,
                ended |-> FALSE, out |-> <<>>]

Emit(s, event) == [s EXCEPT !.out = Append(@, event)]
EmitIf(p, s, event) == IF p THEN Emit(s, event) ELSE s

\* The elements of a sequence that are in a set.
Only(seq, S) ==
  LET kept[i \in 0..Len(seq)] ==
        IF i = 0 THEN <<>>
        ELSE IF seq[i] \in S THEN Append(kept[i - 1], seq[i]) ELSE kept[i - 1]
  IN  kept[Len(seq)]

-----------------------------------------------------------------------------
(* OpenAI *)

OpenAiText(s, n) ==
  LET closed == EmitIf(s.thinking, s, Event("close", 0, 0))
      begun  == EmitIf(~s.started, closed, Event("role", 0, 0))
  IN  [Emit(begun, Event("text", 0, n)) EXCEPT !.thinking = FALSE, !.started = TRUE]

OpenAiThought(s, n) ==
  LET begun  == EmitIf(~s.thinking /\ ~s.started, s, Event("role", 0, 0))
      opened == EmitIf(~s.thinking, begun, Event("open", 0, 0))
  IN  Emit(opened, Event("think", 0, n))

OpenAiThinkingNotFirst(s, n) == [OpenAiThought(s, n) EXCEPT !.thinking = TRUE]

OpenAiThinking(s, n) ==
  [OpenAiThought(s, n) EXCEPT !.thinking = TRUE, !.started = TRUE]

OpenAiStep(s, m) ==
  CASE m.kind = "text"  -> OpenAiText(s, m.n)
    [] m.kind = "think" -> OpenAiThinking(s, m.n)
    [] m.kind = "end"   -> [Emit(s, Event("finish", 0, 0)) EXCEPT !.ended = TRUE]
    [] OTHER            -> s

-----------------------------------------------------------------------------
(* Anthropic *)

\* A block of another type ends the one that is open and gets the next index;
\* stream_state becomes ContentBlockActive, whatever it was.
NextIndex(s) == IF s.last = "None" THEN s.index ELSE s.index + 1

Block(s, type, start) ==
  LET stopped == EmitIf(s.last # "None", s, Event("stop", s.index, 0))
  IN  IF s.last = type THEN s
      ELSE [Emit(stopped, Event(start, NextIndex(s), 0))
              EXCEPT !.index = NextIndex(s), !.last = type, !.ended = FALSE]

\* The first block of a message is announced and followed by a ping.
FirstBlock(s, type, start) ==
  IF s.started THEN Block(s, type, start)
  ELSE [Emit(Block(Emit(s, Event("message_start", 0, 0)), type, start),
             Event("ping", 0, 0))
          EXCEPT !.started = TRUE]

Delta(s, type, n) == Emit(s, Event(type, s.index, n))

AnthropicThinking(s, m) ==
  LET t == FirstBlock(s, "Thinking", "start thinking")
  IN  IF m.kind = "redacted" THEN t ELSE Delta(t, m.kind, m.n)

AnthropicTextNoStop(s, n) ==
  Delta(FirstBlock([s EXCEPT !.last = IF s.last = "Thinking" THEN "None" ELSE s.last],
                   "Text", "start text"), "text", n)

AnthropicText(s, n) == Delta(FirstBlock(s, "Text", "start text"), "text", n)

\* A tool call does not announce the message, and leaves "Text" as the type of
\* its block: InputJson is never stored.
AnthropicTool(s, n) ==
  LET t == Block(s, "InputJson", "start tool")
  IN  Delta([Delta(t, "json", 0) EXCEPT !.last = "Text", !.started = TRUE], "json", n)

AnthropicEnd(s) ==
  [EmitIf(s.last # "None", s, Event("stop", s.index, 0))
     EXCEPT !.ended = TRUE, !.started = TRUE]

AnthropicStep(s, m) ==
  CASE m.kind \in {"think", "sign", "redacted"} -> AnthropicThinking(s, m)
    [] m.kind = "text" -> AnthropicText(s, m.n)
    [] m.kind = "tool" -> AnthropicTool(s, m.n)
    [] m.kind = "end"  -> AnthropicEnd(s)
    [] OTHER           -> s

-----------------------------------------------------------------------------
(* process_messages leaves a batch at its StreamEnd. *)

Left(ms, i) == \E k \in 1..(i - 1) : ms[k].kind = "end"

Step(api, s, m) == IF api = "openai" THEN OpenAiStep(s, m) ELSE AnthropicStep(s, m)

process_messages(api, s, ms) ==
  LET after[i \in 0..Len(ms)] ==
        IF i = 0 THEN s
        ELSE IF Left(ms, i) THEN after[i - 1] ELSE Step(api, after[i - 1], ms[i])
  IN  after[Len(ms)]

\* The response's last piece, once the upstream stream is over; the delta of
\* the message gives tool_use as the reason if a tool call was processed.
StopReason(processed) == Event(IF processed THEN "tool_use" ELSE "end_turn", 0, 0)

LastPiece(api, s, processed) ==
  IF api = "openai" THEN Emit(s, Event("done", 0, 0))
  ELSE Emit(Emit(s, StopReason(processed)), Event("message_stop", 0, 0))

-----------------------------------------------------------------------------
(* A response that is not streamed.  OpenAI's has two texts, Anthropic's a  *)
(* list of blocks: index is the block, and a text or a thought is added to  *)
(* the last block if that is of its type.  StreamEnd means nothing here.    *)

NewBlock(s, type, events) ==
  [s EXCEPT !.out = @ \o events, !.last = type, !.index = NextIndex(s)]

ExtendAnyBlock(s, type, kind, n) ==
  IF s.last # "None" THEN Delta(s, kind, n)
  ELSE NewBlock(s, type, <<Event(kind, NextIndex(s), n)>>)

ExtendBlock(s, type, kind, n) ==
  IF s.last = type THEN Delta(s, kind, n)
  ELSE NewBlock(s, type, <<Event(kind, NextIndex(s), n)>>)

\* A block has one signature, the latest.
SignBlock(s, n) ==
  IF s.last # "Thinking" THEN ExtendBlock(s, "Thinking", "sign", n)
  ELSE Delta([s EXCEPT !.out = Only(@, EventSet \ [type : {"sign"}, index : {s.index}, n : Nat])],
             "sign", n)

\* The arguments that one chunk brought are a text of their own, which is
\* parsed when the call is processed.  Its pieces make a block together, at
\* the last of them, if they are the whole of the arguments.
CollectTool(s, m, pieces, complete) ==
  IF complete /\ m = Last(pieces)
  THEN NewBlock(s, "ToolUse",
                [i \in DOMAIN pieces |-> Event("json", NextIndex(s), pieces[i].n)])
  ELSE s

CollectAnthropic(s, m, pieces, complete) ==
  CASE m.kind = "think"    -> ExtendBlock(s, "Thinking", "think", m.n)
    [] m.kind = "sign"     -> SignBlock(s, m.n)
    [] m.kind = "redacted" -> NewBlock(s, "Redacted", <<Event("redacted", NextIndex(s), m.n)>>)
    [] m.kind = "text"     -> ExtendBlock(s, "Text", "text", m.n)
    [] m.kind = "tool"     -> CollectTool(s, m, pieces, complete)
    [] OTHER               -> s

CollectOpenAi(s, m) ==
  IF m.kind \in {"text", "think"} THEN Emit(s, Event(m.kind, 0, m.n)) ELSE s

Pieces(ms) == Only(ms, [kind : {"tool"}, n : Nat])

CollectStep(api, s, m, pieces, complete) ==
  IF api = "openai" THEN CollectOpenAi(s, m) ELSE CollectAnthropic(s, m, pieces, complete)

collect(api, s, ms, complete) ==
  LET after[i \in 0..Len(ms)] ==
        IF i = 0 THEN s ELSE CollectStep(api, after[i - 1], ms[i], Pieces(ms), complete)
  IN  after[Len(ms)]

OfType(s, type) == Only(s.out, [type : {type}, index : Nat, n : Nat])

\* The thoughts come first, between their tags.
OpenAiBody(s) ==
  LET thoughts == OfType(s, "think")
      between  == IF thoughts = <<>> THEN <<>>
                  ELSE <<Event("open", 0, 0)>> \o thoughts \o <<Event("close", 0, 0)>>
  IN  between \o OfType(s, "text") \o <<Event("finish", 0, 0)>>

AnthropicBody(s, processed) == Append(s.out, StopReason(processed))
=============================================================================
