----------------------------- MODULE ChatStream -----------------------------
(***************************************************************************)
(* One chat response: the chunks that the upstream server sends,           *)
(* StreamDecoder (src/src/core/stream/decoder.rs) over the buffer of       *)
(* crates/grpc-stream, and the way the handlers of                         *)
(* src/src/core/service.rs drive it.                                       *)
(*                                                                         *)
(* A response that is not streamed is collected chunk by chunk and sent    *)
(* when the upstream server closes its stream.  A streamed one has two     *)
(* phases.  Until the first text has been decoded the handler reads chunks *)
(* itself, so that it can still answer with an error status; what it has   *)
(* decoded is kept in first_result.  From then on every chunk becomes a    *)
(* piece of the response body, first_result being put before the piece of  *)
(* the first chunk that leaves no bytes in the buffer.                     *)
(*                                                                         *)
(* Chunk boundaries are the network's: a chunk may end anywhere in a frame *)
(* or in its 5 bytes of header.  A frame is modelled by what its payload   *)
(* decodes to, a part of one by whether its bytes reach 5.                 *)
(***************************************************************************)
EXTENDS ChatEvents

CONSTANTS
  Frame,            \* frames that the upstream server may send
  MaxFrames,        \* bound on the frames of a response
  MaxPerChunk,      \* bound on the frames that a chunk completes
  MaxEvents,        \* bound on the events after which the model takes no chunk
  convert_web_ref   \* include_web_references

\* blank: no payload, or one that decodes to nothing.  tool: a streamed call
\* with the length of its arguments so far; whole: one that is not streamed.
FrameKind == {"text", "think", "sign", "redacted", "web", "blank", "end", "error",
              "tool", "whole"}

ASSUME FrameAssumption ==
  /\ Frame \subseteq [kind : FrameKind, len : Nat, last : BOOLEAN]
  /\ convert_web_ref \in BOOLEAN
  /\ MaxFrames \in Nat /\ MaxPerChunk \in Nat /\ MaxEvents \in Nat

VARIABLES
  api,        \* which of the two handlers
  stream,     \* the request's field stream
  frames,     \* the frames that have arrived in whole
  from,       \* the first of them that is still in the buffer
  part,       \* bytes of the next one: none, under 5 ("short"), or more
  ctx,        \* has_seen_content, and Context: processed, raw_args_len
  first,      \* first_result, first_result_ready, first_result_taken
  phase,      \* see Phase
  events      \* what the client has been sent, and the state kept for it

vars == <<api, stream, frames, from, part, ctx, first, phase, events>>
decoderVars == <<frames, from, part, ctx, first>>

\* hung: the handler waits for a lock that it holds itself.
Phase == {"collect", "first", "rest", "tail", "done", "failed", "hung"}
Part == {"none", "short", "long"}

-----------------------------------------------------------------------------
(* StreamDecoder::decode *)

Add(d, kind, n) == [d EXCEPT !.msgs = Append(@, Msg(kind, n))]

\* With the call processed, the stream is over for the client.
AddProcessed(d, n, processed) ==
  IF processed THEN [Add(Add(d, "tool", n), "end", n) EXCEPT !.processed = TRUE]
  ELSE Add(d, "tool", n)

ToolFrameUnordered(d, f, n) ==
  IF f.len # d.args THEN AddProcessed([d EXCEPT !.args = f.len - d.args], n, f.last)
  ELSE d

\* A longer argument text is new by what it is longer; one of the same length
\* is skipped, the mark of a last message with it.
ToolFrame(d, f, n) ==
  IF f.len > d.args THEN AddProcessed([d EXCEPT !.args = f.len], n, f.last)
  ELSE IF f.len = d.args THEN d
  ELSE [d EXCEPT !.processed = f.last]

DecodeFrame(d, n) ==
  LET f == d.frames[n]
  IN  IF d.err \/ d.processed THEN d
      ELSE CASE f.kind = "blank" -> d
             [] f.kind = "error" -> [d EXCEPT !.err = TRUE]
             [] f.kind = "text"  -> [Add(d, "text", n) EXCEPT !.seen = TRUE]
             [] f.kind = "web"   -> Add(d, IF convert_web_ref THEN "text" ELSE "web", n)
             [] f.kind = "tool"  -> ToolFrame(d, f, n)
             [] f.kind = "whole" -> AddProcessed(d, n, TRUE)
             [] OTHER            -> Add(d, f.kind, n)

\* All frames in the buffer, in order.
Decoded(fs) ==
  LET after[n \in (from - 1)..Len(fs)] ==
        IF n = from - 1
        THEN [frames |-> fs, msgs |-> <<>>, err |-> FALSE, seen |-> ctx.seen,
              processed |-> ctx.processed, args |-> ctx.args]
        ELSE DecodeFrame(after[n - 1], n)
  IN  after[Len(fs)]

KeptOnce(msgs) == ~first.taken /\ msgs # <<>> /\ first.result = <<>>

\* The first messages are kept; until one of them is text, so are all others.
Kept(msgs) == ~first.taken /\ msgs # <<>> /\ (first.result = <<>> \/ ~first.ready)
FirstWith(msgs) == IF Kept(msgs) THEN first.result \o msgs ELSE first.result
Returned(msgs) == IF Kept(msgs) THEN <<>> ELSE msgs

CtxOf(d) == [seen |-> d.seen, processed |-> d.processed, args |-> d.args]

-----------------------------------------------------------------------------
(* What arrives: new frames in whole, and a part of the next one.  More     *)
(* bytes of the same frame do not make fewer.                               *)

Chunk == [new : BoundedSeq(Frame, MaxPerChunk), part : Part, empty : {FALSE}]
           \cup [new : {<<>>}, part : Part, empty : {TRUE}]

Longer == {<<"none", "short">>, <<"none", "long">>, <<"short", "short">>,
           <<"short", "long">>, <<"long", "long">>}

CanArrive(c) ==
  /\ Len(frames) + Len(c.new) <= MaxFrames
  /\ Len(events.out) <= MaxEvents
  /\ c.empty => c.part = part
  /\ ~c.empty /\ c.new = <<>> => <<part, c.part>> \in Longer

Buffered(c) == frames' = frames \o c.new /\ part' = c.part

\* Err(EmptyStream)
TooShort(c) == c.empty \/ (from = Len(frames) + 1 /\ c.new = <<>> /\ c.part # "long")

\* What the decoder is left with.  An error leaves the buffer as it is.
Decode(d) ==
  /\ ctx' = CtxOf(d)
  /\ from' = IF d.err THEN from ELSE Len(d.frames) + 1
  /\ IF d.err THEN UNCHANGED first
     ELSE first' = [first EXCEPT
                      !.result = FirstWith(d.msgs),
                      !.ready = @ \/ (FirstWith(d.msgs) # <<>> /\ ~first.taken /\ d.seen)]

-----------------------------------------------------------------------------
(* The first phase *)

ReceiveFirst(c) ==
  LET d == Decoded(frames \o c.new)
  IN  /\ phase = "first"
      /\ CanArrive(c) /\ Buffered(c)
      /\ IF TooShort(c) THEN UNCHANGED <<from, ctx, first, phase>>
         ELSE /\ Decode(d)
              /\ phase' = IF d.err THEN "failed"
                          ELSE IF first'.ready THEN "rest" ELSE "first"
      /\ UNCHANGED <<api, stream, events>>

EndsFirstIgnored == phase = "first" /\ UNCHANGED vars

\* A read error, or the end of a stream that had no text.
EndsFirst ==
  /\ phase = "first"
  /\ phase' = "failed"
  /\ UNCHANGED <<api, stream, decoderVars, events>>

-----------------------------------------------------------------------------
(* The second phase.  A read error gives an empty piece and is no step.     *)

\* take_first_result
TakesFirst(c) == first.result # <<>> /\ c.part = "none"

\* An error is sent as text and an end, or as an event of its own; the check
\* for the end of the stream is passed over.
ErrorPiece ==
  IF api = "openai"
  THEN process_messages(api, events, <<Msg("text", 0), Msg("end", 0)>>)
  ELSE Emit(events, Event("error", 0, 0))

Piece(d, c) ==
  process_messages(api,
    IF TakesFirst(c) THEN process_messages(api, events, first.result) ELSE events,
    Returned(d.msgs))

FirstLeftKept(c) == IF TakesFirst(c) THEN [first EXCEPT !.taken = TRUE] ELSE first

FirstLeft(c) ==
  IF TakesFirst(c) THEN [first EXCEPT !.result = <<>>, !.taken = TRUE] ELSE first

\* The guard of the lock that decode was called with lives on in the arm for
\* its error, which takes the lock again to read a counter.
ReceiveRest(c) ==
  LET d == Decoded(frames \o c.new)
  IN  /\ phase = "rest"
      /\ CanArrive(c) /\ Buffered(c)
      /\ IF TooShort(c)
         THEN phase' = "hung" /\ UNCHANGED <<from, ctx, first, events>>
         ELSE /\ ctx' = CtxOf(d)
              /\ from' = IF d.err THEN from ELSE Len(d.frames) + 1
              /\ events' = IF d.err THEN ErrorPiece ELSE Piece(d, c)
              /\ first' = IF d.err THEN first ELSE FirstLeft(c)
              /\ phase' = IF events'.ended /\ ~d.err THEN "tail" ELSE "rest"
      /\ UNCHANGED <<api, stream>>

EndsRest ==
  /\ phase = "rest"
  /\ phase' = "tail"
  /\ UNCHANGED <<api, stream, decoderVars, events>>

LastPieceSent ==
  /\ phase = "tail"
  /\ events' = LastPiece(api, events, ctx.processed)
  /\ phase' = "done"
  /\ UNCHANGED <<api, stream, decoderVars>>

-----------------------------------------------------------------------------
(* A response that is not streamed *)

\* The chunk's pieces of arguments parse if they are the whole of a call's:
\* those of one that is not streamed, or all of one that is.
Complete(d) ==
  LET fs == {d.frames[m.n] : m \in ToSet(Pieces(d.msgs))}
  IN  /\ d.processed
      /\ IF \E f \in fs : f.kind = "whole" THEN Len(Pieces(d.msgs)) = 1
         ELSE ctx.args = 0 /\ \E f \in fs : f.last

\* A chunk that is too short for a header waits in the buffer for the next.
ReceiveAll(c) ==
  LET d == Decoded(frames \o c.new)
  IN  /\ phase = "collect"
      /\ CanArrive(c) /\ Buffered(c)
      /\ IF TooShort(c) THEN UNCHANGED <<from, ctx, phase, events>>
         ELSE /\ ctx' = CtxOf(d)
              /\ from' = IF d.err THEN from ELSE Len(d.frames) + 1
              /\ events' = IF d.err THEN events
                           ELSE collect(api, events, d.msgs, Complete(d))
              /\ phase' = IF d.err THEN "failed" ELSE "collect"
      /\ UNCHANGED <<api, stream, first>>

\* OpenAI's handler takes a response without any text for a failure.
SendCollected ==
  /\ phase = "collect"
  /\ IF api = "openai" /\ events.out = <<>>
     THEN phase' = "failed" /\ UNCHANGED events
     ELSE /\ phase' = "done"
          /\ events' = [events EXCEPT !.out =
               IF api = "openai" THEN OpenAiBody(events)
               ELSE AnthropicBody(events, ctx.processed)]
  /\ UNCHANGED <<api, stream, decoderVars>>

ReadFails ==
  /\ phase = "collect"
  /\ phase' = "failed"
  /\ UNCHANGED <<api, stream, decoderVars, events>>

-----------------------------------------------------------------------------
\* no_first_cache, if the response is not streamed.
Init ==
  /\ api \in {"openai", "anthropic"}
  /\ stream \in BOOLEAN
  /\ frames = <<>> /\ from = 1 /\ part = "none"
  /\ ctx = [seen |-> FALSE, processed |-> FALSE, args |-> 0]
  /\ first = [result |-> <<>>, ready |-> ~stream, taken |-> ~stream]
  /\ phase = IF stream THEN "first" ELSE "collect"
  /\ events = FreshEvents

Next ==
  \/ \E c \in Chunk : ReceiveFirst(c)
  \/ \E c \in Chunk : ReceiveRest(c)
  \/ \E c \in Chunk : ReceiveAll(c)
  \/ EndsFirst \/ EndsRest \/ LastPieceSent
  \/ SendCollected \/ ReadFails

Spec == Init /\ [][Next]_vars

\* An orderly upstream server sends nothing after the end, an error or the
\* last message of a tool call, nothing but more arguments once a tool call has
\* begun, some of them with its last message, and does not close its stream
\* before.
IsTool(f) == f.kind \in {"tool", "whole"}
Final(f) == f.kind \in {"end", "error", "whole"} \/ (f.kind = "tool" /\ f.last)
Finished(fs) == \E i \in DOMAIN fs : Final(fs[i])
HasText(fs) == \E i \in DOMAIN fs : fs[i].kind = "text"

Adds(fs, i) ==
  fs[i].len > 0 /\ \A j \in 1..(i - 1) : fs[j].kind = "tool" => fs[j].len < fs[i].len

OrderlyFrames(fs) ==
  /\ \A i \in 1..(Len(fs) - 1) :
       ~Final(fs[i]) /\ (IsTool(fs[i]) => fs[i + 1].kind = "tool")
  /\ \A i \in DOMAIN fs : fs[i].kind = "tool" /\ fs[i].last => Adds(fs, i)

OrderlyChunk(c) ==
  LET fs == frames \o c.new
  IN  /\ OrderlyFrames(fs)
      /\ Len(fs) = MaxFrames /\ (HasText(fs) \/ ~stream) => Finished(fs)
      /\ Finished(fs) => c.part = "none"

Receives(c) == ReceiveFirst(c) \/ ReceiveRest(c) \/ ReceiveAll(c)
Closes == EndsFirst \/ ReadFails \/ (Finished(frames) /\ (EndsRest \/ SendCollected))

OrderlyNext ==
  (\E c \in Chunk : OrderlyChunk(c) /\ Receives(c)) \/ Closes \/ LastPieceSent

\* It gets to the end of its response and closes the stream, unless this side
\* gives up first; the client reads the body to its end.
Fairness ==
  /\ []<>(phase \in {"rest", "collect"} => Finished(frames))
  /\ WF_vars(Closes)
  /\ WF_vars(LastPieceSent)

OrderlySpec == Init /\ [][OrderlyNext]_vars /\ Fairness

\* A steady network, once the first text is there, keeps frames together and
\* has left the end to a later chunk; of a response that is not streamed it
\* only keeps the frames of a tool call together.
SteadyChunk(c) ==
  LET fs == frames \o c.new
  IN  /\ phase = "first" /\ HasText(fs) => ~Finished(fs)
      /\ phase = "rest" => c.part = "none" /\ c.new # <<>>
      /\ phase = "collect" /\ (\E i \in DOMAIN fs : IsTool(fs[i])) => Finished(fs)

SteadyNext ==
  \/ \E c \in Chunk : OrderlyChunk(c) /\ SteadyChunk(c) /\ Receives(c)
  \/ Closes \/ LastPieceSent

SteadySpec == Init /\ [][SteadyNext]_vars /\ Fairness

-----------------------------------------------------------------------------
(* Properties *)

\* Every variable has its type, and the decoder's flags go together.
TypeOK ==
  /\ api \in {"openai", "anthropic"}
  /\ frames \in BoundedSeq(Frame, MaxFrames)
  /\ from \in 1..(Len(frames) + 1)
  /\ part \in Part
  /\ ctx \in [seen : BOOLEAN, processed : BOOLEAN, args : Nat]
  /\ first.ready \in BOOLEAN /\ first.taken \in BOOLEAN
  /\ stream => (first.ready => ctx.seen)
  /\ phase \in Phase
  /\ events.ended \in BOOLEAN /\ events.index \in Nat
  /\ \A i \in DOMAIN events.out : events.out[i].type \in EventTypes

\* The frames that the client has been sent.
Delivered == {events.out[i].n : i \in DOMAIN events.out} \ {0}

\* The frames that a response is to carry: what the format has an event for,
\* and of a tool call what adds to its arguments.
Expects(i) ==
  \/ frames[i].kind \in {"text", "think"}
  \/ frames[i].kind = "web" /\ convert_web_ref
  \/ api = "anthropic" /\ frames[i].kind \in {"sign", "whole"}
  \/ api = "anthropic" /\ ~stream /\ frames[i].kind = "redacted"
  \/ api = "anthropic" /\ frames[i].kind = "tool" /\ Adds(frames, i)

Expected == {i \in DOMAIN frames : Expects(i)}

\* Whether the events of the frames in a set came in the order of the frames.
InOrder(set) ==
  \A i, j \in DOMAIN events.out :
    i < j /\ events.out[i].n \in set /\ events.out[j].n \in set
      => events.out[i].n < events.out[j].n

\* What the upstream server sends is what the client gets: in order, with
\* nothing left out, up to the end of the stream.
FaithfulResponse ==
  stream /\ (\A i \in DOMAIN frames : frames[i].kind # "error") =>
    /\ Delivered \subseteq Expected
    /\ InOrder(Delivered)
    /\ \A n \in Delivered, i \in Expected : i < n => i \in Delivered
    /\ phase = "done" => Delivered = Expected

\* Whether the signature in frame i is followed by another for its block.
Overwritten(i) ==
  \E j \in DOMAIN frames :
    /\ i < j /\ frames[i].kind = "sign" /\ frames[j].kind = "sign"
    /\ \A k \in i..j : \/ frames[k].kind \in {"think", "sign", "blank"}
                       \/ frames[k].kind = "web" /\ ~convert_web_ref

BlockType(e) == IF e.type = "sign" THEN "think" ELSE e.type

\* A response that is not streamed has the same content: OpenAI's the thoughts
\* and then the texts, Anthropic's every frame in order, in blocks that are as
\* few as they can be, and tool_use as the reason to stop if and only if the
\* call is there.
CollectedFaithful ==
  ~stream /\ phase = "done" =>
    IF api = "openai"
    THEN LET thoughts == {i \in Expected : frames[i].kind = "think"}
         IN  /\ Delivered = Expected
             /\ InOrder(thoughts) /\ InOrder(Expected \ thoughts)
             /\ \A i, j \in DOMAIN events.out :
                  events.out[i].n \in thoughts /\ events.out[j].n \in Expected \ thoughts
                    => i < j
    ELSE LET out == Front(events.out)
         IN  /\ Delivered = {i \in Expected : ~Overwritten(i)}
             /\ InOrder(Delivered)
             /\ \A i \in DOMAIN out :
                  out[i].index =
                    IF i = 1 THEN 0
                    ELSE IF BlockType(out[i]) = BlockType(out[i - 1])
                            /\ out[i].type # "redacted"
                    THEN out[i - 1].index ELSE out[i - 1].index + 1
             /\ Last(events.out).type = "tool_use"
                  <=> \E i \in DOMAIN frames : IsTool(frames[i])

\* However the stream is cut into chunks, and although an error leaves frames
\* in the buffer to be decoded again, nothing reaches the client twice.
NothingTwice ==
  \A i, j \in DOMAIN events.out :
    events.out[i].n > 0 /\ events.out[i].n = events.out[j].n => i = j

\* The response has the shape that README gives it: the role comes first, and
\* one chunk with the finish reason comes last before [DONE].
OnlyAt(type, at) == \A i \in DOMAIN events.out : events.out[i].type = type <=> i = at

OpenAiShape ==
  stream /\ api = "openai" /\ phase = "done" =>
    /\ Len(events.out) > 2
    /\ OnlyAt("role", 1)
    /\ OnlyAt("finish", Len(events.out) - 1)

\* Content blocks one after another, numbered from 0, each with deltas of its
\* own type between its start and its stop.
BlockOf(type) ==
  CASE type \in {"start text", "text"} -> "text"
    [] type \in {"start thinking", "think", "sign"} -> "thinking"
    [] type \in {"start tool", "json"} -> "tool"
    [] OTHER -> "none"

Fits(w, e, open) == w.ok /\ w.open = open /\ e.index = w.next
Stops(w, e) == w.open # "none" /\ Fits(w, e, w.open)

Walk(w, e) ==
  CASE e.type \in {"start text", "start thinking", "start tool"} ->
         [ok |-> Fits(w, e, "none"), open |-> BlockOf(e.type), next |-> w.next]
    [] e.type = "stop" -> [ok |-> Stops(w, e), open |-> "none", next |-> w.next + 1]
    [] e.type \in {"text", "think", "sign", "json"} ->
         [w EXCEPT !.ok = Fits(w, e, BlockOf(e.type))]
    [] e.type = "message_stop" -> [w EXCEPT !.ok = @ /\ w.open = "none"]
    [] OTHER -> w

Walked(out) ==
  LET walk[i \in 0..Len(out)] ==
        IF i = 0 THEN [ok |-> TRUE, open |-> "none", next |-> 0]
        ELSE Walk(walk[i - 1], out[i])
  IN  walk[Len(out)]

Sent(type) == \E i \in DOMAIN events.out : events.out[i].type = type

\* The events of a message, from message_start to message_stop, nest the way
\* the comments on StreamState have it, and tool_use is the reason to stop if
\* and only if there was a tool call.
AnthropicShape ==
  stream /\ api = "anthropic" /\ events.out # <<>> /\ ~Sent("error") =>
    /\ Walked(events.out).ok
    /\ OnlyAt("message_start", 1)
    /\ phase = "done" => (Sent("tool_use") <=> Sent("json"))

\* Every response ends, with a last piece or an error status.
Answered == phase \in {"first", "collect"} ~> phase \in {"done", "failed"}
=============================================================================
