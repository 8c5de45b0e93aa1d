------------------------------ MODULE DebugLog ------------------------------
(***************************************************************************)
(* The debug log of src/src/app/lazy/log.rs.                               *)
(*                                                                         *)
(* debug! takes a sequence number and spawns a task that sends the line to *)
(* the writer's channel, so lines arrive in any order.  The writer holds   *)
(* back what is ahead of next_seq, gives up on a number when too many      *)
(* lines wait for it, collects lines in a buffer and writes the buffer to  *)
(* the file.  flush_all_debug_logs tells it to write what it has and end,  *)
(* and waits for that for 5 seconds at most.                               *)
(*                                                                         *)
(* A line is its number.  The select of the writer's loop is biased, but a *)
(* line may come after the channel was found empty and before the timer    *)
(* or the signal is looked at: all three arms may run at any time.  Its    *)
(* else arm is for a closed channel; the static keeps a sender, so it is   *)
(* never taken.                                                            *)
(***************************************************************************)
EXTENDS Integers, Sequences, SequencesExt, FiniteSetsExt

CONSTANTS
  MaxSeq,                 \* bound on the lines that are logged
  BUFFER_CAPACITY,        \* in lines
  MAX_PENDING_MESSAGES,
  OUT_OF_ORDER_THRESHOLD

ASSUME LimitsAssumption ==
  /\ MaxSeq \in Nat /\ BUFFER_CAPACITY \in Nat \ {0}
  /\ MAX_PENDING_MESSAGES \in Nat /\ OUT_OF_ORDER_THRESHOLD \in Nat

VARIABLES
  issued,     \* LOG_SEQUENCE
  tasks,      \* lines whose task has not run yet
  writer,     \* none (not initialised), running, draining (in its last flush), ended
  chan,       \* the unbounded channel
  pending,    \* pending_messages
  next_seq,
  buffer,
  file,       \* what the log file holds
  signal,     \* shutdown_tx
  caller,     \* of flush_all_debug_logs: running, waiting, done
  skipped,    \* history: numbers that next_seq was moved past
  lost,       \* history: lines in a buffer that could not be written
  missed      \* history: lines sent when the writer did not read any more

writerVars == <<pending, next_seq, buffer, file, skipped, lost>>
vars == <<issued, tasks, writer, chan, signal, caller, missed, writerVars>>

Alive == caller # "done"

-----------------------------------------------------------------------------
(* debug! and submit_debug_log *)

Debug ==
  /\ Alive
  /\ issued < MaxSeq
  /\ tasks' = tasks \cup {issued}
  /\ issued' = issued + 1
  /\ UNCHANGED <<writer, chan, signal, caller, missed, writerVars>>

\* The first task starts the writer.  The receiver is dropped when the writer
\* ends; until then a line is accepted, read or not.
Send(s) ==
  /\ Alive
  /\ s \in tasks
  /\ tasks' = tasks \ {s}
  /\ writer' = IF writer = "none" THEN "running" ELSE writer
  /\ chan' = IF writer = "ended" THEN chan ELSE Append(chan, s)
  /\ missed' = IF writer \in {"draining", "ended"} THEN missed \cup {s} ELSE missed
  /\ UNCHANGED <<issued, signal, caller, writerVars>>

-----------------------------------------------------------------------------
(* flush_byte_buffer: of the lines in b the first n are written, or lost if *)
(* writing fails.                                                           *)

Flush(b, n, ok) ==
  /\ buffer' = SubSeq(b, n + 1, Len(b))
  /\ file' = IF ok THEN file \o SubSeq(b, 1, n) ELSE file
  /\ lost' = IF ok THEN lost ELSE lost \cup {b[i] : i \in 1..n}

-----------------------------------------------------------------------------
(* The writer's loop *)

RunAll(s, p) == p

\* The lines from s on that are there without a gap.
RunFrom(s, p) == {x \in p : s <= x /\ s..x \subseteq p}

\* A BTreeMap gives its lines by their numbers.
Sorted(S) ==
  [i \in 1..Cardinality(S) |-> CHOOSE x \in S : Cardinality({y \in S : y < x}) = i - 1]

\* Too many lines wait: on with the oldest, even if it is behind next_seq.
StartWith(p) ==
  IF Cardinality(p) > MAX_PENDING_MESSAGES THEN Min(p) ELSE next_seq

Skip(to) ==
  /\ next_seq' = to
  /\ skipped' = skipped \cup next_seq..to-1

\* A full buffer is flushed in between, so that less than a buffer is left.
Receive(ok) ==
  LET p   == pending \cup {Head(chan)}
      s   == StartWith(p)
      run == RunFrom(s, p)
      b   == buffer \o Sorted(run)
  IN  /\ Alive
      /\ writer = "running"
      /\ chan # <<>>
      /\ chan' = Tail(chan)
      /\ pending' = p \ run
      /\ next_seq' = s + Cardinality(run)
      /\ skipped' = skipped \cup next_seq..s-1
      /\ Flush(b, (Len(b) \div BUFFER_CAPACITY) * BUFFER_CAPACITY, ok)
      /\ UNCHANGED <<issued, tasks, writer, signal, caller, missed>>

TickIdle(ok) ==
  /\ Alive
  /\ writer = "running"
  /\ UNCHANGED vars

\* The timer.  A gap that has become too wide is given up; the lines behind it
\* stay where they are until the next one comes.
Tick(ok) ==
  /\ Alive
  /\ writer = "running"
  /\ IF pending # {} /\ Min(pending) > next_seq + OUT_OF_ORDER_THRESHOLD
     THEN Skip(Min(pending)) ELSE UNCHANGED <<next_seq, skipped>>
  /\ Flush(buffer, Len(buffer), ok)
  /\ UNCHANGED <<issued, tasks, writer, chan, signal, caller, missed, pending>>

LeftoverPendingOnly == pending

\* What the writer still has when it is told to end.
Leftover == pending \cup ToSet(chan)

Shutdown ==
  /\ Alive
  /\ writer = "running"
  /\ signal
  /\ writer' = "draining"
  /\ chan' = <<>>
  /\ pending' = {}
  /\ buffer' = buffer \o Sorted(Leftover)
  /\ next_seq' = IF Leftover = {} THEN next_seq ELSE Max(Leftover) + 1
  /\ UNCHANGED <<issued, tasks, signal, caller, missed, file, skipped, lost>>

LastFlush(ok) ==
  /\ Alive
  /\ writer = "draining"
  /\ Flush(buffer, Len(buffer), ok)
  /\ writer' = "ended"
  /\ UNCHANGED <<issued, tasks, chan, signal, caller, missed, pending, next_seq, skipped>>

-----------------------------------------------------------------------------
(* flush_all_debug_logs, the last thing the program does *)

FlushAll ==
  /\ caller = "running"
  /\ signal' = (writer # "none")
  /\ caller' = IF writer = "none" THEN "done" ELSE "waiting"
  /\ UNCHANGED <<issued, tasks, writer, chan, missed, writerVars>>

Joined ==
  /\ caller = "waiting"
  /\ writer = "ended"
  /\ caller' = "done"
  /\ UNCHANGED <<issued, tasks, writer, chan, signal, missed, writerVars>>

\* 5 seconds are over.
TimedOut ==
  /\ caller = "waiting"
  /\ writer # "ended"
  /\ caller' = "done"
  /\ UNCHANGED <<issued, tasks, writer, chan, signal, missed, writerVars>>

-----------------------------------------------------------------------------
Init ==
  /\ issued = 0 /\ tasks = {}
  /\ writer = "none" /\ chan = <<>>
  /\ pending = {} /\ next_seq = 0 /\ buffer = <<>> /\ file = <<>>
  /\ signal = FALSE /\ caller = "running"
  /\ skipped = {} /\ lost = {} /\ missed = {}

Next ==
  \/ Debug
  \/ \E s \in tasks : Send(s)
  \/ \E ok \in BOOLEAN : Receive(ok) \/ Tick(ok) \/ LastFlush(ok)
  \/ Shutdown
  \/ FlushAll \/ Joined \/ TimedOut

\* The runtime runs every task that can run, and the timer fires.
Spec ==
  /\ Init /\ [][Next]_vars
  /\ \A s \in 0..MaxSeq-1 : WF_vars(Send(s))
  /\ WF_vars(\E ok \in BOOLEAN : Receive(ok))
  /\ WF_vars(\E ok \in BOOLEAN : Tick(ok))

-----------------------------------------------------------------------------
(* Properties *)

Out == file \o buffer

\* "The sequence number keeps the lines in order" (LogMessage.seq): the file
\* has a line after one with a higher number only if the writer had given up
\* on it.
InOrder ==
  \A i, j \in DOMAIN Out : i < j /\ Out[i] > Out[j] => Out[j] \in skipped

Sent == (0..issued-1) \ tasks

\* A line that has been sent is in exactly one place on its way to the file,
\* and once the writer has ended that place is the file, unless writing failed
\* or the line came when the writer did not read any more ("makes sure that
\* all buffered lines are written", flush_all_debug_logs).
NothingLost ==
  /\ IsInjective(Out \o chan)
  /\ Sent = ToSet(Out) \cup ToSet(chan) \cup pending \cup lost \cup missed
  /\ pending \cap (ToSet(Out) \cup ToSet(chan)) = {}
  /\ writer = "ended" => Sent = ToSet(file) \cup lost \cup missed

\* Every line gets to the file while the program runs, whatever the order in
\* which the tasks send, unless a number was given up or writing failed.
EventuallyWritten ==
  \A s \in 0..MaxSeq-1 :
    s \in tasks ~> s \in ToSet(file) \/ skipped # {} \/ lost # {} \/ caller # "running"
=============================================================================
