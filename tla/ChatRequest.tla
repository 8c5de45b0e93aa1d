---------------------------- MODULE ChatRequest ----------------------------
(***************************************************************************)
(* The life of a chat request in handle_chat_completions and               *)
(* handle_messages (src/src/core/service.rs), the three counters of        *)
(* AppState (src/src/app/model/state.rs) that it moves, and the log actor  *)
(* that it reports to: LogActor, whose steps are taken over, together with *)
(* what the handler does to the counters before it waits again.            *)
(*                                                                         *)
(* The logs are saved when the program is told to end and loaded when it   *)
(* starts, when the counters are computed from them.  A crash loses what   *)
(* happened since the last time they were saved.                           *)
(***************************************************************************)
EXTENDS LogActor

CONSTANTS
  Saver,        \* the reader that calls LogManager::save
  MaxRestarts   \* bound on the restarts

ASSUME SaverAssumption == Saver \in Reader /\ MaxRestarts \in Nat

VARIABLES
  total, active, errors,  \* total_requests, active_requests, error_requests
  begun,      \* requests that this process has counted
  disk,       \* the log file
  restarts

counters == <<total, active, errors>>
requestVars == <<vars, counters, begun, disk, restarts>>

\* LogManager::error_count: a pending log is not a success either.
ErrorCount(mgr) ==
  Cardinality({i \in mgr.first..mgr.last : mgr.logs[i].status # "success"})

TotalCount(mgr) == mgr.last - mgr.first + 1

\* What save writes and load reads.
Snapshot == [first |-> first, last |-> last, logs |-> logs, tokens |-> tokens]

-----------------------------------------------------------------------------
(* The handler *)

Begin(r) ==
  /\ alive
  /\ req[r].pc = "idle" /\ r \notin begun
  /\ begun' = begun \cup {r}
  /\ total' = total + 1
  /\ active' = active + 1
  /\ UNCHANGED <<vars, errors, disk, restarts>>

Ask(r) ==
  /\ r \in begun
  /\ AskId(r)
  /\ UNCHANGED <<counters, begun, disk, restarts>>

WriteLog(r) ==
  /\ SendLog(r)
  /\ UNCHANGED <<counters, begun, disk, restarts>>

\* The upstream server has answered: from here on the request does not count
\* as active any more.
Answers(r) ==
  /\ SendUpdate(r, "success")
  /\ active' = active - 1
  /\ UNCHANGED <<total, errors, begun, disk, restarts>>

\* The request cannot be encoded, or not sent.
Refused(r) ==
  /\ req[r].pc = "logged"
  /\ SendUpdate(r, "failure")
  /\ active' = active - 1
  /\ errors' = errors + 1
  /\ UNCHANGED <<total, begun, disk, restarts>>

FailsUncounted(r) ==
  /\ req[r].pc = "served"
  /\ SendUpdate(r, "failure")
  /\ UNCHANGED <<counters, begun, disk, restarts>>

FailsNoLongerActive(r) ==
  /\ req[r].pc = "served"
  /\ SendUpdate(r, "failure")
  /\ active' = active - 1
  /\ errors' = errors + 1
  /\ UNCHANGED <<total, begun, disk, restarts>>

\* The answer is an error, or ends without any text.
Fails(r) ==
  /\ req[r].pc = "served"
  /\ SendUpdate(r, "failure")
  /\ errors' = errors + 1
  /\ UNCHANGED <<total, active, begun, disk, restarts>>

\* Delays, usage and the thinking text, at the end of the response.
Finishes(r) ==
  /\ SendUpdate(r, "chain")
  /\ UNCHANGED <<counters, begun, disk, restarts>>

\* The stream breaks off before the first text, or before the end of a
\* response that is not streamed: the client gets an error, the log and the
\* counters do not change.
BreaksOff(r) ==
  /\ alive
  /\ req[r].pc = "served"
  /\ req' = [req EXCEPT ![r].pc = "done"]
  /\ UNCHANGED <<mgrVars, chan, reader, alive, counters, begun, disk, restarts>>

\* A handler that is dropped leaves the counters as they are.
Dropped ==
  /\ Disconnect
  /\ UNCHANGED <<counters, begun, disk, restarts>>

\* The same, while the channel has no room for its first command.
DroppedAtOnce(r) ==
  /\ alive
  /\ req[r].pc = "idle" /\ r \in begun /\ Len(chan) = ChanCap
  /\ req' = [req EXCEPT ![r].pc = "gone"]
  /\ UNCHANGED <<mgrVars, chan, reader, alive, counters, begun, disk, restarts>>

-----------------------------------------------------------------------------
(* The actor; clone_to_save is one of the commands it answers. *)

Saves == Receives("read") /\ Head(chan).from = Saver /\ alive'

ActorStep ==
  /\ Actor
  /\ disk' = IF Saves THEN Snapshot ELSE disk
  /\ UNCHANGED <<counters, begun, restarts>>

AskToRead(d) == AskRead(d) /\ UNCHANGED <<counters, begun, disk, restarts>>

-----------------------------------------------------------------------------
(* AppState::load, after a shutdown or a crash *)

ErrorsAtStartForgotten == 0

ErrorsAtStart == ErrorCount(disk)

\* Nobody will update the logs of an earlier run.
Restart ==
  /\ restarts < MaxRestarts
  /\ restarts' = restarts + 1
  /\ first' = disk.first /\ last' = disk.last
  /\ logs' = [i \in disk.first..disk.last |-> [disk.logs[i] EXCEPT !.owner = None]]
  /\ tokens' = disk.tokens
  /\ chan' = <<>>
  /\ req' = [r \in Request |-> IF r \in begun /\ req[r].pc # "done"
                               THEN [req[r] EXCEPT !.pc = "gone"] ELSE req[r]]
  /\ reader' = [d \in Reader |-> "idle"]
  /\ alive' = TRUE
  /\ total' = TotalCount(disk) /\ active' = 0 /\ errors' = ErrorsAtStart
  /\ begun' = {}
  /\ UNCHANGED disk

-----------------------------------------------------------------------------
RequestInit ==
  /\ Init
  /\ disk = Snapshot
  /\ total = TotalCount(disk) /\ active = 0 /\ errors = ErrorsAtStart
  /\ begun = {} /\ restarts = 0

Step(r) == Ask(r) \/ WriteLog(r) \/ Answers(r) \/ Refused(r) \/ Fails(r)
             \/ Finishes(r) \/ BreaksOff(r)

RequestNext ==
  \/ \E r \in Request : Begin(r) \/ Step(r) \/ DroppedAtOnce(r)
  \/ Dropped
  \/ \E d \in Reader : AskToRead(d)
  \/ ActorStep
  \/ Restart

\* As in LogActor!SerialSpec: one request at a time between its id and its
\* log, and a channel that serves waiting senders in their order.
RequestSpec ==
  /\ RequestInit
  /\ [][RequestNext /\ OneAtATime']_requestVars
  /\ WF_requestVars(ActorStep)
  /\ \A r \in Request : SF_requestVars(Step(r))

-----------------------------------------------------------------------------
(* Properties *)

\* Requests that have not been answered by the upstream server.
InFlight == {r \in begun : req[r].pc \in {"idle", "asked", "known", "logged"}}

\* No request is taken off the counter of active requests twice, whichever way
\* it ends: the counter is never below the number of those that still wait for
\* the upstream server, so the u64 does not wrap.
ActiveCovers == active >= Cardinality(InFlight)

\* The number of requests that are active now (README, /health) is not above
\* the number of those that have a handler.
ActiveIsCurrent ==
  active <= Cardinality({r \in begun : req[r].pc \notin {"done", "gone"}})

AtRest ==
  /\ chan = <<>>
  /\ \A r \in begun : req[r].pc = "done"

\* Once all requests are done, the counters are those that a restart computes
\* from the logs: each request is in the logs once, and it is a failure there
\* just if it was counted as one.  (Until a log is evicted.)
CountersAgree ==
  AtRest /\ first = 1 => total = TotalCount(Snapshot) /\ errors = ErrorCount(Snapshot)

\* "Log actor is dead - this should never happen" (manager.rs): the actor
\* outlives its clients, and every log it reads has its token, unless a client
\* was dropped while it waited for an answer.
AliveUnlessDropped ==
  alive \/ (\E r \in Request : req[r].pc = "gone") \/ \E d \in Reader : reader[d] = "gone"
=============================================================================
