------------------------------ MODULE LogActor ------------------------------
(***************************************************************************)
(* The log actor of src/src/app/model/log/manager.rs and its clients.      *)
(*                                                                         *)
(* One task owns the request logs and, for every token key that occurs in  *)
(* them, the token and the number of logs it occurs in.  Everybody else    *)
(* sends it commands through a bounded channel.  A command that wants an   *)
(* answer carries the sender of a oneshot channel; the actor unwraps the   *)
(* result of answering, so an answer that nobody waits for any more ends   *)
(* the actor (and, the release profile aborting on panic, the process).    *)
(*                                                                         *)
(* A chat request asks for the next log id, adds its log under that id,    *)
(* and later updates "the log with this id" (service.rs).  Its connection  *)
(* may be lost while it waits.                                             *)
(*                                                                         *)
(* The logs are numbered through: the VecDeque holds those from first to   *)
(* last, pop_front increases first and push_back last.                     *)
(***************************************************************************)
EXTENDS Integers, Sequences, FiniteSets

CONSTANTS
  Request,   \* chat requests
  Reader,    \* other clients that wait for an answer
  Key,       \* token keys
  None,
  Limit,     \* REQUEST_LOGS_LIMIT (with 0 there is no log, and no update finds one)
  ChanCap,   \* capacity of the channel
  MaxLoaded  \* bound on the logs that load finds in the file

ASSUME LimitPositive == Limit \in Nat \ {0}
ASSUME MaxLoadedNat == MaxLoaded \in Nat
ASSUME NoneAssumption == None \notin Request

VARIABLES
  first, last,  \* the logs in the deque are those from first to last
  logs,         \* their contents
  tokens,       \* AssociatedStorage: TokenKey -> ref_count
  chan,         \* commands that the actor has not received yet
  req,          \* how far each chat request is
  reader,       \* how far each other client is
  alive         \* the actor has not panicked

mgrVars == <<first, last, logs, tokens>>
vars == <<mgrVars, chan, req, reader, alive>>

Status == {"pending", "success", "failure"}
Log == [id : Nat, key : Key, status : Status, owner : Request \cup {None}]

\* Updates other than success and failure leave the status alone.
Update == {"success", "failure", "chain"}

Command ==
       [cmd : {"next"}, from : Request]
  \cup [cmd : {"add"}, from : Request, id : Nat, key : Key]
  \cup [cmd : {"update"}, from : Request, id : Nat, op : Update]
  \cup [cmd : {"read"}, from : Reader]

Pc == {"idle", "asked", "known", "logged", "served", "done", "gone"}
ReqState == [pc : Pc, id : Nat, key : Key]

Window == first..last

-----------------------------------------------------------------------------
(* Clients *)

Send(c) == Len(chan) < ChanCap /\ chan' = Append(chan, c)

\* get_next_log_id: the command is sent, and the answer awaited.
AskId(r) ==
  /\ alive
  /\ req[r].pc = "idle"
  /\ Send([cmd |-> "next", from |-> r])
  /\ req' = [req EXCEPT ![r].pc = "asked"]
  /\ UNCHANGED <<mgrVars, reader, alive>>

\* add_log: a second command, which does not wait for an answer.
SendLog(r) ==
  /\ alive
  /\ req[r].pc = "known"
  /\ Send([cmd |-> "add", from |-> r, id |-> req[r].id, key |-> req[r].key])
  /\ req' = [req EXCEPT ![r].pc = "logged"]
  /\ UNCHANGED <<mgrVars, reader, alive>>

\* update_log, when the upstream server has answered or failed, and again
\* when its stream has ended.
SendUpdate(r, op) ==
  /\ alive
  /\ \/ req[r].pc = "logged" /\ op \in {"success", "failure"}
     \/ req[r].pc = "served" /\ op \in {"failure", "chain"}
  /\ Send([cmd |-> "update", from |-> r, id |-> req[r].id, op |-> op])
  /\ req' = [req EXCEPT ![r].pc = IF op = "success" THEN "served" ELSE "done"]
  /\ UNCHANGED <<mgrVars, reader, alive>>

\* get_logs, get_token, get_tokens and clone_to_save.
AskRead(d) ==
  /\ alive
  /\ reader[d] = "idle"
  /\ Send([cmd |-> "read", from |-> d])
  /\ reader' = [reader EXCEPT ![d] = "asked"]
  /\ UNCHANGED <<mgrVars, req, alive>>

\* The connection of a waiting client is lost, and its handler dropped with
\* the receiver of the answer.
Disconnect ==
  /\ alive
  /\ \/ \E r \in Request :
          /\ \/ req[r].pc \in {"asked", "logged", "served"}
             \/ req[r].pc = "known" /\ Len(chan) = ChanCap
          /\ req' = [req EXCEPT ![r].pc = "gone"]
          /\ UNCHANGED reader
     \/ \E d \in Reader :
          /\ reader[d] = "asked"
          /\ reader' = [reader EXCEPT ![d] = "gone"]
          /\ UNCHANGED req
  /\ UNCHANGED <<mgrVars, chan, alive>>

-----------------------------------------------------------------------------
(* handle_command *)

Receives(cmd) == alive /\ chan # <<>> /\ Head(chan).cmd = cmd /\ chan' = Tail(chan)

NextLogIdByCount == last - first + 2

\* One more than the id of the newest log.
NextLogId == IF first > last THEN 1 ELSE logs[last].id + 1

GetNextLogIdIfAny ==
  /\ Receives("next")
  /\ LET r == Head(chan).from
     IN  req' = [req EXCEPT ![r].pc = IF first > last THEN @ ELSE "known", ![r].id = NextLogId]
  /\ UNCHANGED <<mgrVars, reader, alive>>

GetNextLogId ==
  /\ Receives("next")
  /\ LET r == Head(chan).from
     IN  IF req[r].pc = "asked"
         THEN /\ req' = [req EXCEPT ![r].pc = "known", ![r].id = NextLogId]
              /\ UNCHANGED alive
         ELSE alive' = FALSE /\ UNCHANGED req
  /\ UNCHANGED <<mgrVars, reader>>

\* GetLogs looks up the token of every log it filters by user, and panics if
\* it is not there.
Read ==
  /\ Receives("read")
  /\ LET d == Head(chan).from
     IN  IF reader[d] = "asked" /\ \A i \in Window : logs[i].key \in DOMAIN tokens
         THEN reader' = [reader EXCEPT ![d] = "idle"] /\ UNCHANGED alive
         ELSE alive' = FALSE /\ UNCHANGED reader
  /\ UNCHANGED <<mgrVars, req>>

\* Logs are popped from the front until there is room for one more.
Evicted == first..(last - Limit + 1)

Occurs(S, k) == {i \in S : logs[i].key = k}

ReleaseNothing(out) == tokens

ReleaseAll(out) ==
  [k \in {x \in DOMAIN tokens : Occurs(out, x) = {}} |-> tokens[k]]

\* Every popped log gives up its reference; a count of 0 drops the token.
ReleaseRefs(out) ==
  [k \in {x \in DOMAIN tokens : tokens[x] # Cardinality(Occurs(out, x))} |->
     tokens[k] - Cardinality(Occurs(out, k))]

Retain(t, key) ==
  [k \in DOMAIN t \cup {key} |->
     IF k # key THEN t[k] ELSE IF key \in DOMAIN t THEN t[key] + 1 ELSE 1]

AddLog ==
  /\ Receives("add")
  /\ LET c == Head(chan)
     IN  /\ first' = IF first > last - Limit + 1 THEN first ELSE last - Limit + 2
         /\ last' = last + 1
         /\ logs' = [i \in first'..last' |->
                       IF i = last' THEN [id |-> c.id, key |-> c.key,
                                          status |-> "pending", owner |-> c.from]
                       ELSE logs[i]]
         /\ tokens' = Retain(ReleaseRefs(Evicted), c.key)
  /\ UNCHANGED <<req, reader, alive>>

UpdateTargetNotLast(id) ==
  {i \in first..last-1 : logs[i].id = id /\ \A j \in Window : logs[j].id = id => j <= i}

\* The newest log with this id, if there is one.
UpdateTarget(id) ==
  {i \in Window : logs[i].id = id /\ \A j \in Window : logs[j].id = id => j <= i}

UpdateLog ==
  /\ Receives("update")
  /\ LET c == Head(chan)
     IN  logs' = [i \in Window |->
                    IF i \in UpdateTarget(c.id) /\ c.op # "chain"
                    THEN [logs[i] EXCEPT !.status = c.op] ELSE logs[i]]
  /\ UNCHANGED <<first, last, tokens, req, reader, alive>>

-----------------------------------------------------------------------------
\* load: the logs of an earlier run, with the counts saved along with them.
Init ==
  /\ first = 1
  /\ last \in 0..MaxLoaded
  /\ \E keys \in [1..last -> Key] :
       /\ logs = [i \in 1..last |-> [id |-> i, key |-> keys[i],
                                     status |-> "success", owner |-> None]]
       /\ tokens = [k \in {keys[i] : i \in 1..last} |->
                      Cardinality({i \in 1..last : keys[i] = k})]
  /\ chan = <<>>
  /\ req \in [Request -> {[pc |-> "idle", id |-> 0, key |-> k] : k \in Key}]
  /\ reader = [d \in Reader |-> "idle"]
  /\ alive = TRUE

Client ==
  \/ \E r \in Request : AskId(r) \/ SendLog(r)
  \/ \E r \in Request, op \in Update : SendUpdate(r, op)
  \/ \E d \in Reader : AskRead(d)

Actor == GetNextLogId \/ Read \/ AddLog \/ UpdateLog

Next == Client \/ Disconnect \/ Actor

Spec == Init /\ [][Next]_vars

\* Nobody asks for an id while another request has been given one and its log
\* is not in the deque yet.
Between(r) ==
  \/ req[r].pc \in {"asked", "known"}
  \/ \E i \in DOMAIN chan : chan[i].cmd = "add" /\ chan[i].from = r

OneAtATime == \A r, s \in Request : Between(r) /\ Between(s) => r = s

\* The actor takes what is in its channel, and the channel serves waiting
\* senders in their order, so that none is passed over for ever.
SerialSpec ==
  /\ Init
  /\ [][Next /\ OneAtATime']_vars
  /\ WF_vars(Actor)
  /\ \A r \in Request : SF_vars(SendLog(r) \/ \E op \in Update : SendUpdate(r, op))

-----------------------------------------------------------------------------
(* Properties *)

\* Every variable has its type.
TypeOK ==
  /\ first \in Nat \ {0}
  /\ last \in Nat /\ first <= last + 1
  /\ logs \in [Window -> Log]
  /\ DOMAIN tokens \subseteq Key
  /\ \A k \in DOMAIN tokens : tokens[k] \in Nat
  /\ chan \in Seq(Command)
  /\ req \in [Request -> ReqState]
  /\ reader \in [Reader -> {"idle", "asked", "gone"}]
  /\ alive \in BOOLEAN

\* The counts are those of the logs, through any series of additions and
\* evictions: no token is dropped while a log refers to it (GetLogs would
\* panic), and none outlives its logs (get_token would go on accepting it).
RefsExact ==
  /\ DOMAIN tokens = {logs[i].key : i \in Window}
  /\ \A k \in DOMAIN tokens : tokens[k] = Cardinality(Occurs(Window, k))

\* An update reaches the log of the request that sends it, or none when that
\* log has been evicted.
UpdateReachesOwnLog ==
  [][Receives("update") =>
       UpdateTarget(Head(chan).id) = {i \in Window : logs[i].owner = Head(chan).from}]_vars

\* Ids increase along the deque, so that an id names one log, also past the
\* eviction of older ones and a restart.
IdsIncrease == \A i, j \in Window : i < j => logs[i].id < logs[j].id

\* A request that has asked for an id is not held up for ever by the bounded
\* channel: it gets its id, logs, and sends its last update, unless it goes
\* away or the actor has ended.
RequestsFinish ==
  \A r \in Request : req[r].pc = "asked" ~> req[r].pc \in {"done", "gone"} \/ ~alive

\* The log of a request that stays does not remain pending unless it is
\* evicted.
PendingEnds ==
  \A r \in Request :
    req[r].pc = "logged" ~>
      \/ req[r].pc = "gone" \/ ~alive
      \/ \A i \in Window : logs[i].owner = r => logs[i].status # "pending"
=============================================================================
