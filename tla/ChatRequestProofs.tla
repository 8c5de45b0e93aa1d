-------------------------- MODULE ChatRequestProofs --------------------------
(***************************************************************************)
(* First, the log actor for itself: its reference counts are exact, for    *)
(* any number of clients, keys and logs, any limit, any channel capacity,  *)
(* and whatever clients do.  The counts and the types are inductive        *)
(* together: that the counts are exact is what keeps them from going below *)
(* zero.  Then ids, with one request at a time between its id and its log. *)
(*                                                                         *)
(* Second, chat requests, their logs and the counters, for any number of   *)
(* requests, readers, keys and logs, over crashes and restarts, again with *)
(* one request at a time between its id and its log.  The steps of the log *)
(* actor are those of the first part.  What is added says where every      *)
(* request that has been counted is found: among those without a log, in   *)
(* the channel, in the deque, or in the updates that are still to be       *)
(* applied.                                                                *)
(***************************************************************************)
EXTENDS ChatRequest, FiniteSetTheorems, TLAPS

-----------------------------------------------------------------------------
(* The log actor *)

IInv == TypeOK /\ RefsExact

\* The positions of a key within a finite set of positions are finitely many.
LEMMA OccursFinite ==
  ASSUME NEW S, IsFiniteSet(S), NEW k
  PROVE  /\ IsFiniteSet(Occurs(S, k))
         /\ Cardinality(Occurs(S, k)) \in Nat
<1>1. Occurs(S, k) \in SUBSET S
  BY DEF Occurs
<1>2. IsFiniteSet(Occurs(S, k))
  BY <1>1, FS_Subset
<1> QED
  BY <1>2, FS_CardinalityType

\* load: the counts in the file are those of its logs.
LEMMA InitIInv == Init => IInv
<1> SUFFICES ASSUME Init PROVE IInv
  OBVIOUS
<1>1. PICK keys \in [1..last -> Key] :
        /\ logs = [i \in 1..last |-> [id |-> i, key |-> keys[i],
                                      status |-> "success", owner |-> None]]
        /\ tokens = [k \in {keys[i] : i \in 1..last} |->
                       Cardinality({i \in 1..last : keys[i] = k})]
  BY DEF Init
<1>2. first = 1 /\ last \in Nat /\ Window = 1..last
  BY MaxLoadedNat DEF Init, Window
<1>3. IsFiniteSet(Window)
  BY <1>2, FS_Interval
<1>4. \A k : Occurs(Window, k) = {i \in 1..last : keys[i] = k}
  BY <1>1, <1>2 DEF Occurs
<1>5. DOMAIN tokens = {logs[i].key : i \in Window}
  BY <1>1, <1>2
<1>6. RefsExact
  BY <1>1, <1>4, <1>5 DEF RefsExact
<1>7. \A k \in DOMAIN tokens : tokens[k] \in Nat
  <2> SUFFICES ASSUME NEW k \in DOMAIN tokens PROVE tokens[k] \in Nat
    OBVIOUS
  <2> QED
    BY <1>3, <1>6, OccursFinite DEF RefsExact
<1>8. logs \in [Window -> Log]
  BY <1>1, <1>2 DEF Log, Status
<1>9. DOMAIN tokens \subseteq Key
  BY <1>1
<1>10. chan \in Seq(Command) /\ reader \in [Reader -> {"idle", "asked", "gone"}] /\ alive \in BOOLEAN
  BY DEF Init
<1>11. req \in [Request -> ReqState]
  BY DEF Init, ReqState, Pc
<1> QED
  BY <1>2, <1>6, <1>7, <1>8, <1>9, <1>10, <1>11 DEF IInv, TypeOK

\* A request moves on, and may learn its id.
LEMMA ReqStep ==
  ASSUME req \in [Request -> ReqState], NEW r \in Request, NEW p \in Pc, NEW n \in Nat
  PROVE  /\ [req EXCEPT ![r].pc = p] \in [Request -> ReqState]
         /\ [req EXCEPT ![r].pc = p, ![r].id = n] \in [Request -> ReqState]
<1>1. [req[r] EXCEPT !.pc = p] \in ReqState
  BY DEF ReqState
<1>2. [req[r] EXCEPT !.pc = p, !.id = n] \in ReqState
  BY DEF ReqState
<1> QED
  BY <1>1, <1>2

\* The commands that clients send do not touch the logs or the counts.
LEMMA ClientIInv == IInv /\ (Client \/ Disconnect) => IInv'
<1> SUFFICES ASSUME IInv, Client \/ Disconnect PROVE IInv'
  OBVIOUS
<1>1. UNCHANGED <<mgrVars, alive>>
  BY DEF Client, Disconnect, AskId, SendLog, SendUpdate, AskRead
<1>2. RefsExact'
  BY <1>1 DEF IInv, RefsExact, mgrVars, Window, Occurs
<1>3. chan' \in Seq(Command)
  <2>1. CASE Disconnect
    BY <2>1 DEF Disconnect, IInv, TypeOK
  <2>2. ASSUME NEW r \in Request, AskId(r) PROVE chan' \in Seq(Command)
    BY <2>2 DEF AskId, Send, IInv, TypeOK, Command
  <2>3. ASSUME NEW r \in Request, SendLog(r) PROVE chan' \in Seq(Command)
    BY <2>3 DEF SendLog, Send, IInv, TypeOK, Command, ReqState
  <2>4. ASSUME NEW r \in Request, NEW op \in Update, SendUpdate(r, op) PROVE chan' \in Seq(Command)
    BY <2>4 DEF SendUpdate, Send, IInv, TypeOK, Command, ReqState
  <2>5. ASSUME NEW d \in Reader, AskRead(d) PROVE chan' \in Seq(Command)
    BY <2>5 DEF AskRead, Send, IInv, TypeOK, Command
  <2> QED
    BY <2>1, <2>2, <2>3, <2>4, <2>5 DEF Client
<1>4. /\ req' \in [Request -> ReqState]
      /\ reader' \in [Reader -> {"idle", "asked", "gone"}]
  <2>t. req \in [Request -> ReqState] /\ reader \in [Reader -> {"idle", "asked", "gone"}]
    BY DEF IInv, TypeOK
  <2>1. ASSUME NEW r \in Request, NEW p \in Pc, req' = [req EXCEPT ![r].pc = p]
        PROVE  req' \in [Request -> ReqState]
    <3>1. 0 \in Nat
      OBVIOUS
    <3> QED
      BY <2>1, <2>t, <3>1, ReqStep
  <2>2. CASE Disconnect
    BY <2>2, <2>t, <2>1 DEF Disconnect, Pc
  <2>3. ASSUME NEW r \in Request, AskId(r) PROVE req' \in [Request -> ReqState] /\ reader' \in [Reader -> {"idle", "asked", "gone"}]
    BY <2>3, <2>t, <2>1 DEF AskId, Pc
  <2>4. ASSUME NEW r \in Request, SendLog(r) PROVE req' \in [Request -> ReqState] /\ reader' \in [Reader -> {"idle", "asked", "gone"}]
    BY <2>4, <2>t, <2>1 DEF SendLog, Pc
  <2>5. ASSUME NEW r \in Request, NEW op \in Update, SendUpdate(r, op) PROVE req' \in [Request -> ReqState] /\ reader' \in [Reader -> {"idle", "asked", "gone"}]
    BY <2>5, <2>t, <2>1 DEF SendUpdate, Pc
  <2>6. ASSUME NEW d \in Reader, AskRead(d) PROVE req' \in [Request -> ReqState] /\ reader' \in [Reader -> {"idle", "asked", "gone"}]
    BY <2>6, <2>t DEF AskRead
  <2> QED
    BY <2>2, <2>3, <2>4, <2>5, <2>6 DEF Client
<1> QED
  BY <1>1, <1>2, <1>3, <1>4 DEF IInv, TypeOK, mgrVars, Window

\* Receiving takes a well-formed command off the channel.
LEMMA Received ==
  ASSUME IInv, NEW cmd, Receives(cmd)
  PROVE  /\ Head(chan) \in Command /\ Head(chan).cmd = cmd
         /\ chan' \in Seq(Command)
BY DEF IInv, TypeOK, Receives

\* Answers change neither the logs nor the counts.
LEMMA AnswerIInv == IInv /\ (GetNextLogId \/ Read) => IInv'
<1> SUFFICES ASSUME IInv, GetNextLogId \/ Read PROVE IInv'
  OBVIOUS
<1>1. UNCHANGED mgrVars
  BY DEF GetNextLogId, Read
<1>2. RefsExact'
  BY <1>1 DEF IInv, RefsExact, mgrVars, Window, Occurs
<1>3. chan' \in Seq(Command) /\ alive' \in BOOLEAN
  BY Received DEF GetNextLogId, Read, IInv, TypeOK
<1>4. NextLogId \in Nat
  BY DEF IInv, TypeOK, Window, Log, NextLogId
<1>5. reader' \in [Reader -> {"idle", "asked", "gone"}]
  BY DEF GetNextLogId, Read, IInv, TypeOK
<1>6. req' \in [Request -> ReqState]
  <2>t. req \in [Request -> ReqState]
    BY DEF IInv, TypeOK
  <2>1. CASE Read
    BY <2>1, <2>t DEF Read
  <2>2. CASE GetNextLogId
    <3>1. PICK r : r = Head(chan).from
      OBVIOUS
    <3>2. r \in Request
      BY <3>1, <2>2, Received DEF GetNextLogId, Command
    <3>3. req' = [req EXCEPT ![r].pc = "known", ![r].id = NextLogId] \/ req' = req
      BY <2>2, <3>1 DEF GetNextLogId
    <3>4. "known" \in Pc
      BY DEF Pc
    <3>5. [req EXCEPT ![r].pc = "known", ![r].id = NextLogId] \in [Request -> ReqState]
      BY <3>2, <3>4, <2>t, <1>4, ReqStep
    <3> QED
      BY <3>3, <3>5, <2>t
  <2> QED
    BY <2>1, <2>2
<1> QED
  BY <1>1, <1>2, <1>3, <1>5, <1>6 DEF IInv, TypeOK, mgrVars, Window

\* An update changes the status of a log, never its key.
LEMMA UpdateIInv == IInv /\ UpdateLog => IInv'
<1> SUFFICES ASSUME IInv, UpdateLog PROVE IInv'
  OBVIOUS
<1>1. Head(chan) \in Command /\ Head(chan).cmd = "update" /\ chan' \in Seq(Command)
  BY Received DEF UpdateLog
<1>2. Head(chan).op \in Update
  BY <1>1 DEF Command
<1>3. first' = first /\ last' = last /\ tokens' = tokens /\ Window' = Window
  BY DEF UpdateLog, Window
<1>4. logs' \in [Window -> Log] /\ \A i \in Window : logs'[i].key = logs[i].key
  <2>t. logs \in [Window -> Log]
    BY DEF IInv, TypeOK
  <2>1. PICK op, id : op = Head(chan).op /\ id = Head(chan).id
    OBVIOUS
  <2>2. logs' = [i \in Window |-> IF i \in UpdateTarget(id) /\ op # "chain"
                                  THEN [logs[i] EXCEPT !.status = op] ELSE logs[i]]
    BY <2>1 DEF UpdateLog
  <2>3. op # "chain" => op \in Status
    BY <2>1, <1>2 DEF Update, Status
  <2>4. ASSUME NEW i \in Window
        PROVE  logs'[i] \in Log /\ logs'[i].key = logs[i].key
    <3>1. logs[i] \in Log
      BY <2>t
    <3>2. op # "chain" => [logs[i] EXCEPT !.status = op] \in Log
      BY <3>1, <2>3 DEF Log
    <3>3. [logs[i] EXCEPT !.status = op].key = logs[i].key
      BY <3>1 DEF Log
    <3> QED
      BY <2>2, <3>1, <3>2, <3>3
  <2> QED
    BY <2>2, <2>4
<1>5. \A k : Occurs(Window, k)' = Occurs(Window, k)
  BY <1>3, <1>4 DEF Occurs
<1>6. {logs'[i].key : i \in Window} = {logs[i].key : i \in Window}
  BY <1>4
<1>7. RefsExact'
  BY <1>3, <1>5, <1>6 DEF IInv, RefsExact
<1> QED
  BY <1>1, <1>3, <1>4, <1>7 DEF IInv, TypeOK, UpdateLog

\* The heart of the matter: what the evicted logs give up and the new log
\* adds is the difference of the counts.
LEMMA AddIInv == IInv /\ AddLog => IInv'
<1> SUFFICES ASSUME IInv, AddLog PROVE IInv'
  OBVIOUS
<1>c. Head(chan) \in Command /\ Head(chan).cmd = "add" /\ chan' \in Seq(Command)
  BY Received DEF AddLog
<1>k. PICK c : c = Head(chan)
  OBVIOUS
<1>ck. c.key \in Key /\ c.id \in Nat /\ c.from \in Request
  BY <1>c, <1>k DEF Command
<1>t. first \in Nat \ {0} /\ last \in Nat /\ first <= last + 1 /\ logs \in [first..last -> Log] /\ Limit \in Nat \ {0}
  BY LimitPositive DEF IInv, TypeOK, Window
<1>add. /\ first' = IF first > last - Limit + 1 THEN first ELSE last - Limit + 2
        /\ last' = last + 1
        /\ logs' = [i \in first'..last' |->
                      IF i = last' THEN [id |-> c.id, key |-> c.key,
                                         status |-> "pending", owner |-> c.from]
                      ELSE logs[i]]
        /\ tokens' = Retain(ReleaseRefs(Evicted), c.key)
        /\ UNCHANGED <<req, reader, alive>>
  BY <1>k DEF AddLog
<1>win. /\ first' \in Nat \ {0} /\ last' \in Nat /\ first' <= last' + 1
        /\ Window' = (Window \ Evicted) \cup {last + 1}
        /\ last + 1 \notin Window
        /\ Evicted \subseteq Window
  <2>1. Window = first..last /\ Evicted = first..(last - Limit + 1) /\ Window' = first'..(last + 1)
    BY <1>add DEF Window, Evicted
  <2>2. CASE first > last - Limit + 1
    <3>1. first' = first /\ last' = last + 1
      BY <2>2, <1>add
    <3>2. Evicted = {}
      BY <2>1, <2>2, <1>t
    <3>3. \A i : i \in first..(last + 1) <=> i \in (first..last) \cup {last + 1}
      BY <3>2, <2>2, <1>t
    <3> QED
      BY <2>1, <3>1, <3>2, <3>3, <1>t
  <2>3. CASE ~(first > last - Limit + 1)
    <3>1. first' = last - Limit + 2 /\ last' = last + 1
      BY <2>3, <1>add
    <3>2. first' \in Nat \ {0}
      BY <3>1, <2>3, <1>t
    <3>3. \A i : i \in first'..(last + 1) <=> i \in ((first..last) \ (first..(last - Limit + 1))) \cup {last + 1}
      BY <3>1, <2>3, <1>t
    <3> QED
      BY <2>1, <2>3, <3>1, <3>2, <3>3, <1>t
  <2> QED
    BY <2>2, <2>3
<1>fin. IsFiniteSet(Window) /\ IsFiniteSet(Evicted)
  <2>1. last - Limit + 1 \in Int
    BY <1>t
  <2> QED
    BY <2>1, <1>t, FS_Interval DEF Window, Evicted
<1>log. /\ logs' \in [Window' -> Log]
        /\ logs'[last + 1].key = c.key
        /\ \A i \in Window \ Evicted : logs'[i] = logs[i]
  <2>1. logs' = [i \in Window' |-> IF i = last + 1
                                   THEN [id |-> c.id, key |-> c.key, status |-> "pending", owner |-> c.from]
                                   ELSE logs[i]]
    BY <1>add DEF Window
  <2>2. [id |-> c.id, key |-> c.key, status |-> "pending", owner |-> c.from] \in Log
    BY <1>ck DEF Log, Status
  <2>3. \A i \in Window : logs[i] \in Log
    BY <1>t DEF Window
  <2> QED
    BY <2>1, <2>2, <2>3, <1>win
<1>count. ASSUME NEW k
          PROVE  /\ Cardinality(Occurs(Window, k)) \in Nat
                 /\ Cardinality(Occurs(Evicted, k)) \in Nat
                 /\ Cardinality(Occurs(Evicted, k)) <= Cardinality(Occurs(Window, k))
                 /\ Cardinality(Occurs(Window, k)') =
                      Cardinality(Occurs(Window, k)) - Cardinality(Occurs(Evicted, k))
                      + (IF k = c.key THEN 1 ELSE 0)
  <2> DEFINE keep == Occurs(Window, k) \ Occurs(Evicted, k)
  <2>1. /\ IsFiniteSet(Occurs(Window, k)) /\ Cardinality(Occurs(Window, k)) \in Nat
        /\ IsFiniteSet(Occurs(Evicted, k)) /\ Cardinality(Occurs(Evicted, k)) \in Nat
    BY <1>fin, OccursFinite
  <2>2. Occurs(Evicted, k) \in SUBSET Occurs(Window, k)
    BY <1>win DEF Occurs
  <2>3. Cardinality(Occurs(Evicted, k)) <= Cardinality(Occurs(Window, k))
    BY <2>1, <2>2, FS_Subset
  <2>4. Occurs(Window, k) \cap Occurs(Evicted, k) = Occurs(Evicted, k)
    BY <2>2
  <2>5. /\ IsFiniteSet(keep)
        /\ Cardinality(keep) = Cardinality(Occurs(Window, k)) - Cardinality(Occurs(Evicted, k))
    BY <2>1, <2>4, FS_Difference
  <2>6. last + 1 \notin keep
    BY <1>win DEF Occurs
  <2>7. Occurs(Window, k)' = IF k = c.key THEN keep \cup {last + 1} ELSE keep
    <3>1. Occurs(Window, k)' = {i \in Window' : logs'[i].key = k}
      BY DEF Occurs
    <3>2. keep = {i \in Window \ Evicted : logs'[i].key = k}
      BY <1>log, <1>win DEF Occurs
    <3> QED
      BY <3>1, <3>2, <1>win, <1>log
  <2>8. CASE k = c.key
    <3>1. Cardinality(keep \cup {last + 1}) = Cardinality(keep) + 1
      BY <2>5, <2>6, FS_AddElement
    <3> HIDE DEF keep
    <3> QED
      BY <3>1, <2>1, <2>3, <2>5, <2>7, <2>8
  <2>9. CASE k # c.key
    <3> HIDE DEF keep
    <3> QED
      BY <2>1, <2>3, <2>5, <2>7, <2>9
  <2> QED
    BY <2>8, <2>9
<1>old. /\ DOMAIN tokens = {logs[i].key : i \in Window}
        /\ \A k \in DOMAIN tokens : tokens[k] = Cardinality(Occurs(Window, k))
        /\ DOMAIN tokens \subseteq Key
  BY DEF IInv, RefsExact, TypeOK
<1>zero. ASSUME NEW k
         PROVE  /\ k \notin DOMAIN tokens => Cardinality(Occurs(Window, k)) = 0
                /\ Cardinality(Occurs(Window, k)') = 0 <=> k \notin {logs'[i].key : i \in Window'}
  <2>1. k \notin DOMAIN tokens => Occurs(Window, k) = {}
    BY <1>old DEF Occurs
  <2>2. IsFiniteSet(Occurs(Window, k)')
    <3>1. IsFiniteSet(Window')
      BY <1>win, FS_Interval DEF Window
    <3>2. Occurs(Window, k)' \in SUBSET Window'
      BY DEF Occurs
    <3> QED
      BY <3>1, <3>2, FS_Subset
  <2>3. Occurs(Window, k)' = {} <=> k \notin {logs'[i].key : i \in Window'}
    BY DEF Occurs
  <2> QED
    BY <2>1, <2>2, <2>3, FS_EmptySet
<1>new. /\ DOMAIN tokens' = {k \in DOMAIN tokens : tokens[k] # Cardinality(Occurs(Evicted, k))} \cup {c.key}
        /\ \A k \in DOMAIN tokens' : tokens'[k] = Cardinality(Occurs(Window, k)')
  <2> DEFINE t == ReleaseRefs(Evicted)
  <2>1. DOMAIN t = {k \in DOMAIN tokens : tokens[k] # Cardinality(Occurs(Evicted, k))}
    BY DEF ReleaseRefs
  <2>2. \A k \in DOMAIN t : t[k] = tokens[k] - Cardinality(Occurs(Evicted, k))
    BY DEF ReleaseRefs
  <2> HIDE DEF t
  <2>3. tokens' = [k \in DOMAIN t \cup {c.key} |->
                     IF k # c.key THEN t[k] ELSE IF c.key \in DOMAIN t THEN t[c.key] + 1 ELSE 1]
    BY <1>add DEF Retain, t
  <2>4. ASSUME NEW k \in DOMAIN t \cup {c.key} PROVE tokens'[k] = Cardinality(Occurs(Window, k)')
    <3>1. CASE k \in DOMAIN t
      <4>1. k \in DOMAIN tokens /\ tokens[k] = Cardinality(Occurs(Window, k))
        BY <3>1, <2>1, <1>old
      <4>2. tokens'[k] = IF k = c.key THEN t[k] + 1 ELSE t[k]
        BY <3>1, <2>3
      <4>3. t[k] = tokens[k] - Cardinality(Occurs(Evicted, k))
        BY <3>1, <2>2
      <4> QED
        BY <4>1, <4>2, <4>3, <1>count
    <3>2. CASE k \notin DOMAIN t
      <4>1. k = c.key /\ tokens'[k] = 1
        BY <3>2, <2>3, <2>4
      <4>2. CASE k \in DOMAIN tokens
        BY <4>1, <4>2, <3>2, <2>1, <1>old, <1>count
      <4>3. CASE k \notin DOMAIN tokens
        BY <4>1, <4>3, <1>zero, <1>count
      <4> QED
        BY <4>2, <4>3
    <3> QED
      BY <3>1, <3>2
  <2> QED
    BY <2>1, <2>3, <2>4
<1>dom. DOMAIN tokens' = {logs'[i].key : i \in Window'}
  <2>1. ASSUME NEW k \in DOMAIN tokens' PROVE k \in {logs'[i].key : i \in Window'}
    <3>1. CASE k = c.key
      BY <3>1, <1>log, <1>win
    <3>2. CASE k # c.key
      <4>1. k \in DOMAIN tokens /\ tokens[k] # Cardinality(Occurs(Evicted, k))
        BY <3>2, <2>1, <1>new
      <4>2. Cardinality(Occurs(Window, k)) # Cardinality(Occurs(Evicted, k))
        BY <4>1, <1>old
      <4>3. Cardinality(Occurs(Window, k)') # 0
        <5>1. PICK a, b, n : /\ a = Cardinality(Occurs(Window, k)) /\ b = Cardinality(Occurs(Evicted, k))
                             /\ n = Cardinality(Occurs(Window, k)')
          OBVIOUS
        <5>2. a \in Nat /\ b \in Nat /\ b <= a /\ n = a - b + (IF k = c.key THEN 1 ELSE 0)
          BY <5>1, <1>count
        <5>3. n # 0
          BY <5>1, <5>2, <4>2, <3>2
        <5> QED
          BY <5>1, <5>3
      <4> QED
        BY <4>3, <1>zero
    <3> QED
      BY <3>1, <3>2
  <2>2. ASSUME NEW k, k \notin DOMAIN tokens' PROVE k \notin {logs'[i].key : i \in Window'}
    <3>1. k # c.key
      BY <2>2, <1>new
    <3>2. Cardinality(Occurs(Window, k)) = Cardinality(Occurs(Evicted, k))
      <4>1. CASE k \in DOMAIN tokens
        BY <4>1, <2>2, <1>new, <1>old
      <4>2. CASE k \notin DOMAIN tokens
        BY <4>2, <1>zero, <1>count
      <4> QED
        BY <4>1, <4>2
    <3> QED
      BY <3>1, <3>2, <1>count, <1>zero
  <2> QED
    BY <2>1, <2>2
<1>refs. RefsExact'
  BY <1>new, <1>dom DEF RefsExact
<1>type. TypeOK'
  <2>1. DOMAIN tokens' \subseteq Key
    BY <1>new, <1>old, <1>ck
  <2>2. \A k \in DOMAIN tokens' : tokens'[k] \in Nat
    BY <1>new, <1>count
  <2>3. /\ req' \in [Request -> ReqState]
        /\ reader' \in [Reader -> {"idle", "asked", "gone"}]
        /\ alive' \in BOOLEAN
    BY <1>add DEF IInv, TypeOK
  <2> QED
    BY <2>1, <2>2, <2>3, <1>c, <1>win, <1>log DEF TypeOK
<1> QED
  BY <1>refs, <1>type DEF IInv

LEMMA NextIInv == IInv /\ [Next]_vars => IInv'
<1> SUFFICES ASSUME IInv, [Next]_vars PROVE IInv'
  OBVIOUS
<1>1. CASE Client \/ Disconnect
  BY <1>1, ClientIInv
<1>2. CASE GetNextLogId \/ Read
  BY <1>2, AnswerIInv
<1>3. CASE AddLog
  BY <1>3, AddIInv
<1>4. CASE UpdateLog
  BY <1>4, UpdateIInv
<1>5. CASE UNCHANGED vars
  BY <1>5 DEF vars, mgrVars, IInv, TypeOK, RefsExact, Window, Occurs
<1> QED
  BY <1>1, <1>2, <1>3, <1>4, <1>5 DEF Next, Actor

\* The variables keep their types; in particular no count wraps below zero
\* when logs are evicted.
THEOREM TypeCorrect == Spec => []TypeOK
<1>1. IInv => TypeOK
  BY DEF IInv
<1> QED
  BY <1>1, InitIInv, NextIInv, PTL DEF Spec

\* The count of a key is the number of its logs in the deque, and a key has a
\* count exactly as long as it has a log: GetLogs never misses a token.
THEOREM CountsExact == Spec => []RefsExact
<1>1. IInv => RefsExact
  BY DEF IInv
<1> QED
  BY <1>1, InitIInv, NextIInv, PTL DEF Spec
-----------------------------------------------------------------------------
(* One request at a time between its id and its log.  An id is then given   *)
(* out once, and what makes that inductive is what the channel may hold.    *)

\* A command cmd of r is in the channel; an update of r to op is.
Has(cmd, r) == \E i \in DOMAIN chan : chan[i].cmd = cmd /\ chan[i].from = r
Telling(r, op) ==
  \E i \in DOMAIN chan : chan[i].cmd = "update" /\ chan[i].from = r /\ chan[i].op = op

\* c may be in the channel before d: there is one log at a time, one question
\* per client, a log comes before its updates, and success before failure.
Apart(c, d) ==
  /\ c.cmd = "add" => d.cmd # "add"
  /\ c.cmd = d.cmd /\ c.cmd \in {"next", "read"} => c.from # d.from
  /\ c.cmd = "update" /\ d.cmd = "add" => c.from # d.from
  /\ c.cmd = "update" /\ d.cmd = "update" /\ d.op = "success" => c.from # d.from

Orderly == \A i, j \in DOMAIN chan : i < j => Apart(chan[i], chan[j])

\* A command fits how far its sender is, and a log has the id that is next.
Fits(c) ==
  /\ c.cmd = "next" => req[c.from].pc \in {"asked", "gone"}
  /\ c.cmd = "read" => reader[c.from] \in {"asked", "gone"}
  /\ c.cmd = "add" =>
       /\ req[c.from].pc \in {"logged", "served", "done", "gone"}
       /\ c.id = req[c.from].id /\ c.id = NextLogId
  /\ c.cmd = "update" =>
       /\ req[c.from].pc \in {"served", "done", "gone"}
       /\ c.op # "success" => req[c.from].pc # "served"
       /\ c.id = req[c.from].id

Fitting == \A i \in DOMAIN chan : Fits(chan[i])

Owned(r) == {i \in Window : logs[i].owner = r}

\* The log of r has been added: its id is not given out again.
Landed(r) ==
  /\ req[r].id < NextLogId
  /\ \A i \in Window : logs[i].owner = r <=> logs[i].id = req[r].id

Ids ==
  \A r \in Request :
    /\ req[r].pc = "known" => req[r].id = NextLogId
    /\ req[r].pc \in {"idle", "asked", "known"} \/ Has("add", r) => Owned(r) = {}
    /\ req[r].pc \in {"logged", "served"} \/ Has("update", r) => Has("add", r) \/ Landed(r)

Serial == Orderly /\ Fitting /\ Ids /\ IdsIncrease /\ OneAtATime

\* What the channel holds after a command is sent, and after one is received.
LEMMA Sent ==
  ASSUME chan \in Seq(Command), NEW c, chan' = Append(chan, c)
  PROVE  /\ DOMAIN chan' = DOMAIN chan \cup {Len(chan) + 1}
         /\ \A i \in DOMAIN chan : chan'[i] = chan[i] /\ i < Len(chan) + 1
         /\ chan'[Len(chan) + 1] = c
         /\ \A cmd, r : Has(cmd, r)' <=> Has(cmd, r) \/ (c.cmd = cmd /\ c.from = r)
         /\ \A r, op : Telling(r, op)' <=>
                         Telling(r, op) \/ (c.cmd = "update" /\ c.from = r /\ c.op = op)
<1>1. DOMAIN chan = 1..Len(chan) /\ Len(chan) \in Nat
  OBVIOUS
<1>2. DOMAIN chan' = 1..(Len(chan) + 1)
  OBVIOUS
<1>3. DOMAIN chan' = DOMAIN chan \cup {Len(chan) + 1}
  BY <1>1, <1>2
<1>4. /\ \A i \in DOMAIN chan : chan'[i] = chan[i] /\ i < Len(chan) + 1
      /\ chan'[Len(chan) + 1] = c
  BY <1>1
<1>5. \A cmd, r : Has(cmd, r)' <=> Has(cmd, r) \/ (c.cmd = cmd /\ c.from = r)
  BY <1>3, <1>4 DEF Has
<1>6. \A r, op : Telling(r, op)' <=>
                   Telling(r, op) \/ (c.cmd = "update" /\ c.from = r /\ c.op = op)
  BY <1>3, <1>4 DEF Telling
<1> QED
  BY <1>3, <1>4, <1>5, <1>6

LEMMA Taken ==
  ASSUME chan \in Seq(Command), NEW cmd, Receives(cmd)
  PROVE  /\ 1 \in DOMAIN chan /\ Head(chan) = chan[1] /\ chan[1].cmd = cmd
         /\ \A i \in DOMAIN chan' : i + 1 \in DOMAIN chan /\ chan'[i] = chan[i + 1] /\ i \in Nat \ {0}
         /\ \A i \in DOMAIN chan : i # 1 => i - 1 \in DOMAIN chan' /\ chan'[i - 1] = chan[i] /\ 1 < i
         /\ \A k, r : /\ Has(k, r)' => Has(k, r)
                      /\ Has(k, r) => Has(k, r)' \/ (k = cmd /\ chan[1].from = r)
         /\ \A r, op : /\ Telling(r, op)' => Telling(r, op)
                       /\ Telling(r, op) =>
                            Telling(r, op)' \/ (cmd = "update" /\ chan[1].from = r /\ chan[1].op = op)
<1>1. chan # <<>> /\ chan' = Tail(chan) /\ Head(chan).cmd = cmd
  BY DEF Receives
<1>2. DOMAIN chan = 1..Len(chan) /\ Len(chan) \in Nat \ {0}
  BY <1>1
<1>3. 1 \in DOMAIN chan /\ Head(chan) = chan[1] /\ chan[1].cmd = cmd
  BY <1>1, <1>2
<1>4. DOMAIN chan' = 1..(Len(chan) - 1) /\ \A i \in 1..(Len(chan) - 1) : chan'[i] = chan[i + 1]
  BY <1>1, <1>2
<1>5. \A i \in DOMAIN chan' : i + 1 \in DOMAIN chan /\ chan'[i] = chan[i + 1] /\ i \in Nat \ {0}
  BY <1>2, <1>4
<1>6. \A i \in DOMAIN chan : i # 1 => i - 1 \in DOMAIN chan' /\ chan'[i - 1] = chan[i] /\ 1 < i
  BY <1>2, <1>4
<1>7. \A k, r : /\ Has(k, r)' => Has(k, r)
                /\ Has(k, r) => Has(k, r)' \/ (k = cmd /\ chan[1].from = r)
  BY <1>3, <1>5, <1>6 DEF Has
<1>8. \A r, op : /\ Telling(r, op)' => Telling(r, op)
                 /\ Telling(r, op) =>
                      Telling(r, op)' \/ (cmd = "update" /\ chan[1].from = r /\ chan[1].op = op)
  BY <1>3, <1>5, <1>6 DEF Telling
<1> QED
  BY <1>3, <1>5, <1>6, <1>7, <1>8

LEMMA SentOrderly ==
  ASSUME chan \in Seq(Command), Orderly, NEW c, chan' = Append(chan, c),
         \A i \in DOMAIN chan : Apart(chan[i], c)
  PROVE  Orderly'
<1>1. /\ DOMAIN chan' = DOMAIN chan \cup {Len(chan) + 1}
      /\ \A i \in DOMAIN chan : chan'[i] = chan[i] /\ i < Len(chan) + 1
      /\ chan'[Len(chan) + 1] = c
  BY Sent
<1>2. DOMAIN chan \subseteq Nat /\ Len(chan) \in Nat
  OBVIOUS
<1> SUFFICES ASSUME NEW i \in DOMAIN chan', NEW j \in DOMAIN chan', i < j
             PROVE  Apart(chan'[i], chan'[j])
  BY DEF Orderly, Apart
<1>3. i \in DOMAIN chan
  BY <1>1, <1>2
<1>4. CASE j \in DOMAIN chan
  BY <1>1, <1>3, <1>4 DEF Orderly
<1>5. CASE j = Len(chan) + 1
  BY <1>1, <1>3, <1>5
<1> QED
  BY <1>1, <1>4, <1>5

LEMMA TakenOrderly ==
  ASSUME chan \in Seq(Command), Orderly, NEW cmd, Receives(cmd)
  PROVE  /\ Orderly'
         /\ \A i \in DOMAIN chan' : Apart(chan[1], chan'[i])
<1>1. /\ 1 \in DOMAIN chan
      /\ \A i \in DOMAIN chan' : i + 1 \in DOMAIN chan /\ chan'[i] = chan[i + 1] /\ i \in Nat \ {0}
  BY Taken
<1>2. ASSUME NEW i \in DOMAIN chan', NEW j \in DOMAIN chan', i < j
      PROVE  Apart(chan'[i], chan'[j])
  <2>1. i + 1 < j + 1
    BY <1>1, <1>2
  <2> QED
    BY <1>1, <2>1 DEF Orderly
<1>3. ASSUME NEW i \in DOMAIN chan' PROVE Apart(chan[1], chan'[i])
  <2>1. 1 < i + 1
    BY <1>1
  <2> QED
    BY <1>1, <2>1 DEF Orderly
<1> QED
  BY <1>2, <1>3 DEF Orderly, Apart

\* What a step leaves alone that does not touch the logs.
LEMMA SameLogs ==
  ASSUME UNCHANGED mgrVars
  PROVE  /\ NextLogId' = NextLogId /\ Window' = Window /\ logs' = logs
         /\ \A r : Owned(r)' = Owned(r)
         /\ IdsIncrease <=> IdsIncrease'
BY DEF mgrVars, NextLogId, Window, Owned, IdsIncrease

LEMMA Moved ==
  ASSUME req \in [Request -> ReqState], NEW r \in Request, NEW p, req' = [req EXCEPT ![r].pc = p]
  PROVE  /\ req'[r].pc = p
         /\ \A q \in Request : req'[q].id = req[q].id /\ (q # r => req'[q] = req[q])
BY DEF ReqState

LEMMA SameLanded ==
  ASSUME UNCHANGED mgrVars, NEW r, req'[r].id = req[r].id
  PROVE  Landed(r)' <=> Landed(r)
BY SameLogs DEF Landed

\* Who sends which command.
LEMMA Senders ==
  ASSUME chan \in Seq(Command), NEW i \in DOMAIN chan
  PROVE  /\ chan[i].cmd \in {"next", "add", "update", "read"}
         /\ chan[i].cmd # "read" => chan[i].from \in Request
         /\ chan[i].cmd = "read" => chan[i].from \in Reader
         /\ chan[i].cmd = "update" => chan[i].op \in Update
<1>1. chan[i] \in Command
  OBVIOUS
<1> QED
  BY <1>1 DEF Command

LEMMA AskIdSerial ==
  ASSUME IInv, Serial, OneAtATime', NEW r \in Request, AskId(r)
  PROVE  Serial'
<1>t. chan \in Seq(Command) /\ req \in [Request -> ReqState]
  BY DEF IInv, TypeOK
<1>1. PICK c : c = [cmd |-> "next", from |-> r]
  OBVIOUS
<1>2. /\ chan' = Append(chan, c) /\ req' = [req EXCEPT ![r].pc = "asked"] /\ req[r].pc = "idle"
      /\ UNCHANGED mgrVars /\ reader' = reader
  BY <1>1 DEF AskId, Send
<1>3. req'[r].pc = "asked" /\ \A q \in Request : req'[q].id = req[q].id /\ (q # r => req'[q] = req[q])
  BY <1>t, <1>2, Moved
<1>4. Orderly'
  <2>1. ASSUME NEW i \in DOMAIN chan PROVE Apart(chan[i], c)
    BY <1>1, <1>2 DEF Serial, Fitting, Fits, Apart
  <2> QED
    BY <2>1, <1>t, <1>2, SentOrderly DEF Serial
<1>5. Fitting'
  <2>1. ASSUME NEW i \in DOMAIN chan PROVE Fits(chan[i])'
    BY <1>t, <1>2, <1>3, Senders, Sent, SameLogs DEF Serial, Fitting, Fits
  <2>2. c.cmd = "next" /\ c.from = r
    BY <1>1
  <2> QED
    BY <2>1, <2>2, <1>t, <1>2, <1>3, Sent DEF Fitting, Fits
<1>6. Ids'
  <2>1. \A q : (Has("add", q)' <=> Has("add", q)) /\ (Has("update", q)' <=> Has("update", q))
    BY <1>1, <1>2, <1>t, Sent
  <2>2. \A q \in Request : Landed(q)' <=> Landed(q)
    BY <1>2, <1>3, SameLanded
  <2> QED
    BY <2>1, <2>2, <1>2, <1>3, SameLogs DEF Serial, Ids
<1> QED
  BY <1>2, <1>4, <1>5, <1>6, SameLogs DEF Serial

LEMMA SendLogSerial ==
  ASSUME IInv, Serial, OneAtATime', NEW r \in Request, SendLog(r)
  PROVE  Serial'
<1>t. chan \in Seq(Command) /\ req \in [Request -> ReqState]
  BY DEF IInv, TypeOK
<1>1. PICK c : c = [cmd |-> "add", from |-> r, id |-> req[r].id, key |-> req[r].key]
  OBVIOUS
<1>2. /\ chan' = Append(chan, c) /\ req' = [req EXCEPT ![r].pc = "logged"] /\ req[r].pc = "known"
      /\ UNCHANGED mgrVars /\ reader' = reader
  BY <1>1 DEF SendLog, Send
<1>3. req'[r].pc = "logged" /\ \A q \in Request : req'[q].id = req[q].id /\ (q # r => req'[q] = req[q])
  BY <1>t, <1>2, Moved
<1>c. c.cmd = "add" /\ c.from = r /\ c.id = req[r].id
  BY <1>1
\* No other request has a log in the channel, as r is between.
<1>none. ASSUME NEW i \in DOMAIN chan PROVE chan[i].cmd # "add"
  <2> SUFFICES ASSUME chan[i].cmd = "add" PROVE FALSE
    OBVIOUS
  <2>1. chan[i].from \in Request
    BY <1>t, Senders
  <2>2. Between(chan[i].from) /\ Between(r)
    BY <1>2 DEF Between
  <2>3. chan[i].from = r
    BY <2>1, <2>2 DEF Serial, OneAtATime
  <2> QED
    BY <2>3, <1>2 DEF Serial, Fitting, Fits
<1>4. Orderly'
  <2>1. ASSUME NEW i \in DOMAIN chan PROVE Apart(chan[i], c)
    BY <1>c, <1>2, <1>none DEF Serial, Fitting, Fits, Apart
  <2> QED
    BY <2>1, <1>t, <1>2, SentOrderly DEF Serial
<1>5. Fitting'
  <2>1. ASSUME NEW i \in DOMAIN chan PROVE Fits(chan[i])'
    BY <1>t, <1>2, <1>3, Senders, Sent, SameLogs DEF Serial, Fitting, Fits
  <2>2. req[r].id = NextLogId
    BY <1>2 DEF Serial, Ids
  <2> QED
    BY <2>1, <2>2, <1>c, <1>t, <1>2, <1>3, Sent, SameLogs DEF Fitting, Fits
<1>6. Ids'
  <2>1. \A q : /\ Has("add", q)' <=> Has("add", q) \/ q = r
               /\ Has("update", q)' <=> Has("update", q)
    BY <1>c, <1>2, <1>t, Sent
  <2>2. \A q \in Request : Landed(q)' <=> Landed(q)
    BY <1>2, <1>3, SameLanded
  <2> QED
    BY <2>1, <2>2, <1>2, <1>3, SameLogs DEF Serial, Ids
<1> QED
  BY <1>2, <1>4, <1>5, <1>6, SameLogs DEF Serial

LEMMA SendUpdateSerial ==
  ASSUME IInv, Serial, OneAtATime', NEW r \in Request, NEW op \in Update, SendUpdate(r, op)
  PROVE  Serial'
<1>t. chan \in Seq(Command) /\ req \in [Request -> ReqState]
  BY DEF IInv, TypeOK
<1>1. PICK c : c = [cmd |-> "update", from |-> r, id |-> req[r].id, op |-> op]
  OBVIOUS
<1>p. PICK p : p = IF op = "success" THEN "served" ELSE "done"
  OBVIOUS
<1>2. /\ chan' = Append(chan, c) /\ req' = [req EXCEPT ![r].pc = p]
      /\ req[r].pc \in {"logged", "served"}
      /\ op = "success" => req[r].pc = "logged"
      /\ UNCHANGED mgrVars /\ reader' = reader
  BY <1>1, <1>p DEF SendUpdate, Send
<1>3. req'[r].pc = p /\ \A q \in Request : req'[q].id = req[q].id /\ (q # r => req'[q] = req[q])
  BY <1>t, <1>2, Moved
<1>c. c.cmd = "update" /\ c.from = r /\ c.id = req[r].id /\ c.op = op
  BY <1>1
<1>4. Orderly'
  <2>1. ASSUME NEW i \in DOMAIN chan PROVE Apart(chan[i], c)
    BY <1>c, <1>2 DEF Serial, Fitting, Fits, Apart
  <2> QED
    BY <2>1, <1>t, <1>2, SentOrderly DEF Serial
<1>5. Fitting'
  <2>1. ASSUME NEW i \in DOMAIN chan PROVE Fits(chan[i])'
    <3>1. Fits(chan[i]) /\ chan'[i] = chan[i] /\ NextLogId' = NextLogId
      BY <1>t, <1>2, Sent, SameLogs DEF Serial, Fitting
    <3> QED
      BY <3>1, <1>t, <1>p, <1>2, <1>3, Senders DEF Fits
  <2> QED
    BY <2>1, <1>c, <1>p, <1>t, <1>2, <1>3, Sent DEF Fitting, Fits
<1>6. Ids'
  <2>1. \A q : /\ Has("add", q)' <=> Has("add", q)
               /\ Has("update", q)' <=> Has("update", q) \/ q = r
    BY <1>c, <1>2, <1>t, Sent
  <2>2. \A q \in Request : Landed(q)' <=> Landed(q)
    BY <1>2, <1>3, SameLanded
  <2> QED
    BY <2>1, <2>2, <1>p, <1>2, <1>3, SameLogs DEF Serial, Ids
<1> QED
  BY <1>2, <1>4, <1>5, <1>6, SameLogs DEF Serial

LEMMA AskReadSerial ==
  ASSUME IInv, Serial, OneAtATime', NEW d \in Reader, AskRead(d)
  PROVE  Serial'
<1>t. chan \in Seq(Command) /\ reader \in [Reader -> {"idle", "asked", "gone"}]
  BY DEF IInv, TypeOK
<1>1. PICK c : c = [cmd |-> "read", from |-> d]
  OBVIOUS
<1>2. /\ chan' = Append(chan, c) /\ reader' = [reader EXCEPT ![d] = "asked"] /\ reader[d] = "idle"
      /\ UNCHANGED mgrVars /\ req' = req
  BY <1>1 DEF AskRead, Send
<1>c. c.cmd = "read" /\ c.from = d
  BY <1>1
<1>4. Orderly'
  <2>1. ASSUME NEW i \in DOMAIN chan PROVE Apart(chan[i], c)
    BY <1>c, <1>2 DEF Serial, Fitting, Fits, Apart
  <2> QED
    BY <2>1, <1>t, <1>2, SentOrderly DEF Serial
<1>5. Fitting'
  <2>1. ASSUME NEW i \in DOMAIN chan PROVE Fits(chan[i])'
    BY <1>t, <1>2, Senders, Sent, SameLogs DEF Serial, Fitting, Fits
  <2> QED
    BY <2>1, <1>c, <1>t, <1>2, Sent DEF Fitting, Fits
<1>6. Ids'
  <2>1. \A q : (Has("add", q)' <=> Has("add", q)) /\ (Has("update", q)' <=> Has("update", q))
    BY <1>c, <1>2, <1>t, Sent
  <2>2. \A q \in Request : Landed(q)' <=> Landed(q)
    BY <1>2, SameLanded
  <2> QED
    BY <2>1, <2>2, <1>2, SameLogs DEF Serial, Ids
<1> QED
  BY <1>2, <1>4, <1>5, <1>6, SameLogs DEF Serial

\* A request leaves: it is dropped, or done with what it was served.
LEMMA LeaveSerial ==
  ASSUME IInv, Serial, OneAtATime', NEW r \in Request, NEW p \in {"done", "gone"},
         p = "done" => req[r].pc = "served",
         req' = [req EXCEPT ![r].pc = p], UNCHANGED <<mgrVars, chan, reader>>
  PROVE  Serial'
<1>t. chan \in Seq(Command) /\ req \in [Request -> ReqState]
  BY DEF IInv, TypeOK
<1>3. req'[r].pc = p /\ \A q \in Request : req'[q].id = req[q].id /\ (q # r => req'[q] = req[q])
  BY <1>t, Moved
<1>4. Orderly'
  BY DEF Serial, Orderly, Apart
<1>5. Fitting'
  <2> SUFFICES ASSUME NEW i \in DOMAIN chan PROVE Fits(chan[i])'
    BY DEF Fitting
  <2> QED
    BY <1>t, <1>3, Senders, SameLogs DEF Serial, Fitting, Fits
<1>6. Ids'
  <2>1. \A q : (Has("add", q)' <=> Has("add", q)) /\ (Has("update", q)' <=> Has("update", q))
    BY DEF Has
  <2>2. \A q \in Request : Landed(q)' <=> Landed(q)
    BY <1>3, SameLanded
  <2> QED
    BY <2>1, <2>2, <1>3, SameLogs DEF Serial, Ids
<1> QED
  BY <1>4, <1>5, <1>6, SameLogs DEF Serial

LEMMA DisconnectSerial ==
  ASSUME IInv, Serial, OneAtATime', Disconnect
  PROVE  Serial'
<1>1. UNCHANGED <<mgrVars, chan>>
  BY DEF Disconnect
<1>2. CASE \E r \in Request : req' = [req EXCEPT ![r].pc = "gone"] /\ UNCHANGED reader
  BY <1>1, <1>2, LeaveSerial
<1>3. ASSUME NEW d \in Reader, reader[d] = "asked", reader' = [reader EXCEPT ![d] = "gone"], req' = req
      PROVE  Serial'
  <2>t. chan \in Seq(Command) /\ reader \in [Reader -> {"idle", "asked", "gone"}]
    BY DEF IInv, TypeOK
  <2>1. Orderly'
    BY <1>1 DEF Serial, Orderly, Apart
  <2>2. Fitting'
    <3> SUFFICES ASSUME NEW i \in DOMAIN chan PROVE Fits(chan[i])'
      BY <1>1 DEF Fitting
    <3> QED
      BY <1>1, <1>3, <2>t, Senders, SameLogs DEF Serial, Fitting, Fits
  <2>3. Ids'
    <3>1. \A q : (Has("add", q)' <=> Has("add", q)) /\ (Has("update", q)' <=> Has("update", q))
      BY <1>1 DEF Has
    <3>2. \A q \in Request : Landed(q)' <=> Landed(q)
      BY <1>1, <1>3, SameLanded
    <3> QED
      BY <3>1, <3>2, <1>1, <1>3, SameLogs DEF Serial, Ids
  <2> QED
    BY <1>1, <2>1, <2>2, <2>3, SameLogs DEF Serial
<1> QED
  BY <1>2, <1>3 DEF Disconnect

LEMMA NextIdSerial ==
  ASSUME IInv, Serial, OneAtATime', GetNextLogId
  PROVE  Serial'
<1>t. chan \in Seq(Command) /\ req \in [Request -> ReqState]
  BY DEF IInv, TypeOK
<1>0. Receives("next") /\ UNCHANGED mgrVars /\ reader' = reader
  BY DEF GetNextLogId
<1>1. PICK r : r = Head(chan).from
  OBVIOUS
<1>2. 1 \in DOMAIN chan /\ chan[1].cmd = "next" /\ chan[1].from = r /\ r \in Request
  BY <1>0, <1>1, <1>t, Taken, Senders
<1>3. Orderly' /\ \A i \in DOMAIN chan' : Apart(chan[1], chan'[i])
  BY <1>0, <1>t, TakenOrderly DEF Serial
<1>4. \A i \in DOMAIN chan' :
        /\ Fits(chan'[i])
        /\ chan'[i].cmd # "read" => chan'[i].from \in Request
  BY <1>0, <1>t, Taken, Senders DEF Serial, Fitting
<1>5. \A q : (Has("add", q)' <=> Has("add", q)) /\ (Has("update", q)' <=> Has("update", q))
  BY <1>0, <1>t, Taken
<1>6. CASE req' = req
  <2>1. Fitting'
    BY <1>0, <1>4, <1>6, SameLogs DEF Fitting, Fits
  <2>2. \A q \in Request : Landed(q)' <=> Landed(q)
    BY <1>0, <1>6, SameLanded
  <2>3. Ids'
    BY <2>2, <1>0, <1>5, <1>6, SameLogs DEF Serial, Ids
  <2> QED
    BY <2>1, <2>3, <1>0, <1>3, SameLogs DEF Serial
<1>7. CASE req[r].pc = "asked" /\ req' = [req EXCEPT ![r].pc = "known", ![r].id = NextLogId]
  <2>1. /\ req'[r].pc = "known" /\ req'[r].id = NextLogId
        /\ \A q \in Request : q # r => req'[q] = req[q]
    BY <1>2, <1>7, <1>t DEF ReqState
  <2>2. Fitting'
    <3> SUFFICES ASSUME NEW i \in DOMAIN chan' PROVE Fits(chan[i])'
      BY DEF Fitting
    <3>1. chan'[i].cmd = "next" => chan'[i].from # r
      BY <1>3, <1>2 DEF Apart
    <3>2. chan'[i].cmd \in {"add", "update"} => chan'[i].from # r
      BY <1>4, <1>7 DEF Fits
    <3> QED
      BY <3>1, <3>2, <2>1, <1>0, <1>4, SameLogs DEF Fits
  <2>3. \A q \in Request : q # r => (Landed(q)' <=> Landed(q))
    BY <1>0, <2>1, SameLanded
  <2>4. ~Has("update", r) /\ ~Has("add", r)
    BY <1>7 DEF Serial, Fitting, Fits, Has
  <2>5. Ids'
    BY <2>1, <2>3, <2>4, <1>0, <1>5, <1>7, SameLogs DEF Serial, Ids
  <2> QED
    BY <2>2, <2>5, <1>0, <1>3, SameLogs DEF Serial
<1> QED
  BY <1>1, <1>6, <1>7 DEF GetNextLogId

LEMMA ReadSerial ==
  ASSUME IInv, Serial, OneAtATime', Read
  PROVE  Serial'
<1>t. chan \in Seq(Command) /\ reader \in [Reader -> {"idle", "asked", "gone"}]
  BY DEF IInv, TypeOK
<1>0. Receives("read") /\ UNCHANGED mgrVars /\ req' = req
  BY DEF Read
<1>1. PICK d : d = Head(chan).from
  OBVIOUS
<1>2. 1 \in DOMAIN chan /\ chan[1].cmd = "read" /\ chan[1].from = d /\ d \in Reader
  BY <1>0, <1>1, <1>t, Taken, Senders
<1>3. Orderly' /\ \A i \in DOMAIN chan' : Apart(chan[1], chan'[i])
  BY <1>0, <1>t, TakenOrderly DEF Serial
<1>4. \A i \in DOMAIN chan' :
        /\ Fits(chan'[i])
        /\ chan'[i].cmd = "read" => chan'[i].from \in Reader
  BY <1>0, <1>t, Taken, Senders DEF Serial, Fitting
<1>5. \A q : (Has("add", q)' <=> Has("add", q)) /\ (Has("update", q)' <=> Has("update", q))
  BY <1>0, <1>t, Taken
<1>6. reader' = reader \/ reader' = [reader EXCEPT ![d] = "idle"]
  BY <1>1 DEF Read
<1>7. Fitting'
  <2> SUFFICES ASSUME NEW i \in DOMAIN chan' PROVE Fits(chan[i])'
    BY DEF Fitting
  <2>1. chan'[i].cmd = "read" => chan'[i].from # d
    BY <1>3, <1>2 DEF Apart
  <2> QED
    BY <2>1, <1>0, <1>2, <1>4, <1>6, <1>t, SameLogs DEF Fits
<1>8. \A q \in Request : Landed(q)' <=> Landed(q)
  BY <1>0, SameLanded
<1>9. Ids'
  BY <1>0, <1>5, <1>8, SameLogs DEF Serial, Ids
<1> QED
  BY <1>0, <1>3, <1>7, <1>9, SameLogs DEF Serial

\* What AddLog leaves of the deque, and what it puts at its end.
LEMMA Added ==
  ASSUME IInv, AddLog
  PROVE  /\ Receives("add") /\ UNCHANGED <<req, reader, alive>>
         /\ Head(chan).from \in Request /\ Head(chan).id \in Nat
         /\ last + 1 \in Window' /\ last + 1 \notin Window
         /\ logs'[last + 1] = [id |-> Head(chan).id, key |-> Head(chan).key,
                               status |-> "pending", owner |-> Head(chan).from]
         /\ \A i \in Window' : i # last + 1 => i \in Window /\ logs'[i] = logs[i] /\ i < last + 1
         /\ first' = 1 => first = 1 /\ \A i \in Window : i \in Window'
         /\ first' \in Nat \ {0} /\ last' = last + 1 /\ first' <= last'
<1>1. Receives("add") /\ UNCHANGED <<req, reader, alive>>
  BY DEF AddLog
<1>2. Head(chan) \in Command /\ Head(chan).cmd = "add"
  BY <1>1, Received
<1>3. Head(chan).from \in Request /\ Head(chan).id \in Nat
  BY <1>2 DEF Command
<1>t. first \in Nat \ {0} /\ last \in Nat /\ first <= last + 1 /\ Limit \in Nat \ {0}
  BY LimitPositive DEF IInv, TypeOK
<1>4. /\ first' = IF first > last - Limit + 1 THEN first ELSE last - Limit + 2
      /\ last' = last + 1
  BY DEF AddLog
<1>5. first' \in Nat \ {0} /\ first <= first' /\ first' <= last'
  BY <1>t, <1>4
<1>6. Window = first..last /\ Window' = first'..(last + 1)
  BY <1>4 DEF Window
<1>7. last + 1 \in Window' /\ last + 1 \notin Window
  BY <1>t, <1>4, <1>5, <1>6
<1>8. logs' = [i \in Window' |->
                 IF i = last + 1
                 THEN [id |-> Head(chan).id, key |-> Head(chan).key,
                       status |-> "pending", owner |-> Head(chan).from]
                 ELSE logs[i]]
  BY <1>4 DEF AddLog, Window
<1>9. \A i \in Window' : i # last + 1 => i \in Window /\ i < last + 1
  BY <1>t, <1>5, <1>6
<1>10. first' = 1 => first = 1 /\ \A i \in Window : i \in Window'
  BY <1>t, <1>4, <1>5, <1>6
<1> QED
  BY <1>1, <1>3, <1>4, <1>5, <1>7, <1>8, <1>9, <1>10

LEMMA BelowNext ==
  ASSUME TypeOK, IdsIncrease
  PROVE  NextLogId \in Nat /\ \A i \in Window : logs[i].id \in Nat /\ logs[i].id < NextLogId
<1>1. /\ first \in Nat /\ last \in Nat /\ Window = first..last
      /\ \A i \in Window : logs[i].id \in Nat
  BY DEF TypeOK, Window, Log
<1>2. CASE first > last
  BY <1>1, <1>2 DEF NextLogId
<1>3. CASE first <= last
  <2>1. last \in Window /\ NextLogId = logs[last].id + 1
    BY <1>1, <1>3 DEF NextLogId
  <2>2. \A i \in Window : i = last \/ i < last
    BY <1>1
  <2> QED
    BY <1>1, <2>1, <2>2 DEF IdsIncrease
<1> QED
  BY <1>1, <1>2, <1>3

\* The log gets the id that is next, and there is no other that has been
\* given the same.
LEMMA AddSerial ==
  ASSUME IInv, Serial, OneAtATime', AddLog
  PROVE  Serial'
<1>t. chan \in Seq(Command) /\ req \in [Request -> ReqState] /\ last \in Nat
  BY DEF IInv, TypeOK
<1>0. Receives("add") /\ req' = req /\ reader' = reader
  BY Added
<1>1. PICK r : r = Head(chan).from
  OBVIOUS
<1>2. 1 \in DOMAIN chan /\ chan[1] = Head(chan) /\ chan[1].cmd = "add" /\ chan[1].from = r /\ r \in Request
  BY <1>0, <1>1, <1>t, Taken, Senders
<1>3. Orderly' /\ \A i \in DOMAIN chan' : Apart(chan[1], chan'[i])
  BY <1>0, <1>t, TakenOrderly DEF Serial
<1>4. \A i \in DOMAIN chan' :
        /\ Fits(chan'[i])
        /\ chan'[i].cmd # "add"
  BY <1>0, <1>2, <1>3, <1>t, Taken DEF Serial, Fitting, Apart
<1>5. /\ Head(chan).id = NextLogId /\ req[r].id = NextLogId
      /\ req[r].pc \in {"logged", "served", "done", "gone"}
  BY <1>2 DEF Serial, Fitting, Fits
<1>6. /\ \A q : ~Has("add", q)'
      /\ \A q : Has("add", q) => q = r
      /\ \A q : Has("update", q)' <=> Has("update", q)
  <2>1. \A q : ~Has("add", q)'
    BY <1>4 DEF Has
  <2> QED
    BY <2>1, <1>0, <1>2, <1>t, Taken
<1>7. Has("add", r) /\ Between(r)
  BY <1>2 DEF Has, Between
<1>8. \A q \in Request : req[q].pc # "known"
  <2> SUFFICES ASSUME NEW q \in Request, req[q].pc = "known" PROVE FALSE
    OBVIOUS
  <2>1. q = r
    BY <1>2, <1>7 DEF Between, Serial, OneAtATime
  <2> QED
    BY <2>1, <1>5
<1>9. /\ last + 1 \in Window'
      /\ logs'[last + 1].id = NextLogId /\ logs'[last + 1].owner = r
      /\ \A i \in Window' : i # last + 1 => i \in Window /\ logs'[i] = logs[i] /\ i < last + 1
      /\ first' \in Nat /\ last' = last + 1 /\ first' <= last'
  BY <1>1, <1>5, Added
<1>10. NextLogId \in Nat /\ \A i \in Window : logs[i].id \in Nat /\ logs[i].id < NextLogId
  BY BelowNext DEF IInv, Serial
<1>11. NextLogId' = NextLogId + 1
  <2>1. NextLogId' = logs'[last'].id + 1
    BY <1>9, <1>t DEF NextLogId
  <2> QED
    BY <2>1, <1>9
<1>12. IdsIncrease'
  <2> SUFFICES ASSUME NEW i \in Window', NEW j \in Window', i < j PROVE logs'[i].id < logs'[j].id
    BY DEF IdsIncrease
  <2>1. i # last + 1
    BY <1>9, <1>t DEF Window
  <2>2. CASE j = last + 1
    BY <2>1, <2>2, <1>9, <1>10
  <2>3. CASE j # last + 1
    BY <2>1, <2>3, <1>9 DEF Serial, IdsIncrease
  <2> QED
    BY <2>2, <2>3
<1>13. Fitting'
  <2> SUFFICES ASSUME NEW i \in DOMAIN chan' PROVE Fits(chan[i])'
    BY DEF Fitting
  <2> QED
    BY <1>0, <1>4 DEF Fits
<1>14. Owned(r) = {}
  BY <1>2, <1>7 DEF Serial, Ids
<1>15. Landed(r)'
  <2>1. req'[r].id < NextLogId'
    BY <1>0, <1>5, <1>10, <1>11
  <2>2. ASSUME NEW i \in Window' PROVE logs'[i].owner = r <=> logs'[i].id = req'[r].id
    <3>1. CASE i = last + 1
      BY <3>1, <1>0, <1>5, <1>9
    <3>2. CASE i # last + 1
      BY <3>2, <1>0, <1>5, <1>9, <1>10, <1>14 DEF Owned
    <3> QED
      BY <3>1, <3>2
  <2> QED
    BY <2>1, <2>2 DEF Landed
<1>16. ASSUME NEW q \in Request, q # r, Landed(q) PROVE Landed(q)'
  <2>1. req[q].id \in Nat
    BY <1>t DEF ReqState
  <2>2. req'[q].id < NextLogId' /\ req[q].id # NextLogId
    BY <2>1, <1>0, <1>10, <1>11, <1>16 DEF Landed
  <2>3. ASSUME NEW i \in Window' PROVE logs'[i].owner = q <=> logs'[i].id = req'[q].id
    <3>1. CASE i = last + 1
      BY <3>1, <2>2, <1>0, <1>9, <1>16
    <3>2. CASE i # last + 1
      BY <3>2, <1>0, <1>9, <1>16 DEF Landed
    <3> QED
      BY <3>1, <3>2
  <2> QED
    BY <2>2, <2>3 DEF Landed
<1>17. \A q : q # r /\ Owned(q) = {} => Owned(q)' = {}
  BY <1>9 DEF Owned
<1>18. Ids'
  <2> SUFFICES ASSUME NEW q \in Request
               PROVE  /\ req[q].pc \in {"idle", "asked", "known"} => Owned(q)' = {}
                      /\ req[q].pc \in {"logged", "served"} \/ Has("update", q) => Landed(q)'
    BY <1>0, <1>6, <1>8 DEF Ids
  <2>1. CASE q = r
    BY <2>1, <1>5, <1>15
  <2>2. CASE q # r
    BY <2>2, <1>6, <1>16, <1>17 DEF Serial, Ids
  <2> QED
    BY <2>1, <2>2
<1> QED
  BY <1>3, <1>12, <1>13, <1>18 DEF Serial

\* An update changes the status of the logs it is for, and nothing else.
LEMMA Updated ==
  ASSUME IInv, UpdateLog
  PROVE  /\ Receives("update") /\ UNCHANGED <<first, last, req, reader, alive>> /\ Window' = Window
         /\ \A i \in Window : /\ logs'[i].id = logs[i].id /\ logs'[i].owner = logs[i].owner
                              /\ logs'[i].key = logs[i].key
                              /\ logs'[i].status =
                                   IF i \in UpdateTarget(Head(chan).id) /\ Head(chan).op # "chain"
                                   THEN Head(chan).op ELSE logs[i].status
<1>1. Receives("update") /\ UNCHANGED <<first, last, req, reader, alive>> /\ Window' = Window
  BY DEF UpdateLog, Window
<1>2. PICK op, id : op = Head(chan).op /\ id = Head(chan).id
  OBVIOUS
<1>3. logs' = [i \in Window |-> IF i \in UpdateTarget(id) /\ op # "chain"
                                THEN [logs[i] EXCEPT !.status = op] ELSE logs[i]]
  BY <1>2 DEF UpdateLog
<1>4. ASSUME NEW i \in Window
      PROVE  /\ logs'[i].id = logs[i].id /\ logs'[i].owner = logs[i].owner /\ logs'[i].key = logs[i].key
             /\ logs'[i].status = IF i \in UpdateTarget(id) /\ op # "chain" THEN op ELSE logs[i].status
  <2>1. logs[i] \in Log
    BY DEF IInv, TypeOK
  <2>2. /\ [logs[i] EXCEPT !.status = op].id = logs[i].id
        /\ [logs[i] EXCEPT !.status = op].owner = logs[i].owner
        /\ [logs[i] EXCEPT !.status = op].key = logs[i].key
        /\ [logs[i] EXCEPT !.status = op].status = op
    BY <2>1 DEF Log
  <2> QED
    BY <1>3, <2>2
<1> QED
  BY <1>1, <1>2, <1>4

LEMMA UpdateSerial ==
  ASSUME IInv, Serial, OneAtATime', UpdateLog
  PROVE  Serial'
<1>t. chan \in Seq(Command) /\ first \in Nat /\ last \in Nat
  BY DEF IInv, TypeOK
<1>0. /\ Receives("update") /\ UNCHANGED <<first, last, req, reader>> /\ Window' = Window
      /\ \A i \in Window : logs'[i].id = logs[i].id /\ logs'[i].owner = logs[i].owner
  BY Updated
<1>1. NextLogId' = NextLogId
  BY <1>0, <1>t DEF NextLogId, Window
<1>2. \A r : Owned(r)' = Owned(r)
  BY <1>0 DEF Owned
<1>3. \A r : Landed(r)' <=> Landed(r)
  BY <1>0, <1>1 DEF Landed
<1>4. IdsIncrease'
  BY <1>0 DEF Serial, IdsIncrease
<1>5. Orderly'
  BY <1>0, <1>t, TakenOrderly DEF Serial
<1>6. Fitting'
  <2> SUFFICES ASSUME NEW i \in DOMAIN chan' PROVE Fits(chan[i])'
    BY DEF Fitting
  <2>1. Fits(chan'[i])
    BY <1>0, <1>t, Taken DEF Serial, Fitting
  <2> QED
    BY <2>1, <1>0, <1>1 DEF Fits
<1>7. \A q : (Has("add", q)' <=> Has("add", q)) /\ (Has("update", q)' => Has("update", q))
  BY <1>0, <1>t, Taken
<1>8. Ids'
  BY <1>0, <1>1, <1>2, <1>3, <1>7 DEF Serial, Ids
<1> QED
  BY <1>4, <1>5, <1>6, <1>8 DEF Serial

LEMMA InitSerial == Init => Serial
<1> SUFFICES ASSUME Init PROVE Serial
  OBVIOUS
<1>1. chan = <<>> /\ DOMAIN chan = {}
  BY DEF Init
<1>2. PICK keys \in [1..last -> Key] :
        logs = [i \in 1..last |-> [id |-> i, key |-> keys[i], status |-> "success", owner |-> None]]
  BY DEF Init
<1>3. Window = 1..last /\ last \in Nat
  BY MaxLoadedNat DEF Init, Window
<1>4. \A r \in Request : req[r].pc = "idle" /\ Owned(r) = {}
  BY <1>2, <1>3, NoneAssumption DEF Init, Owned
<1>5. IdsIncrease
  BY <1>2, <1>3 DEF IdsIncrease
<1>6. Orderly /\ Fitting
  BY <1>1 DEF Orderly, Fitting
<1>7. Ids
  BY <1>1, <1>4 DEF Ids, Has
<1>8. OneAtATime
  BY <1>1, <1>4 DEF OneAtATime, Between
<1> QED
  BY <1>5, <1>6, <1>7, <1>8 DEF Serial

LEMMA NextSerial == IInv /\ Serial /\ [Next /\ OneAtATime']_vars => Serial'
<1> SUFFICES ASSUME IInv, Serial, [Next /\ OneAtATime']_vars PROVE Serial'
  OBVIOUS
<1>1. CASE UNCHANGED vars
  <2>1. UNCHANGED <<first, last, logs, chan, req, reader>>
    BY <1>1 DEF vars, mgrVars
  <2>2. Orderly' /\ Fitting' /\ IdsIncrease' /\ OneAtATime'
    BY <2>1 DEF Serial, Orderly, Apart, Fitting, Fits, IdsIncrease, OneAtATime, Between, Window, NextLogId
  <2>3. Ids'
    BY <2>1 DEF Serial, Ids, Has, Owned, Landed, Window, NextLogId
  <2> QED
    BY <2>2, <2>3 DEF Serial
<1>2. CASE Client /\ OneAtATime'
  BY <1>2, AskIdSerial, SendLogSerial, SendUpdateSerial, AskReadSerial DEF Client
<1>3. CASE Disconnect /\ OneAtATime'
  BY <1>3, DisconnectSerial
<1>4. CASE Actor /\ OneAtATime'
  BY <1>4, NextIdSerial, ReadSerial, AddSerial, UpdateSerial DEF Actor
<1> QED
  BY <1>1, <1>2, <1>3, <1>4 DEF Next

\* When an update is received, the log it is for has been added.
LEMMA OwnTarget ==
  ASSUME IInv, Serial, Receives("update")
  PROVE  /\ UpdateTarget(Head(chan).id) = Owned(Head(chan).from)
         /\ ~Has("add", Head(chan).from)
<1>t. chan \in Seq(Command) /\ first \in Nat /\ last \in Nat
  BY DEF IInv, TypeOK
<1>1. PICK r : r = Head(chan).from
  OBVIOUS
<1>2. 1 \in DOMAIN chan /\ chan[1] = Head(chan) /\ chan[1].cmd = "update" /\ chan[1].from = r /\ r \in Request
  BY <1>1, <1>t, Taken, Senders
<1>3. ~Has("add", r)
  <2> SUFFICES ASSUME NEW i \in DOMAIN chan, chan[i].cmd = "add", chan[i].from = r PROVE FALSE
    BY DEF Has
  <2>1. 1 < i
    BY <1>2, <1>t, Taken
  <2> QED
    BY <2>1, <1>2 DEF Serial, Orderly, Apart
<1>4. Has("update", r)
  BY <1>2 DEF Has
<1>5. Landed(r)
  BY <1>2, <1>3, <1>4 DEF Serial, Ids
<1>6. Head(chan).id = req[r].id
  BY <1>2 DEF Serial, Fitting, Fits
<1>7. \A i \in Window : logs[i].owner = r <=> logs[i].id = Head(chan).id
  BY <1>5, <1>6 DEF Landed
<1>8. \A i, j \in Window : logs[i].id = logs[j].id => i = j
  <2>1. \A i \in Window : i \in Int /\ logs[i].id \in Nat
    BY <1>t DEF IInv, TypeOK, Window, Log
  <2> QED
    BY <2>1 DEF Serial, IdsIncrease
<1>9. \A i \in Window : i <= i
  BY <1>t DEF Window
<1>10. UpdateTarget(Head(chan).id) = Owned(r)
  BY <1>7, <1>8, <1>9 DEF UpdateTarget, Owned
<1> QED
  BY <1>1, <1>3, <1>10

-----------------------------------------------------------------------------
(* Chat requests *)

\* What save wrote can be loaded.
Loadable(d) ==
  /\ d.first \in Nat \ {0} /\ d.last \in Nat /\ d.first <= d.last + 1
  /\ d.logs \in [d.first..d.last -> Log]
  /\ DOMAIN d.tokens = {d.logs[i].key : i \in d.first..d.last}
  /\ \A k \in DOMAIN d.tokens :
       d.tokens[k] = Cardinality({i \in d.first..d.last : d.logs[i].key = k})
  /\ \A i, j \in d.first..d.last : i < j => d.logs[i].id < d.logs[j].id

\* What is not idle, sends commands or has logs is a request that was counted.
Begun ==
  /\ begun \subseteq Request /\ IsFiniteSet(begun)
  /\ \A r \in Request : req[r].pc \in {"asked", "known", "logged", "served"} => r \in begun
  /\ \A i \in DOMAIN chan : chan[i].cmd # "read" => chan[i].from \in begun
  /\ \A i \in Window : logs[i].owner # None => logs[i].owner \in begun

\* The log of r is pending, or will be.
Pending(r) == Has("add", r) \/ \E i \in Owned(r) : logs[i].status = "pending"

\* The status of the log of r, together with the updates in the channel, is
\* what r has got to.
ToldOf(r) ==
  /\ \A i, j \in Owned(r) : i = j
  /\ req[r].pc = "logged" \/ Telling(r, "success") =>
       \A i \in Owned(r) : logs[i].status = "pending"
  /\ req[r].pc = "served" /\ Pending(r) => Telling(r, "success")
  /\ req[r].pc = "done" /\ Pending(r) => Telling(r, "success") \/ Telling(r, "failure")
  /\ (\E i \in Owned(r) : logs[i].status = "failure") => req[r].pc \in {"done", "gone"}

Told == \A r \in Request : ToldOf(r)

\* Where the counters' requests are.
Unlogged == {r \in begun : req[r].pc \in {"idle", "asked", "known"} \/ Has("add", r)}
Failed ==
  {r \in begun :
     /\ req[r].pc = "done"
     /\ Telling(r, "failure") \/ \E i \in Owned(r) : logs[i].status = "failure"}
OldErrors == {i \in Owned(None) : logs[i].status # "success"}

NobodyDropped == \A r \in begun : req[r].pc # "gone"

Accounts ==
  /\ total = last + Cardinality(Unlogged)
  /\ errors = Cardinality(OldErrors) + Cardinality(Failed)
  /\ \A r \in begun : r \in Unlogged \/ Owned(r) # {}

Counted == first = 1 /\ NobodyDropped => Accounts

Numbers == total \in Int /\ active \in Int /\ errors \in Int

Base == IInv /\ Serial /\ Loadable(disk) /\ Begun

RInv == Base /\ Numbers /\ ActiveCovers /\ AliveUnlessDropped /\ Told /\ Counted

-----------------------------------------------------------------------------
(* The log actor's part *)

LEMMA SnapshotLoadable ==
  ASSUME IInv, IdsIncrease
  PROVE  Loadable(Snapshot)
<1>1. /\ Snapshot.first = first /\ Snapshot.last = last
      /\ Snapshot.logs = logs /\ Snapshot.tokens = tokens
  BY DEF Snapshot
<1>2. /\ first \in Nat \ {0} /\ last \in Nat /\ first <= last + 1 /\ logs \in [first..last -> Log]
      /\ \A i, j \in first..last : i < j => logs[i].id < logs[j].id
  BY DEF IInv, TypeOK, Window, IdsIncrease
<1>3. /\ DOMAIN tokens = {logs[i].key : i \in first..last}
      /\ \A k \in DOMAIN tokens : tokens[k] = Cardinality({i \in first..last : logs[i].key = k})
  BY DEF IInv, RefsExact, Window, Occurs
<1> QED
  BY <1>1, <1>2, <1>3 DEF Loadable

\* The steps that are not the log actor's or its clients' own.
LEMMA LeaveIInv ==
  ASSUME IInv, NEW r \in Request, NEW p \in {"done", "gone"},
         req' = [req EXCEPT ![r].pc = p], UNCHANGED <<mgrVars, chan, reader, alive>>
  PROVE  IInv'
<1>1. req \in [Request -> ReqState] /\ p \in Pc /\ 0 \in Nat
  BY DEF IInv, TypeOK, Pc
<1>2. [req EXCEPT ![r].pc = p] \in [Request -> ReqState]
  BY <1>1, ReqStep
<1>3. TypeOK'
  BY <1>2 DEF IInv, TypeOK, mgrVars, Window
<1>4. RefsExact'
  BY DEF IInv, RefsExact, mgrVars, Window, Occurs
<1> QED
  BY <1>3, <1>4 DEF IInv

\* load, over whatever was saved last.
LEMMA Loaded ==
  ASSUME Base, Restart
  PROVE  /\ first' = disk.first /\ last' = disk.last /\ Window' = disk.first..disk.last
         /\ \A i \in Window' : /\ logs'[i].id = disk.logs[i].id /\ logs'[i].key = disk.logs[i].key
                               /\ logs'[i].status = disk.logs[i].status /\ logs'[i].owner = None
         /\ logs' \in [Window' -> Log]
         /\ chan' = <<>> /\ DOMAIN chan' = {}
         /\ req' \in [Request -> ReqState]
         /\ \A r \in Request : req'[r].pc \in {"idle", "done", "gone"}
         /\ disk' = disk
<1>1. first' = disk.first /\ last' = disk.last /\ chan' = <<>> /\ disk' = disk
  BY DEF Restart
<1>2. Window' = disk.first..disk.last
  BY <1>1 DEF Window
<1>3. logs' = [i \in Window' |-> [disk.logs[i] EXCEPT !.owner = None]]
  BY <1>2 DEF Restart
<1>4. ASSUME NEW i \in Window'
      PROVE  /\ logs'[i].id = disk.logs[i].id /\ logs'[i].key = disk.logs[i].key
             /\ logs'[i].status = disk.logs[i].status /\ logs'[i].owner = None
             /\ logs'[i] \in Log
  <2>1. disk.logs[i] \in Log
    BY <1>2 DEF Base, Loadable
  <2>2. logs'[i] = [disk.logs[i] EXCEPT !.owner = None]
    BY <1>3
  <2> QED
    BY <2>1, <2>2 DEF Log
<1>5. DOMAIN chan' = {}
  BY <1>1
<1>6. req \in [Request -> ReqState]
  BY DEF Base, IInv, TypeOK
<1>7. req' = [r \in Request |-> IF r \in begun /\ req[r].pc # "done"
                                THEN [req[r] EXCEPT !.pc = "gone"] ELSE req[r]]
  BY DEF Restart
<1>8. ASSUME NEW r \in Request PROVE req'[r] \in ReqState /\ req'[r].pc \in {"idle", "done", "gone"}
  <2>1. req[r] \in ReqState /\ [req[r] EXCEPT !.pc = "gone"] \in ReqState
        /\ [req[r] EXCEPT !.pc = "gone"].pc = "gone"
    BY <1>6 DEF ReqState, Pc
  <2>2. r \notin begun => req[r].pc \in {"idle", "done", "gone"}
    BY <2>1 DEF Base, Begun, ReqState, Pc
  <2> QED
    BY <2>1, <2>2, <1>7
<1>9. req' \in [Request -> ReqState]
  BY <1>7, <1>8
<1>10. logs' \in [Window' -> Log]
  BY <1>3, <1>4
<1> QED
  BY <1>1, <1>2, <1>4, <1>5, <1>8, <1>9, <1>10

LEMMA RestartIInv ==
  ASSUME Base, Restart
  PROVE  IInv'
<1>1. /\ Window' = disk.first..disk.last
      /\ \A i \in Window' : logs'[i].key = disk.logs[i].key
  BY Loaded
<1>2. tokens' = disk.tokens /\ reader' = [d \in Reader |-> "idle"] /\ alive' = TRUE
  BY DEF Restart
<1>3. \A k : Occurs(Window, k)' = {i \in disk.first..disk.last : disk.logs[i].key = k}
  BY <1>1 DEF Occurs
<1>4. {logs'[i].key : i \in Window'} = {disk.logs[i].key : i \in disk.first..disk.last}
  BY <1>1
<1>5. RefsExact'
  BY <1>2, <1>3, <1>4 DEF RefsExact, Base, Loadable
<1>6. DOMAIN tokens' \subseteq Key
  <2>1. \A i \in disk.first..disk.last : disk.logs[i].key \in Key
    BY DEF Base, Loadable, Log
  <2> QED
    BY <2>1, <1>2 DEF Base, Loadable
<1>7. \A k \in DOMAIN tokens' : tokens'[k] \in Nat
  <2>0. disk.first \in Int /\ disk.last \in Int
    BY DEF Base, Loadable
  <2>1. IsFiniteSet(disk.first..disk.last)
    BY <2>0, FS_Interval
  <2> SUFFICES ASSUME NEW k \in DOMAIN tokens' PROVE tokens'[k] \in Nat
    OBVIOUS
  <2>2. {i \in disk.first..disk.last : disk.logs[i].key = k} \in SUBSET (disk.first..disk.last)
    OBVIOUS
  <2>3. Cardinality({i \in disk.first..disk.last : disk.logs[i].key = k}) \in Nat
    BY <2>1, <2>2, FS_Subset, FS_CardinalityType
  <2> QED
    BY <2>3, <1>2 DEF Base, Loadable
<1>8. first' \in Nat \ {0} /\ last' \in Nat /\ first' <= last' + 1
  BY Loaded DEF Base, Loadable
<1>9. chan' \in Seq(Command) /\ req' \in [Request -> ReqState] /\ logs' \in [Window' -> Log]
  BY Loaded
<1>10. reader' \in [Reader -> {"idle", "asked", "gone"}] /\ alive' \in BOOLEAN
  BY <1>2
<1> QED
  BY <1>5, <1>6, <1>7, <1>8, <1>9, <1>10 DEF IInv, TypeOK

LEMMA RestartSerial ==
  ASSUME Base, Restart
  PROVE  Serial'
<1>1. /\ DOMAIN chan' = {}
      /\ \A r \in Request : req'[r].pc \in {"idle", "done", "gone"}
      /\ \A i \in Window' : logs'[i].id = disk.logs[i].id /\ logs'[i].owner = None
      /\ Window' = disk.first..disk.last
  BY Loaded
<1>2. Orderly' /\ Fitting'
  BY <1>1 DEF Orderly, Fitting
<1>3. \A r \in Request : Owned(r)' = {}
  BY <1>1, NoneAssumption DEF Owned
<1>4. Ids'
  BY <1>1, <1>3 DEF Ids, Has
<1>5. IdsIncrease'
  BY <1>1 DEF IdsIncrease, Base, Loadable
<1>6. OneAtATime'
  BY <1>1 DEF OneAtATime, Between
<1> QED
  BY <1>2, <1>4, <1>5, <1>6 DEF Serial

\* What the handler does to a request beyond its commands.
LEMMA Leaving ==
  ASSUME NEW r \in Request, BreaksOff(r) \/ DroppedAtOnce(r)
  PROVE  \E p \in {"done", "gone"} :
           /\ p = "done" => req[r].pc = "served"
           /\ req' = [req EXCEPT ![r].pc = p]
           /\ UNCHANGED <<mgrVars, chan, reader, alive>>
BY DEF BreaksOff, DroppedAtOnce

\* All other steps but a restart are the log actor's or its clients'.
LEMMA Inner ==
  ASSUME [RequestNext]_requestVars
  PROVE  \/ [Next]_vars /\ disk' \in {disk, Snapshot}
         \/ (\E r \in Request : BreaksOff(r) \/ DroppedAtOnce(r)) /\ disk' = disk
         \/ Restart
<1>1. CASE UNCHANGED requestVars
  BY <1>1 DEF requestVars
<1>2. ASSUME NEW r \in Request, Begin(r) PROVE UNCHANGED vars /\ disk' = disk
  BY <1>2 DEF Begin
<1>3. ASSUME NEW r \in Request, Ask(r) PROVE Next /\ disk' = disk
  BY <1>3 DEF Ask, Next, Client
<1>4. ASSUME NEW r \in Request, WriteLog(r) PROVE Next /\ disk' = disk
  BY <1>4 DEF WriteLog, Next, Client
<1>5. ASSUME NEW r \in Request, Answers(r) \/ Refused(r) \/ Fails(r) \/ Finishes(r)
      PROVE  Next /\ disk' = disk
  <2>1. PICK op \in {"success", "failure", "chain"} : SendUpdate(r, op)
    BY <1>5 DEF Answers, Refused, Fails, Finishes
  <2>2. Next
    BY <2>1 DEF Next, Client, Update
  <2> QED
    BY <2>2, <1>5 DEF Answers, Refused, Fails, Finishes
<1>6. CASE Dropped
  BY <1>6 DEF Dropped, Next
<1>7. ASSUME NEW d \in Reader, AskToRead(d) PROVE Next /\ disk' = disk
  BY <1>7 DEF AskToRead, Next, Client
<1>8. CASE ActorStep
  BY <1>8 DEF ActorStep, Next
<1>9. ASSUME NEW r \in Request, BreaksOff(r) \/ DroppedAtOnce(r) PROVE disk' = disk
  BY <1>9 DEF BreaksOff, DroppedAtOnce
<1> QED
  BY <1>1, <1>2, <1>3, <1>4, <1>5, <1>6, <1>7, <1>8, <1>9 DEF RequestNext, Step

LEMMA LogsStep ==
  ASSUME Base, [RequestNext /\ OneAtATime']_requestVars
  PROVE  IInv' /\ Serial' /\ Loadable(disk')
<1>0. OneAtATime' \/ UNCHANGED vars
  BY DEF requestVars
<1>1. CASE Restart
  BY <1>1, RestartIInv, RestartSerial, Loaded DEF Base
<1>2. CASE (\E r \in Request : BreaksOff(r) \/ DroppedAtOnce(r)) /\ disk' = disk /\ OneAtATime'
  <2>1. PICK r \in Request : BreaksOff(r) \/ DroppedAtOnce(r)
    BY <1>2
  <2>2. PICK p \in {"done", "gone"} :
          /\ p = "done" => req[r].pc = "served"
          /\ req' = [req EXCEPT ![r].pc = p]
          /\ UNCHANGED <<mgrVars, chan, reader, alive>>
    BY <2>1, Leaving
  <2>3. IInv'
    BY <2>2, LeaveIInv DEF Base
  <2>4. Serial'
    BY <2>2, <1>2, LeaveSerial DEF Base
  <2> QED
    BY <2>3, <2>4, <1>2 DEF Base
<1>3. CASE [Next /\ OneAtATime']_vars /\ disk' \in {disk, Snapshot}
  <2>1. IInv'
    BY <1>3, NextIInv DEF Base
  <2>2. Serial'
    BY <1>3, NextSerial DEF Base
  <2>3. Loadable(disk')
    BY <1>3, SnapshotLoadable DEF Base, Serial
  <2> QED
    BY <2>1, <2>2, <2>3
<1>4. [RequestNext]_requestVars
  OBVIOUS
<1>5. \/ [Next]_vars /\ disk' \in {disk, Snapshot}
      \/ (\E r \in Request : BreaksOff(r) \/ DroppedAtOnce(r)) /\ disk' = disk
      \/ Restart
  BY <1>4, Inner
<1>6. CASE UNCHANGED requestVars
  BY <1>6, <1>3 DEF requestVars
<1>7. CASE OneAtATime'
  BY <1>1, <1>2, <1>3, <1>5, <1>7
<1> QED
  BY <1>6, <1>7

-----------------------------------------------------------------------------
(* Where requests are *)

\* The effect of each step of a request on what it has got to.
LEMMA Asks ==
  ASSUME IInv, NEW r \in Request, Ask(r)
  PROVE  /\ r \in begun /\ req[r].pc = "idle" /\ req'[r].pc = "asked"
         /\ \A q \in Request : q # r => req'[q] = req[q]
         /\ UNCHANGED <<mgrVars, alive, counters, begun>>
         /\ \A i \in DOMAIN chan' : \/ i \in DOMAIN chan /\ chan'[i] = chan[i]
                                    \/ chan'[i].cmd = "next" /\ chan'[i].from = r
         /\ \A k, q : k # "next" => (Has(k, q)' <=> Has(k, q))
         /\ \A q, op : Telling(q, op)' <=> Telling(q, op)
<1>t. chan \in Seq(Command) /\ req \in [Request -> ReqState]
  BY DEF IInv, TypeOK
<1>1. PICK c : c = [cmd |-> "next", from |-> r]
  OBVIOUS
<1>2. c.cmd = "next" /\ c.from = r
  BY <1>1
<1>3. chan' = Append(chan, c) /\ req' = [req EXCEPT ![r].pc = "asked"]
  BY <1>1 DEF Ask, AskId, Send
<1>4. req'[r].pc = "asked" /\ \A q \in Request : q # r => req'[q] = req[q]
  BY <1>t, <1>3, Moved
<1>5. /\ DOMAIN chan' = DOMAIN chan \cup {Len(chan) + 1}
      /\ \A i \in DOMAIN chan : chan'[i] = chan[i]
      /\ chan'[Len(chan) + 1] = c
      /\ \A cmd, q : Has(cmd, q)' <=> Has(cmd, q) \/ (c.cmd = cmd /\ c.from = q)
      /\ \A q, op : Telling(q, op)' <=>
                      Telling(q, op) \/ (c.cmd = "update" /\ c.from = q /\ c.op = op)
  BY <1>t, <1>3, Sent
<1>6. /\ r \in begun /\ req[r].pc = "idle" /\ UNCHANGED <<mgrVars, alive, counters, begun>>
  BY DEF Ask, AskId
<1>7. /\ \A k, q : k # "next" => (Has(k, q)' <=> Has(k, q))
      /\ \A q, op : Telling(q, op)' <=> Telling(q, op)
  BY <1>2, <1>5
<1>8. \A i \in DOMAIN chan' : \/ i \in DOMAIN chan /\ chan'[i] = chan[i]
                              \/ chan'[i].cmd = "next" /\ chan'[i].from = r
  BY <1>2, <1>5
<1> QED
  BY <1>4, <1>6, <1>7, <1>8

LEMMA Writes ==
  ASSUME IInv, NEW r \in Request, WriteLog(r)
  PROVE  /\ req[r].pc = "known" /\ req'[r].pc = "logged"
         /\ \A q \in Request : q # r => req'[q] = req[q]
         /\ UNCHANGED <<mgrVars, alive, counters, begun>>
         /\ \A i \in DOMAIN chan' : \/ i \in DOMAIN chan /\ chan'[i] = chan[i]
                                    \/ chan'[i].cmd = "add" /\ chan'[i].from = r
         /\ \A q : Has("add", q)' <=> Has("add", q) \/ q = r
         /\ \A q, op : Telling(q, op)' <=> Telling(q, op)
<1>t. chan \in Seq(Command) /\ req \in [Request -> ReqState]
  BY DEF IInv, TypeOK
<1>1. PICK c : c = [cmd |-> "add", from |-> r, id |-> req[r].id, key |-> req[r].key]
  OBVIOUS
<1>2. c.cmd = "add" /\ c.from = r
  BY <1>1
<1>3. chan' = Append(chan, c) /\ req' = [req EXCEPT ![r].pc = "logged"]
  BY <1>1 DEF WriteLog, SendLog, Send
<1>4. req'[r].pc = "logged" /\ \A q \in Request : q # r => req'[q] = req[q]
  BY <1>t, <1>3, Moved
<1>5. /\ DOMAIN chan' = DOMAIN chan \cup {Len(chan) + 1}
      /\ \A i \in DOMAIN chan : chan'[i] = chan[i]
      /\ chan'[Len(chan) + 1] = c
      /\ \A cmd, q : Has(cmd, q)' <=> Has(cmd, q) \/ (c.cmd = cmd /\ c.from = q)
      /\ \A q, op : Telling(q, op)' <=>
                      Telling(q, op) \/ (c.cmd = "update" /\ c.from = q /\ c.op = op)
  BY <1>t, <1>3, Sent
<1>6. req[r].pc = "known" /\ UNCHANGED <<mgrVars, alive, counters, begun>>
  BY DEF WriteLog, SendLog
<1>7. /\ \A q : Has("add", q)' <=> Has("add", q) \/ q = r
      /\ \A q, op : Telling(q, op)' <=> Telling(q, op)
  BY <1>2, <1>5
<1>8. \A i \in DOMAIN chan' : \/ i \in DOMAIN chan /\ chan'[i] = chan[i]
                              \/ chan'[i].cmd = "add" /\ chan'[i].from = r
  BY <1>2, <1>5
<1> QED
  BY <1>4, <1>6, <1>7, <1>8

LEMMA Tells ==
  ASSUME IInv, NEW r \in Request, NEW op \in Update, SendUpdate(r, op)
  PROVE  /\ op = "success" => req[r].pc = "logged" /\ req'[r].pc = "served"
         /\ op = "failure" => req[r].pc \in {"logged", "served"} /\ req'[r].pc = "done"
         /\ op = "chain" => req[r].pc = "served" /\ req'[r].pc = "done"
         /\ \A q \in Request : q # r => req'[q] = req[q]
         /\ UNCHANGED <<mgrVars, alive>>
         /\ \A i \in DOMAIN chan' : \/ i \in DOMAIN chan /\ chan'[i] = chan[i]
                                    \/ chan'[i].cmd = "update" /\ chan'[i].from = r
         /\ \A q : Has("add", q)' <=> Has("add", q)
         /\ \A q, o : Telling(q, o)' <=> Telling(q, o) \/ (q = r /\ o = op)
<1>t. chan \in Seq(Command) /\ req \in [Request -> ReqState]
  BY DEF IInv, TypeOK
<1>1. PICK c, p : /\ c = [cmd |-> "update", from |-> r, id |-> req[r].id, op |-> op]
                  /\ p = IF op = "success" THEN "served" ELSE "done"
  OBVIOUS
<1>2. c.cmd = "update" /\ c.from = r /\ c.op = op
  BY <1>1
<1>3. chan' = Append(chan, c) /\ req' = [req EXCEPT ![r].pc = p]
  BY <1>1 DEF SendUpdate, Send
<1>4. req'[r].pc = p /\ \A q \in Request : q # r => req'[q] = req[q]
  BY <1>t, <1>3, Moved
<1>5. /\ DOMAIN chan' = DOMAIN chan \cup {Len(chan) + 1}
      /\ \A i \in DOMAIN chan : chan'[i] = chan[i]
      /\ chan'[Len(chan) + 1] = c
      /\ \A cmd, q : Has(cmd, q)' <=> Has(cmd, q) \/ (c.cmd = cmd /\ c.from = q)
      /\ \A q, o : Telling(q, o)' <=>
                      Telling(q, o) \/ (c.cmd = "update" /\ c.from = q /\ c.op = o)
  BY <1>t, <1>3, Sent
<1>6. /\ op = "success" => req[r].pc = "logged"
      /\ op = "failure" => req[r].pc \in {"logged", "served"}
      /\ op = "chain" => req[r].pc = "served"
      /\ UNCHANGED <<mgrVars, alive>>
  BY DEF SendUpdate, Update
<1>7. /\ op = "success" => p = "served"
      /\ op = "failure" => p = "done"
      /\ op = "chain" => p = "done"
  BY <1>1
<1>8. /\ \A q : Has("add", q)' <=> Has("add", q)
      /\ \A q, o : Telling(q, o)' <=> Telling(q, o) \/ (q = r /\ o = op)
  BY <1>2, <1>5
<1>9. \A i \in DOMAIN chan' : \/ i \in DOMAIN chan /\ chan'[i] = chan[i]
                              \/ chan'[i].cmd = "update" /\ chan'[i].from = r
  BY <1>2, <1>5
<1> QED
  BY <1>4, <1>6, <1>7, <1>8, <1>9

\* A request is dropped or breaks off.
LEMMA Leaves ==
  ASSUME IInv, NEW r \in Request, NEW p, req' = [req EXCEPT ![r].pc = p],
         UNCHANGED <<mgrVars, chan>>
  PROVE  /\ req'[r].pc = p
         /\ \A q \in Request : q # r => req'[q] = req[q]
         /\ \A k, q : Has(k, q)' <=> Has(k, q)
         /\ \A q, o : Telling(q, o)' <=> Telling(q, o)
<1>1. req \in [Request -> ReqState]
  BY DEF IInv, TypeOK
<1>2. req'[r].pc = p /\ \A q \in Request : q # r => req'[q] = req[q]
  BY <1>1, Moved
<1> QED
  BY <1>2 DEF Has, Telling

\* The actor answers.
LEMMA Replies ==
  ASSUME IInv, GetNextLogId \/ Read
  PROVE  /\ UNCHANGED mgrVars
         /\ \A i \in DOMAIN chan' : \E j \in DOMAIN chan : chan'[i] = chan[j]
         /\ \A q : Has("add", q)' <=> Has("add", q)
         /\ \A q, o : Telling(q, o)' <=> Telling(q, o)
         /\ \/ req' = req
            \/ \E r \in Request : /\ req[r].pc = "asked" /\ req'[r].pc = "known"
                                  /\ \A q \in Request : q # r => req'[q] = req[q]
<1>t. chan \in Seq(Command) /\ req \in [Request -> ReqState]
  BY DEF IInv, TypeOK
<1>1. PICK cmd \in {"next", "read"} : Receives(cmd)
  BY DEF GetNextLogId, Read
<1>2. /\ 1 \in DOMAIN chan /\ Head(chan) = chan[1] /\ chan[1].cmd = cmd
      /\ \A i \in DOMAIN chan' : i + 1 \in DOMAIN chan /\ chan'[i] = chan[i + 1]
      /\ \A k, r : /\ Has(k, r)' => Has(k, r)
                   /\ Has(k, r) => Has(k, r)' \/ (k = cmd /\ chan[1].from = r)
      /\ \A r, op : /\ Telling(r, op)' => Telling(r, op)
                    /\ Telling(r, op) =>
                         Telling(r, op)' \/ (cmd = "update" /\ chan[1].from = r /\ chan[1].op = op)
  BY <1>1, <1>t, Taken
<1>3. /\ \A q : Has("add", q)' <=> Has("add", q)
      /\ \A q, o : Telling(q, o)' <=> Telling(q, o)
  BY <1>2
<1>4. \A i \in DOMAIN chan' : \E j \in DOMAIN chan : chan'[i] = chan[j]
  BY <1>2
<1>5. UNCHANGED mgrVars
  BY DEF GetNextLogId, Read
<1>6. ASSUME req' # req
      PROVE  \E r \in Request : /\ req[r].pc = "asked" /\ req'[r].pc = "known"
                                /\ \A q \in Request : q # r => req'[q] = req[q]
  <2>1. GetNextLogId
    BY <1>6 DEF Read
  <2>2. PICK r : r = Head(chan).from
    OBVIOUS
  <2>3. req' = [req EXCEPT ![r].pc = "known", ![r].id = NextLogId] /\ req[r].pc = "asked"
    BY <2>1, <2>2, <1>6 DEF GetNextLogId
  <2>4. r \in Request
    <3>1. chan[1].cmd = "next"
      BY <2>1, <1>t, Taken DEF GetNextLogId
    <3> QED
      BY <3>1, <2>2, <1>2, <1>t, Senders
  <2> QED
    BY <2>3, <2>4, <1>t DEF ReqState
<1> QED
  BY <1>3, <1>4, <1>5, <1>6

\* What the deque has was in the deque or in the channel.
LEMMA TakesAdd ==
  ASSUME IInv, AddLog
  PROVE  /\ \A i \in DOMAIN chan' : \E j \in DOMAIN chan : chan'[i] = chan[j]
         /\ Has("add", Head(chan).from)
         /\ \E j \in DOMAIN chan : chan[j] = Head(chan) /\ chan[j].cmd = "add"
         /\ \A q : Has("add", q)' => Has("add", q)
         /\ \A q : q # Head(chan).from => (Has("add", q)' <=> Has("add", q))
         /\ \A q, o : Telling(q, o)' <=> Telling(q, o)
<1>t. chan \in Seq(Command) /\ Receives("add")
  BY DEF IInv, TypeOK, AddLog
<1>2. /\ 1 \in DOMAIN chan /\ Head(chan) = chan[1] /\ chan[1].cmd = "add"
      /\ \A i \in DOMAIN chan' : i + 1 \in DOMAIN chan /\ chan'[i] = chan[i + 1]
      /\ \A k, r : /\ Has(k, r)' => Has(k, r)
                   /\ Has(k, r) => Has(k, r)' \/ (k = "add" /\ chan[1].from = r)
      /\ \A r, op : /\ Telling(r, op)' => Telling(r, op)
                    /\ Telling(r, op) =>
                         Telling(r, op)' \/ ("add" = "update" /\ chan[1].from = r /\ chan[1].op = op)
  BY <1>t, Taken
<1>3. Has("add", Head(chan).from)
  BY <1>2 DEF Has
<1> QED
  BY <1>2, <1>3

\* The update of r is received.
LEMMA TakesUpdate ==
  ASSUME IInv, Serial, UpdateLog, NEW r, r = Head(chan).from
  PROVE  /\ \A i \in DOMAIN chan' : \E j \in DOMAIN chan : chan'[i] = chan[j]
         /\ r \in Request /\ Head(chan).op \in Update
         /\ \E j \in DOMAIN chan : chan[j].cmd = "update" /\ chan[j].from = r
         /\ Telling(r, Head(chan).op) /\ ~Telling(r, "success")'
         /\ req[r].pc \in {"served", "done", "gone"}
         /\ Head(chan).op # "success" => req[r].pc # "served"
         /\ \A q : Has("add", q)' <=> Has("add", q)
         /\ ~Has("add", r)
         /\ \A q, o : q # r \/ o # Head(chan).op => (Telling(q, o)' <=> Telling(q, o))
         /\ \A q : Owned(q)' = Owned(q)
         /\ \A q : \A i \in Owned(q) :
              logs'[i].status = IF q = r /\ Head(chan).op # "chain" THEN Head(chan).op
                                ELSE logs[i].status
<1>t. chan \in Seq(Command) /\ Receives("update")
  BY DEF IInv, TypeOK, UpdateLog
<1>2. /\ 1 \in DOMAIN chan /\ Head(chan) = chan[1] /\ chan[1].cmd = "update"
      /\ \A i \in DOMAIN chan' : i + 1 \in DOMAIN chan /\ chan'[i] = chan[i + 1]
      /\ \A k, q : /\ Has(k, q)' => Has(k, q)
                   /\ Has(k, q) => Has(k, q)' \/ (k = "update" /\ chan[1].from = q)
      /\ \A q, op : /\ Telling(q, op)' => Telling(q, op)
                    /\ Telling(q, op) =>
                         Telling(q, op)' \/ ("update" = "update" /\ chan[1].from = q /\ chan[1].op = op)
  BY <1>t, Taken
<1>3. r \in Request /\ Head(chan).op \in Update
  BY <1>2, <1>t, Senders
<1>4. Telling(r, Head(chan).op)
  BY <1>2 DEF Telling
<1>5. ~Telling(r, "success")'
  <2>1. \A i \in DOMAIN chan' : Apart(chan[1], chan'[i])
    BY <1>t, TakenOrderly DEF Serial
  <2> QED
    BY <2>1, <1>2 DEF Telling, Apart
<1>6. /\ req[r].pc \in {"served", "done", "gone"}
      /\ Head(chan).op # "success" => req[r].pc # "served"
  BY <1>2 DEF Serial, Fitting, Fits
<1>7. UpdateTarget(Head(chan).id) = Owned(r) /\ ~Has("add", r)
  BY <1>t, OwnTarget
<1>8. /\ Window' = Window
      /\ \A i \in Window : /\ logs'[i].owner = logs[i].owner
                           /\ logs'[i].status =
                                IF i \in Owned(r) /\ Head(chan).op # "chain"
                                THEN Head(chan).op ELSE logs[i].status
  BY <1>7, Updated
<1>9. \A q : Owned(q)' = Owned(q)
  BY <1>8 DEF Owned
<1>10. \A q : \A i \in Owned(q) :
         logs'[i].status = IF q = r /\ Head(chan).op # "chain" THEN Head(chan).op ELSE logs[i].status
  BY <1>8 DEF Owned
<1>11. /\ \A i \in DOMAIN chan' : \E j \in DOMAIN chan : chan'[i] = chan[j]
       /\ \E j \in DOMAIN chan : chan[j].cmd = "update" /\ chan[j].from = r
  BY <1>2
<1>12. /\ \A q : Has("add", q)' <=> Has("add", q)
       /\ \A q, o : q # r \/ o # Head(chan).op => (Telling(q, o)' <=> Telling(q, o))
  BY <1>2
<1> QED
  BY <1>3, <1>4, <1>5, <1>6, <1>7, <1>9, <1>10, <1>11, <1>12

LEMMA AsksRead ==
  ASSUME IInv, NEW d \in Reader, AskToRead(d)
  PROVE  /\ UNCHANGED <<mgrVars, req, alive, counters, begun>>
         /\ \A i \in DOMAIN chan' : \/ i \in DOMAIN chan /\ chan'[i] = chan[i]
                                    \/ chan'[i].cmd = "read"
         /\ \A q : Has("add", q)' <=> Has("add", q)
         /\ \A q, o : Telling(q, o)' <=> Telling(q, o)
<1>t. chan \in Seq(Command)
  BY DEF IInv, TypeOK
<1>1. PICK c : c = [cmd |-> "read", from |-> d]
  OBVIOUS
<1>2. c.cmd = "read" /\ c.from = d
  BY <1>1
<1>3. chan' = Append(chan, c) /\ UNCHANGED <<mgrVars, req, alive, counters, begun>>
  BY <1>1 DEF AskToRead, AskRead, Send
<1>5. /\ DOMAIN chan' = DOMAIN chan \cup {Len(chan) + 1}
      /\ \A i \in DOMAIN chan : chan'[i] = chan[i]
      /\ chan'[Len(chan) + 1] = c
      /\ \A cmd, q : Has(cmd, q)' <=> Has(cmd, q) \/ (c.cmd = cmd /\ c.from = q)
      /\ \A q, op : Telling(q, op)' <=>
                      Telling(q, op) \/ (c.cmd = "update" /\ c.from = q /\ c.op = op)
  BY <1>t, <1>3, Sent
<1>6. /\ \A q : Has("add", q)' <=> Has("add", q)
      /\ \A q, o : Telling(q, o)' <=> Telling(q, o)
  BY <1>2, <1>5
<1>7. \A i \in DOMAIN chan' : \/ i \in DOMAIN chan /\ chan'[i] = chan[i]
                              \/ chan'[i].cmd = "read"
  BY <1>2, <1>5
<1> QED
  BY <1>3, <1>6, <1>7

\* A connection that is lost is a request's or a reader's.
LEMMA Drops ==
  ASSUME Dropped
  PROVE  /\ UNCHANGED <<mgrVars, chan, alive, counters, begun>>
         /\ \/ req' = req
            \/ \E r \in Request : /\ req[r].pc \in {"asked", "known", "logged", "served"}
                                  /\ req' = [req EXCEPT ![r].pc = "gone"]
BY DEF Dropped, Disconnect

LEMMA SameBegun ==
  ASSUME Begun, UNCHANGED <<mgrVars, begun>>,
         \A r \in Request : req'[r].pc \in {"asked", "known", "logged", "served"} => r \in begun,
         \A i \in DOMAIN chan' : chan'[i].cmd # "read" => chan'[i].from \in begun
  PROVE  Begun'
BY SameLogs DEF Begun

LEMMA BegunStep ==
  ASSUME Base, [RequestNext]_requestVars
  PROVE  Begun'
<1>i. IInv /\ Begun
  BY DEF Base
<1>1. CASE UNCHANGED requestVars
  BY <1>i, <1>1 DEF requestVars, vars, mgrVars, Begun, Window
<1>2. ASSUME NEW r \in Request, Begin(r) PROVE Begun'
  <2>1. begun' = begun \cup {r} /\ UNCHANGED <<first, last, logs, req, chan>>
    BY <1>2 DEF Begin, vars, mgrVars
  <2>2. IsFiniteSet(begun')
    BY <2>1, <1>i, FS_AddElement DEF Begun
  <2> QED
    BY <2>1, <2>2, <1>i DEF Begun, Window
<1>3. ASSUME NEW r \in Request, Ask(r) PROVE Begun'
  <2>1. \A q \in Request : req'[q].pc \in {"asked", "known", "logged", "served"} => q \in begun
    BY <1>i, <1>3, Asks DEF Begun
  <2>2. \A i \in DOMAIN chan' : chan'[i].cmd # "read" => chan'[i].from \in begun
    BY <1>i, <1>3, Asks DEF Begun
  <2> QED
    BY <1>i, <1>3, <2>1, <2>2, Asks, SameBegun
<1>4. ASSUME NEW r \in Request, WriteLog(r) PROVE Begun'
  <2>1. \A q \in Request : req'[q].pc \in {"asked", "known", "logged", "served"} => q \in begun
    BY <1>i, <1>4, Writes DEF Begun
  <2>2. \A i \in DOMAIN chan' : chan'[i].cmd # "read" => chan'[i].from \in begun
    BY <1>i, <1>4, Writes DEF Begun
  <2> QED
    BY <1>i, <1>4, <2>1, <2>2, Writes, SameBegun
<1>5. ASSUME NEW r \in Request, Answers(r) \/ Refused(r) \/ Fails(r) \/ Finishes(r) PROVE Begun'
  <2>1. PICK op \in Update : SendUpdate(r, op)
    BY <1>5 DEF Answers, Refused, Fails, Finishes, Update
  <2>2. UNCHANGED begun
    BY <1>5 DEF Answers, Refused, Fails, Finishes
  <2>3. r \in begun
    BY <1>i, <2>1, Tells DEF Begun, Update
  <2>4. \A q \in Request : req'[q].pc \in {"asked", "known", "logged", "served"} => q \in begun
    BY <1>i, <2>1, <2>3, Tells DEF Begun, Update
  <2>5. \A i \in DOMAIN chan' : chan'[i].cmd # "read" => chan'[i].from \in begun
    BY <1>i, <2>1, <2>3, Tells DEF Begun
  <2>6. UNCHANGED mgrVars
    BY <1>i, <2>1, Tells
  <2> QED
    BY <1>i, <2>2, <2>4, <2>5, <2>6, SameBegun
<1>6. ASSUME NEW r \in Request, BreaksOff(r) \/ DroppedAtOnce(r) PROVE Begun'
  <2>1. PICK p \in {"done", "gone"} :
          /\ p = "done" => req[r].pc = "served"
          /\ req' = [req EXCEPT ![r].pc = p]
          /\ UNCHANGED <<mgrVars, chan>>
    BY <1>6, Leaving
  <2>2. begun' = begun
    BY <1>6 DEF BreaksOff, DroppedAtOnce
  <2>3. /\ req'[r].pc = p
        /\ \A q \in Request : q # r => req'[q] = req[q]
    BY <1>i, <2>1, Leaves
  <2> QED
    BY <1>i, <2>1, <2>2, <2>3, SameLogs DEF Begun
<1>7. CASE Dropped
  <2>1. /\ UNCHANGED <<mgrVars, chan, begun>>
        /\ \/ req' = req
           \/ \E r \in Request : /\ req[r].pc \in {"asked", "known", "logged", "served"}
                                 /\ req' = [req EXCEPT ![r].pc = "gone"]
    BY <1>7, Drops
  <2>2. CASE req' = req
    BY <1>i, <2>1, <2>2, SameLogs DEF Begun
  <2>3. ASSUME NEW r \in Request,
               req[r].pc \in {"asked", "known", "logged", "served"},
               req' = [req EXCEPT ![r].pc = "gone"]
        PROVE  Begun'
    <3>1. /\ req'[r].pc = "gone"
          /\ \A q \in Request : q # r => req'[q] = req[q]
      BY <1>i, <2>1, <2>3, Leaves
    <3> QED
      BY <1>i, <2>1, <2>3, <3>1, SameLogs DEF Begun
  <2> QED
    BY <2>1, <2>2, <2>3
<1>8. ASSUME NEW d \in Reader, AskToRead(d) PROVE Begun'
  BY <1>i, <1>8, AsksRead, SameLogs DEF Begun
<1>9. CASE ActorStep
  <2>1. UNCHANGED begun /\ Actor
    BY <1>9 DEF ActorStep
  <2>2. CASE GetNextLogId \/ Read
    <3>1. \A q \in Request : req'[q].pc \in {"asked", "known", "logged", "served"} => q \in begun
      BY <1>i, <2>2, Replies DEF Begun
    <3>2. \A i \in DOMAIN chan' : chan'[i].cmd # "read" => chan'[i].from \in begun
      BY <1>i, <2>2, Replies DEF Begun
    <3> QED
      BY <1>i, <2>1, <2>2, <3>1, <3>2, Replies, SameBegun
  <2>3. CASE AddLog
    <3>1. req' = req /\ \A i \in Window' : i # last + 1 => i \in Window /\ logs'[i] = logs[i]
      BY <1>i, <2>3, Added
    <3>2. logs'[last + 1].owner \in begun
      <4>1. logs'[last + 1].owner = Head(chan).from
        BY <1>i, <2>3, Added
      <4>2. Head(chan).from \in begun
        BY <1>i, <2>3, TakesAdd DEF Begun
      <4> QED
        BY <4>1, <4>2
    <3>3. \A i \in Window' : logs'[i].owner # None => logs'[i].owner \in begun
      BY <1>i, <3>1, <3>2 DEF Begun
    <3>4. \A i \in DOMAIN chan' : chan'[i].cmd # "read" => chan'[i].from \in begun
      BY <1>i, <2>3, TakesAdd DEF Begun
    <3> QED
      BY <1>i, <2>1, <3>1, <3>3, <3>4 DEF Begun
  <2>4. CASE UpdateLog
    <3>1. req' = req /\ Window' = Window /\ \A i \in Window : logs'[i].owner = logs[i].owner
      BY <1>i, <2>4, Updated
    <3>2. \A i \in DOMAIN chan' : chan'[i].cmd # "read" => chan'[i].from \in begun
      <4>1. \A i \in DOMAIN chan' : \E j \in DOMAIN chan : chan'[i] = chan[j]
        BY <2>4, TakesUpdate DEF Base
      <4> QED
        BY <4>1, <1>i DEF Begun
    <3> QED
      BY <1>i, <2>1, <3>1, <3>2 DEF Begun
  <2> QED
    BY <2>1, <2>2, <2>3, <2>4 DEF Actor
<1>10. CASE Restart
  <2>1. /\ \A i \in Window' : logs'[i].owner = None
        /\ DOMAIN chan' = {}
        /\ \A r \in Request : req'[r].pc \in {"idle", "done", "gone"}
    BY <1>10, Loaded
  <2>2. begun' = {}
    BY <1>10 DEF Restart
  <2>3. IsFiniteSet({})
    BY FS_EmptySet
  <2> QED
    BY <2>1, <2>2, <2>3 DEF Begun
<1> QED
  BY <1>1, <1>2, <1>3, <1>4, <1>5, <1>6, <1>7, <1>8, <1>9, <1>10 DEF RequestNext, Step

-----------------------------------------------------------------------------
(* The number of active requests *)

LEMMA InFlightFinite ==
  ASSUME Begun
  PROVE  IsFiniteSet(InFlight) /\ Cardinality(InFlight) \in Nat
<1>1. InFlight \in SUBSET begun /\ IsFiniteSet(begun)
  BY DEF InFlight, Begun
<1> QED
  BY <1>1, FS_Subset, FS_CardinalityType

\* A request is counted, answered or refused, dropped early, or none of these.
LEMMA ActiveMoves ==
  ASSUME Begun, active \in Int, ActiveCovers, NEW r,
         \/ r \notin InFlight /\ InFlight' = InFlight \cup {r} /\ active' = active + 1
         \/ r \in InFlight /\ InFlight' = InFlight \ {r} /\ active' \in {active - 1, active}
         \/ InFlight' = InFlight /\ active' = active
  PROVE  active' \in Int /\ ActiveCovers'
<1>1. IsFiniteSet(InFlight) /\ Cardinality(InFlight) \in Nat
  BY InFlightFinite
<1>2. active >= Cardinality(InFlight)
  BY DEF ActiveCovers
<1>3. /\ r \notin InFlight => Cardinality(InFlight \cup {r}) = Cardinality(InFlight) + 1
      /\ r \in InFlight => Cardinality(InFlight \ {r}) = Cardinality(InFlight) - 1
  BY <1>1, FS_AddElement, FS_RemoveElement
<1>4. active' >= Cardinality(InFlight')
  <2>1. CASE r \notin InFlight /\ InFlight' = InFlight \cup {r} /\ active' = active + 1
    BY <1>1, <1>2, <1>3, <2>1
  <2>2. CASE r \in InFlight /\ InFlight' = InFlight \ {r} /\ active' \in {active - 1, active}
    BY <1>1, <1>2, <1>3, <2>2
  <2>3. CASE InFlight' = InFlight /\ active' = active
    BY <1>2, <2>3
  <2> QED
    BY <2>1, <2>2, <2>3
<1>5. active' \in Int
  OBVIOUS
<1> QED
  BY <1>4, <1>5 DEF ActiveCovers

LEMMA ActiveStep ==
  ASSUME RInv, [RequestNext]_requestVars
  PROVE  Numbers' /\ ActiveCovers'
<1>i. IInv /\ Begun /\ Numbers /\ ActiveCovers
  BY DEF RInv, Base
<1>1. CASE UNCHANGED requestVars
  BY <1>i, <1>1 DEF requestVars, vars, counters, Numbers, ActiveCovers, InFlight
<1>2. ASSUME NEW r \in Request, Begin(r) PROVE Numbers' /\ ActiveCovers'
  <2>1. /\ begun' = begun \cup {r} /\ r \notin begun /\ req[r].pc = "idle"
        /\ req' = req /\ active' = active + 1 /\ total' = total + 1 /\ errors' = errors
    BY <1>2 DEF Begin, vars
  <2>2. r \notin InFlight /\ InFlight' = InFlight \cup {r}
    BY <2>1 DEF InFlight
  <2> QED
    BY <1>i, <2>1, <2>2, ActiveMoves DEF Numbers
<1>3. ASSUME NEW r \in Request, Ask(r) \/ WriteLog(r) PROVE Numbers' /\ ActiveCovers'
  <2>1. /\ UNCHANGED <<counters, begun>>
        /\ req[r].pc \in {"idle", "known"} /\ req'[r].pc \in {"asked", "logged"}
        /\ \A q \in Request : q # r => req'[q] = req[q]
    BY <1>i, <1>3, Asks, Writes
  <2>2. InFlight' = InFlight
    BY <1>i, <2>1 DEF InFlight, Begun
  <2> QED
    BY <1>i, <2>1, <2>2, ActiveMoves DEF Numbers, counters
<1>4. ASSUME NEW r \in Request, Answers(r) \/ Refused(r) PROVE Numbers' /\ ActiveCovers'
  <2>1. PICK op \in {"success", "failure"} : SendUpdate(r, op)
    BY <1>4 DEF Answers, Refused
  <2>2. /\ begun' = begun /\ active' = active - 1 /\ total' = total
        /\ errors' \in {errors, errors + 1}
        /\ req[r].pc = "logged"
    BY <1>4 DEF Answers, Refused, SendUpdate
  <2>3. req'[r].pc \in {"served", "done"} /\ \A q \in Request : q # r => req'[q] = req[q]
    BY <1>i, <2>1, Tells DEF Update
  <2>4. r \in InFlight /\ InFlight' = InFlight \ {r}
    BY <1>i, <2>2, <2>3 DEF InFlight, Begun
  <2> QED
    BY <1>i, <2>2, <2>4, ActiveMoves DEF Numbers
<1>5. ASSUME NEW r \in Request, Fails(r) \/ Finishes(r) PROVE Numbers' /\ ActiveCovers'
  <2>1. PICK op \in {"failure", "chain"} : SendUpdate(r, op)
    BY <1>5 DEF Fails, Finishes
  <2>2. /\ begun' = begun /\ active' = active /\ total' = total
        /\ errors' \in {errors, errors + 1}
        /\ req[r].pc = "served"
    BY <1>5 DEF Fails, Finishes, SendUpdate, counters
  <2>3. req'[r].pc = "done" /\ \A q \in Request : q # r => req'[q] = req[q]
    BY <1>i, <2>1, Tells DEF Update
  <2>4. InFlight' = InFlight
    BY <1>i, <2>2, <2>3 DEF InFlight, Begun
  <2> QED
    BY <1>i, <2>2, <2>4, ActiveMoves DEF Numbers
<1>6. ASSUME NEW r \in Request, BreaksOff(r) PROVE Numbers' /\ ActiveCovers'
  <2>1. /\ req[r].pc = "served" /\ req' = [req EXCEPT ![r].pc = "done"]
        /\ UNCHANGED <<mgrVars, chan, counters, begun>>
    BY <1>6 DEF BreaksOff
  <2>2. req'[r].pc = "done" /\ \A q \in Request : q # r => req'[q] = req[q]
    BY <1>i, <2>1, Leaves
  <2>3. InFlight' = InFlight
    BY <1>i, <2>1, <2>2 DEF InFlight, Begun
  <2> QED
    BY <1>i, <2>1, <2>3, ActiveMoves DEF Numbers, counters
<1>7. ASSUME NEW r \in Request, req[r].pc \in {"idle", "asked", "known", "logged"}, r \in begun,
             req' = [req EXCEPT ![r].pc = "gone"],
             UNCHANGED <<mgrVars, chan, counters, begun>>
      PROVE  Numbers' /\ ActiveCovers'
  <2>1. req'[r].pc = "gone" /\ \A q \in Request : q # r => req'[q] = req[q]
    BY <1>i, <1>7, Leaves
  <2>2. r \in InFlight /\ InFlight' = InFlight \ {r}
    BY <1>i, <1>7, <2>1 DEF InFlight, Begun
  <2> QED
    BY <1>i, <1>7, <2>2, ActiveMoves DEF Numbers, counters
<1>8. ASSUME NEW r \in Request, DroppedAtOnce(r) PROVE Numbers' /\ ActiveCovers'
  BY <1>7, <1>8 DEF DroppedAtOnce
<1>9. CASE Dropped
  <2>1. /\ UNCHANGED <<mgrVars, chan, counters, begun>>
        /\ \/ req' = req
           \/ \E r \in Request : /\ req[r].pc \in {"asked", "known", "logged", "served"}
                                 /\ req' = [req EXCEPT ![r].pc = "gone"]
    BY <1>9, Drops
  <2>2. CASE req' = req
    BY <1>i, <2>1, <2>2 DEF Numbers, counters, ActiveCovers, InFlight
  <2>3. ASSUME NEW r \in Request,
               req[r].pc \in {"asked", "known", "logged", "served"},
               req' = [req EXCEPT ![r].pc = "gone"]
        PROVE  Numbers' /\ ActiveCovers'
    <3>1. CASE req[r].pc = "served"
      <4>1. req'[r].pc = "gone" /\ \A q \in Request : q # r => req'[q] = req[q]
        BY <1>i, <2>1, <2>3, Leaves
      <4>2. InFlight' = InFlight
        BY <1>i, <2>1, <2>3, <3>1, <4>1 DEF InFlight, Begun
      <4> QED
        BY <1>i, <2>1, <4>2, ActiveMoves DEF Numbers, counters
    <3>2. CASE req[r].pc # "served"
      BY <1>i, <1>7, <2>1, <2>3, <3>2 DEF Begun
    <3> QED
      BY <3>1, <3>2
  <2> QED
    BY <2>1, <2>2, <2>3
<1>10. ASSUME NEW d \in Reader, AskToRead(d) PROVE Numbers' /\ ActiveCovers'
  BY <1>i, <1>10, AsksRead DEF Numbers, counters, ActiveCovers, InFlight
<1>11. CASE ActorStep
  <2>1. UNCHANGED <<counters, begun>> /\ Actor
    BY <1>11 DEF ActorStep
  <2>2. CASE AddLog \/ UpdateLog
    BY <1>i, <2>1, <2>2 DEF AddLog, UpdateLog, Numbers, counters, ActiveCovers, InFlight
  <2>3. CASE GetNextLogId \/ Read
    <3>1. InFlight' = InFlight
      BY <1>i, <2>1, <2>3, Replies DEF InFlight, Begun
    <3> QED
      BY <1>i, <2>1, <3>1, ActiveMoves DEF Numbers, counters
  <2> QED
    BY <2>1, <2>2, <2>3 DEF Actor
<1>12. CASE Restart
  <2>1. /\ active' = 0 /\ begun' = {}
        /\ total' = TotalCount(disk) /\ errors' = ErrorCount(disk)
    BY <1>12 DEF Restart, ErrorsAtStart
  <2>2. total' \in Int
    BY <2>1 DEF TotalCount, RInv, Base, Loadable
  <2>3. errors' \in Int
    <3>0. disk.first \in Int /\ disk.last \in Int
      BY DEF RInv, Base, Loadable
    <3>1. IsFiniteSet(disk.first..disk.last)
      BY <3>0, FS_Interval
    <3>2. {i \in disk.first..disk.last : disk.logs[i].status # "success"} \in SUBSET (disk.first..disk.last)
      OBVIOUS
    <3>3. Cardinality({i \in disk.first..disk.last : disk.logs[i].status # "success"}) \in Nat
      BY <3>1, <3>2, FS_Subset, FS_CardinalityType
    <3> QED
      BY <2>1, <3>3 DEF ErrorCount
  <2>4. ActiveCovers'
    <3>1. InFlight' = {}
      BY <2>1 DEF InFlight
    <3> QED
      BY <2>1, <3>1, FS_EmptySet DEF ActiveCovers
  <2> QED
    BY <2>1, <2>2, <2>3, <2>4 DEF Numbers
<1> QED
  BY <1>1, <1>2, <1>3, <1>4, <1>5, <1>6, <1>8, <1>9, <1>10, <1>11, <1>12 DEF RequestNext, Step

-----------------------------------------------------------------------------
(* The actor ends only over an answer that nobody waits for. *)

LEMMA AliveStep ==
  ASSUME RInv, [RequestNext]_requestVars
  PROVE  AliveUnlessDropped'
<1>i. IInv /\ Serial /\ AliveUnlessDropped
  BY DEF RInv, Base
<1>t. chan \in Seq(Command)
  BY <1>i DEF IInv, TypeOK
<1>1. CASE UNCHANGED requestVars
  BY <1>i, <1>1 DEF requestVars, vars, AliveUnlessDropped
<1>2. CASE alive'
  BY <1>2 DEF AliveUnlessDropped
<1>3. CASE GetNextLogId /\ ~alive'
  <2>1. PICK r : r = Head(chan).from
    OBVIOUS
  <2>2. Receives("next") /\ req[r].pc # "asked" /\ req' = req
    BY <1>3, <2>1 DEF GetNextLogId, Receives
  <2>3. 1 \in DOMAIN chan /\ chan[1].cmd = "next" /\ chan[1].from = r
    BY <1>t, <2>1, <2>2, Taken
  <2>4. r \in Request /\ req[r].pc = "gone"
    BY <1>i, <1>t, <2>2, <2>3, Senders DEF Serial, Fitting, Fits
  <2> QED
    BY <2>2, <2>4 DEF AliveUnlessDropped
<1>4. CASE Read /\ ~alive'
  <2>1. PICK d : d = Head(chan).from
    OBVIOUS
  <2>2. \A i \in Window : logs[i].key \in DOMAIN tokens
    BY <1>i DEF IInv, RefsExact
  <2>3. Receives("read") /\ reader[d] # "asked" /\ reader' = reader
    BY <1>4, <2>1, <2>2 DEF Read, Receives
  <2>4. 1 \in DOMAIN chan /\ chan[1].cmd = "read" /\ chan[1].from = d
    BY <1>t, <2>1, <2>3, Taken
  <2>5. d \in Reader /\ reader[d] = "gone"
    BY <1>i, <1>t, <2>3, <2>4, Senders DEF Serial, Fitting, Fits
  <2> QED
    BY <2>3, <2>5 DEF AliveUnlessDropped
<1>5. RequestNext => alive' \/ GetNextLogId \/ Read
  <2>1. \A r \in Request : Begin(r) \/ Step(r) \/ DroppedAtOnce(r) => alive'
    BY DEF Begin, vars, Step, Ask, AskId, WriteLog, SendLog, Answers, Refused, Fails, Finishes, SendUpdate,
           BreaksOff, DroppedAtOnce
  <2>2. Dropped \/ Restart => alive'
    BY DEF Dropped, Disconnect, Restart
  <2>3. \A d \in Reader : AskToRead(d) => alive'
    BY DEF AskToRead, AskRead
  <2>4. AddLog \/ UpdateLog => alive'
    BY DEF AddLog, UpdateLog, Receives
  <2> QED
    BY <2>1, <2>2, <2>3, <2>4 DEF RequestNext, ActorStep, Actor
<1> QED
  BY <1>1, <1>2, <1>3, <1>4, <1>5

-----------------------------------------------------------------------------
(* The status of logs *)

\* What a request has told is the same after a step that is not about it.
LEMMA SameTold ==
  ASSUME NEW q, ToldOf(q), req'[q].pc = req[q].pc, Has("add", q)' => Has("add", q),
         Telling(q, "success")' <=> Telling(q, "success"),
         Telling(q, "failure")' <=> Telling(q, "failure"),
         \A i \in Owned(q)' : i \in Owned(q) /\ logs'[i].status = logs[i].status
  PROVE  ToldOf(q)'
<1>1. Pending(q)' => Pending(q)
  BY DEF Pending
<1>2. /\ \A i, j \in Owned(q)' : i = j
      /\ req'[q].pc = "logged" \/ Telling(q, "success")' =>
           \A i \in Owned(q)' : logs'[i].status = "pending"
      /\ (\E i \in Owned(q)' : logs'[i].status = "failure") => req'[q].pc \in {"done", "gone"}
  BY DEF ToldOf
<1>3. /\ req'[q].pc = "served" /\ Pending(q)' => Telling(q, "success")'
      /\ req'[q].pc = "done" /\ Pending(q)' => Telling(q, "success")' \/ Telling(q, "failure")'
  BY <1>1 DEF ToldOf
<1> QED
  BY <1>2, <1>3 DEF ToldOf

\* Nothing has been told about a log that is not there.
LEMMA Untold ==
  ASSUME NEW q, Owned(q)' = {}, req'[q].pc \in {"idle", "asked", "known", "logged", "gone"} \/ ~Has("add", q)'
  PROVE  ToldOf(q)'
BY DEF ToldOf, Pending

LEMMA ToldStep ==
  ASSUME RInv, [RequestNext]_requestVars
  PROVE  Told'
<1>i. IInv /\ Serial /\ Begun /\ \A q \in Request : ToldOf(q)
  BY DEF RInv, Base, Told
<1> SUFFICES ASSUME NEW q \in Request PROVE ToldOf(q)'
  BY DEF Told
<1>0. Owned(q)' = {i \in Window' : logs'[i].owner = q}
  BY DEF Owned
<1>1. CASE UNCHANGED vars
  <2>1. UNCHANGED <<mgrVars, req, chan>>
    BY <1>1 DEF vars
  <2>2. /\ Has("add", q)' <=> Has("add", q)
        /\ \A o : Telling(q, o)' <=> Telling(q, o)
    BY <2>1 DEF Has, Telling
  <2> QED
    BY <1>i, <2>1, <2>2, SameTold, SameLogs
<1>3. ASSUME NEW r \in Request, Ask(r) PROVE ToldOf(q)'
  <2>1. CASE q = r
    <3>1. Owned(q)' = {}
      BY <1>i, <1>3, <2>1, Asks, SameLogs DEF Serial, Ids
    <3> QED
      BY <1>i, <1>3, <2>1, <3>1, Asks, Untold
  <2>2. CASE q # r
    <3>1. Owned(q)' = Owned(q) /\ logs' = logs
      BY <1>i, <1>3, Asks, SameLogs
    <3>2. req'[q] = req[q] /\ (Has("add", q)' <=> Has("add", q)) /\ \A o : Telling(q, o)' <=> Telling(q, o)
      BY <1>i, <1>3, <2>2, Asks
    <3> QED
      BY <1>i, <3>1, <3>2, SameTold
  <2> QED
    BY <2>1, <2>2
<1>4. ASSUME NEW r \in Request, WriteLog(r) PROVE ToldOf(q)'
  <2>1. CASE q = r
    <3>1. Owned(q)' = {}
      BY <1>i, <1>4, <2>1, Writes, SameLogs DEF Serial, Ids
    <3> QED
      BY <1>i, <1>4, <2>1, <3>1, Writes, Untold
  <2>2. CASE q # r
    <3>1. Owned(q)' = Owned(q) /\ logs' = logs
      BY <1>i, <1>4, Writes, SameLogs
    <3>2. req'[q] = req[q] /\ (Has("add", q)' <=> Has("add", q)) /\ \A o : Telling(q, o)' <=> Telling(q, o)
      BY <1>i, <1>4, <2>2, Writes
    <3> QED
      BY <1>i, <3>1, <3>2, SameTold
  <2> QED
    BY <2>1, <2>2
<1>5. ASSUME NEW r \in Request, Answers(r) \/ Refused(r) \/ Fails(r) \/ Finishes(r) PROVE ToldOf(q)'
  <2>1. PICK op \in Update : SendUpdate(r, op)
    BY <1>5 DEF Answers, Refused, Fails, Finishes, Update
  <2>2. Owned(q)' = Owned(q) /\ logs' = logs /\ (Has("add", q)' <=> Has("add", q))
    BY <1>i, <2>1, Tells, SameLogs
  <2>3. CASE q = r
    <3>1. /\ op = "success" => req[q].pc = "logged" /\ req'[q].pc = "served"
          /\ op = "failure" => req[q].pc \in {"logged", "served"} /\ req'[q].pc = "done"
          /\ op = "chain" => req[q].pc = "served" /\ req'[q].pc = "done"
          /\ \A o : Telling(q, o)' <=> Telling(q, o) \/ o = op
      BY <1>i, <2>1, <2>3, Tells
    <3>2. op \in {"success", "failure", "chain"}
      BY DEF Update
    <3>3. Pending(q)' <=> Pending(q)
      BY <2>2 DEF Pending
    <3>4. CASE op = "success"
      BY <1>i, <2>2, <3>1, <3>3, <3>4 DEF ToldOf
    <3>5. CASE op = "failure"
      BY <1>i, <2>2, <3>1, <3>3, <3>5 DEF ToldOf
    <3>6. CASE op = "chain"
      BY <1>i, <2>2, <3>1, <3>3, <3>6 DEF ToldOf
    <3> QED
      BY <3>2, <3>4, <3>5, <3>6
  <2>4. CASE q # r
    <3>1. req'[q] = req[q] /\ \A o : Telling(q, o)' <=> Telling(q, o)
      BY <1>i, <2>1, <2>4, Tells
    <3> QED
      BY <1>i, <2>2, <3>1, SameTold
  <2> QED
    BY <2>3, <2>4
<1>6. ASSUME NEW r \in Request, NEW p \in {"done", "gone"}, p = "done" => req[r].pc = "served",
             req' = [req EXCEPT ![r].pc = p], UNCHANGED <<mgrVars, chan>>
      PROVE  ToldOf(q)'
  <2>1. /\ req'[r].pc = p /\ (q # r => req'[q] = req[q])
        /\ Has("add", q)' <=> Has("add", q)
        /\ \A o : Telling(q, o)' <=> Telling(q, o)
    BY <1>i, <1>6, Leaves
  <2>2. Owned(q)' = Owned(q) /\ logs' = logs
    BY <1>6, SameLogs
  <2>3. CASE q = r
    <3>1. Pending(q)' <=> Pending(q)
      BY <2>1, <2>2 DEF Pending
    <3> QED
      BY <1>i, <1>6, <2>1, <2>2, <2>3, <3>1 DEF ToldOf
  <2>4. CASE q # r
    BY <1>i, <2>1, <2>2, <2>4, SameTold
  <2> QED
    BY <2>3, <2>4
<1>7. ASSUME NEW r \in Request, BreaksOff(r) \/ DroppedAtOnce(r) PROVE ToldOf(q)'
  BY <1>6, <1>7, Leaving
<1>8. CASE Dropped
  <2>1. /\ UNCHANGED <<mgrVars, chan>>
        /\ req' = req \/ \E r \in Request : req' = [req EXCEPT ![r].pc = "gone"]
    BY <1>i, <1>8, Drops
  <2>2. CASE req' = req
    <3>1. /\ Has("add", q)' <=> Has("add", q)
          /\ \A o : Telling(q, o)' <=> Telling(q, o)
      BY <2>1 DEF Has, Telling
    <3> QED
      BY <1>i, <2>1, <2>2, <3>1, SameTold, SameLogs
  <2> QED
    BY <1>6, <2>1, <2>2
<1>9. ASSUME NEW d \in Reader, AskToRead(d) PROVE ToldOf(q)'
  <2>1. req' = req /\ (Has("add", q)' <=> Has("add", q)) /\ \A o : Telling(q, o)' <=> Telling(q, o)
    BY <1>i, <1>9, AsksRead
  <2>2. Owned(q)' = Owned(q) /\ logs' = logs
    BY <1>i, <1>9, AsksRead, SameLogs
  <2> QED
    BY <1>i, <2>1, <2>2, SameTold
<1>10. CASE GetNextLogId \/ Read
  <2>1. /\ Has("add", q)' <=> Has("add", q)
        /\ \A o : Telling(q, o)' <=> Telling(q, o)
        /\ req'[q] = req[q] \/ (req[q].pc = "asked" /\ req'[q].pc = "known")
    BY <1>i, <1>10, Replies
  <2>2. Owned(q)' = Owned(q) /\ logs' = logs
    BY <1>i, <1>10, Replies, SameLogs
  <2>3. CASE req'[q] = req[q]
    BY <1>i, <2>1, <2>2, <2>3, SameTold
  <2>4. CASE req[q].pc = "asked" /\ req'[q].pc = "known"
    <3>1. Owned(q)' = {}
      BY <1>i, <2>2, <2>4 DEF Serial, Ids
    <3> QED
      BY <2>4, <3>1, Untold
  <2> QED
    BY <2>1, <2>3, <2>4
<1>11. CASE AddLog
  <2>1. PICK r : r = Head(chan).from
    OBVIOUS
  <2>2. /\ r \in Request /\ req' = req
        /\ logs'[last + 1].status = "pending" /\ logs'[last + 1].owner = r
        /\ \A i \in Window' : i # last + 1 => i \in Window /\ logs'[i] = logs[i]
    BY <1>i, <1>11, <2>1, Added
  <2>3. /\ Has("add", r) /\ (Has("add", q)' => Has("add", q))
        /\ \A o : Telling(q, o)' <=> Telling(q, o)
    BY <1>i, <1>11, <2>1, TakesAdd
  <2>4. CASE q = r
    <3>1. Owned(q) = {}
      BY <1>i, <2>3, <2>4 DEF Serial, Ids
    <3>2. \A i \in Owned(q)' : i = last + 1
      BY <1>0, <2>2, <3>1 DEF Owned
    <3>3. \A i, j \in Owned(q)' : i = j
      BY <3>2
    <3>4. \A i \in Owned(q)' : logs'[i].status = "pending"
      BY <2>2, <3>2
    <3>5. Pending(q)
      BY <2>3, <2>4 DEF Pending
    <3> QED
      BY <1>i, <2>2, <2>3, <3>3, <3>4, <3>5 DEF ToldOf
  <2>5. CASE q # r
    <3>1. \A i \in Owned(q)' : i \in Owned(q) /\ logs'[i].status = logs[i].status
      BY <1>0, <2>2, <2>5 DEF Owned
    <3> QED
      BY <1>i, <2>2, <2>3, <3>1, SameTold
  <2> QED
    BY <2>4, <2>5
<1>12. CASE UpdateLog
  <2>1. PICK r, op : r = Head(chan).from /\ op = Head(chan).op
    OBVIOUS
  <2>2. /\ r \in Request /\ op \in Update /\ ~Telling(r, "success")'
        /\ req[r].pc \in {"served", "done", "gone"}
        /\ op # "success" => req[r].pc # "served"
        /\ Has("add", q)' <=> Has("add", q)
        /\ ~Has("add", r)
        /\ \A o : q # r \/ o # op => (Telling(q, o)' <=> Telling(q, o))
        /\ Owned(q)' = Owned(q)
        /\ \A i \in Owned(q) :
             logs'[i].status = IF q = r /\ op # "chain" THEN op ELSE logs[i].status
    BY <1>i, <1>12, <2>1, TakesUpdate
  <2>3. req' = req
    BY <1>12 DEF UpdateLog
  <2>4. CASE q = r /\ op # "chain"
    <3>1. op \in {"success", "failure"}
      BY <2>2, <2>4 DEF Update
    <3>2. \A i \in Owned(q)' : logs'[i].status = op
      BY <2>2, <2>4
    <3>3. ~Pending(q)'
      BY <2>2, <2>4, <3>1, <3>2 DEF Pending
    <3>4. \A i, j \in Owned(q)' : i = j
      BY <1>i, <2>2 DEF ToldOf
    <3> QED
      BY <2>2, <2>3, <2>4, <3>1, <3>2, <3>3, <3>4 DEF ToldOf
  <2>5. CASE ~(q = r /\ op # "chain")
    <3>1. /\ Telling(q, "success")' <=> Telling(q, "success")
          /\ Telling(q, "failure")' <=> Telling(q, "failure")
      BY <2>2, <2>5
    <3>2. \A i \in Owned(q)' : i \in Owned(q) /\ logs'[i].status = logs[i].status
      BY <2>2, <2>5
    <3> QED
      BY <1>i, <2>2, <2>3, <3>1, <3>2, SameTold
  <2> QED
    BY <2>4, <2>5
<1>13. CASE Restart
  <2>1. /\ \A i \in Window' : logs'[i].owner = None
        /\ DOMAIN chan' = {}
    BY <1>13, Loaded DEF RInv
  <2>2. Owned(q)' = {} /\ ~Has("add", q)'
    BY <1>0, <2>1, NoneAssumption DEF Has
  <2> QED
    BY <2>2, Untold
<1>14. ASSUME NEW r \in Request, Begin(r) PROVE UNCHANGED vars
  BY <1>14 DEF Begin
<1>15. CASE UNCHANGED requestVars
  BY <1>1, <1>15 DEF requestVars
<1> QED
  BY <1>1, <1>3, <1>4, <1>5, <1>7, <1>8, <1>9, <1>10, <1>11, <1>12, <1>13, <1>14, <1>15
     DEF RequestNext, Step, ActorStep, Actor

-----------------------------------------------------------------------------
(* The totals *)

LEMMA AccountsFinite ==
  ASSUME Base
  PROVE  /\ IsFiniteSet(Unlogged) /\ Cardinality(Unlogged) \in Nat
         /\ IsFiniteSet(Failed) /\ Cardinality(Failed) \in Nat
         /\ IsFiniteSet(OldErrors) /\ Cardinality(OldErrors) \in Nat
         /\ last \in Nat
<1>1. Unlogged \in SUBSET begun /\ Failed \in SUBSET begun /\ IsFiniteSet(begun)
  BY DEF Unlogged, Failed, Base, Begun
<1>2. first \in Int /\ last \in Nat
  BY DEF Base, IInv, TypeOK
<1>3. OldErrors \in SUBSET Window /\ IsFiniteSet(Window)
  BY <1>2, FS_Interval DEF OldErrors, Owned, Window
<1> QED
  BY <1>1, <1>2, <1>3, FS_Subset, FS_CardinalityType

\* A request's log changes places, or its failure is counted; nobody's log is
\* lost.
LEMMA AccountMoves ==
  ASSUME Base, Accounts, NEW r, OldErrors' = OldErrors,
         \A q \in begun' : q \in Unlogged' \/ Owned(q)' # {},
         \/ /\ r \notin Unlogged /\ Unlogged' = Unlogged \cup {r} /\ Failed' = Failed
            /\ total' = total + 1 /\ last' = last /\ errors' = errors
         \/ /\ r \in Unlogged /\ Unlogged' = Unlogged \ {r} /\ Failed' = Failed
            /\ total' = total /\ last' = last + 1 /\ errors' = errors
         \/ /\ Unlogged' = Unlogged /\ r \notin Failed /\ Failed' = Failed \cup {r}
            /\ total' = total /\ last' = last /\ errors' = errors + 1
         \/ /\ Unlogged' = Unlogged /\ Failed' = Failed
            /\ total' = total /\ last' = last /\ errors' = errors
  PROVE  Accounts'
<1>1. /\ IsFiniteSet(Unlogged) /\ Cardinality(Unlogged) \in Nat
      /\ IsFiniteSet(Failed) /\ Cardinality(Failed) \in Nat
      /\ Cardinality(OldErrors) \in Nat /\ last \in Nat
  BY AccountsFinite
<1>2. /\ total = last + Cardinality(Unlogged)
      /\ errors = Cardinality(OldErrors) + Cardinality(Failed)
  BY DEF Accounts
<1>3. /\ r \notin Unlogged => Cardinality(Unlogged \cup {r}) = Cardinality(Unlogged) + 1
      /\ r \in Unlogged => Cardinality(Unlogged \ {r}) = Cardinality(Unlogged) - 1
      /\ r \notin Failed => Cardinality(Failed \cup {r}) = Cardinality(Failed) + 1
  BY <1>1, FS_AddElement, FS_RemoveElement
<1>4. /\ total' = last' + Cardinality(Unlogged')
      /\ errors' = Cardinality(OldErrors') + Cardinality(Failed')
  <2>1. CASE /\ r \notin Unlogged /\ Unlogged' = Unlogged \cup {r} /\ Failed' = Failed
             /\ total' = total + 1 /\ last' = last /\ errors' = errors
    BY <1>1, <1>2, <1>3, <2>1
  <2>2. CASE /\ r \in Unlogged /\ Unlogged' = Unlogged \ {r} /\ Failed' = Failed
             /\ total' = total /\ last' = last + 1 /\ errors' = errors
    BY <1>1, <1>2, <1>3, <2>2
  <2>3. CASE /\ Unlogged' = Unlogged /\ r \notin Failed /\ Failed' = Failed \cup {r}
             /\ total' = total /\ last' = last /\ errors' = errors + 1
    BY <1>1, <1>2, <1>3, <2>3
  <2>4. CASE /\ Unlogged' = Unlogged /\ Failed' = Failed
             /\ total' = total /\ last' = last /\ errors' = errors
    BY <1>2, <2>4
  <2> QED
    BY <2>1, <2>2, <2>3, <2>4
<1> QED
  BY <1>4 DEF Accounts

\* A step that leaves the logs alone.
LEMMA QuietAccounts ==
  ASSUME UNCHANGED mgrVars
  PROVE  /\ first' = first /\ last' = last /\ OldErrors' = OldErrors
         /\ \A q : Owned(q)' = Owned(q)
         /\ logs' = logs
BY SameLogs DEF OldErrors, mgrVars

LEMMA CountedStep ==
  ASSUME RInv, [RequestNext]_requestVars
  PROVE  Counted'
<1>i. Base /\ IInv /\ Serial /\ Begun /\ Counted /\ \A q \in Request : ToldOf(q)
  BY DEF RInv, Base, Told
<1>b. begun \subseteq Request
  BY <1>i DEF Begun
<1> SUFFICES ASSUME first' = 1, NobodyDropped' PROVE Accounts'
  BY DEF Counted
<1>d. Failed = {q \in begun : req[q].pc = "done" /\ (Telling(q, "failure") \/ \E i \in Owned(q) : logs[i].status = "failure")}
  BY DEF Failed
<1>p. /\ Failed' = {q \in begun' : req'[q].pc = "done" /\ (Telling(q, "failure")' \/ \E i \in Owned(q)' : logs'[i].status = "failure")}
      /\ Unlogged' = {q \in begun' : req'[q].pc \in {"idle", "asked", "known"} \/ Has("add", q)'}
  BY DEF Failed, Unlogged
\* Nobody had been dropped before.
<1>n. ASSUME first' = first, \A q \in begun : q \in begun' /\ (req[q].pc = "gone" => req'[q].pc = "gone")
      PROVE  Accounts
  BY <1>i, <1>n DEF NobodyDropped, Counted
<1>1. CASE UNCHANGED <<vars, counters, begun>>
  <2>1. UNCHANGED <<mgrVars, req, chan, first, total, errors, begun>>
    BY <1>1 DEF vars, mgrVars, counters
  <2>2. \A q, o : (Has(o, q)' <=> Has(o, q)) /\ (Telling(q, o)' <=> Telling(q, o))
    BY <2>1 DEF Has, Telling
  <2>3. Unlogged' = Unlogged /\ Failed' = Failed
    BY <1>p, <2>1, <2>2, QuietAccounts DEF Unlogged, Failed
  <2>4. Accounts
    BY <1>n, <2>1
  <2> QED
    BY <1>i, <2>1, <2>3, <2>4, QuietAccounts, AccountMoves DEF Accounts
<1>2. ASSUME NEW r \in Request, Begin(r) PROVE Accounts'
  <2>1. /\ UNCHANGED <<mgrVars, req, chan, first, errors>> /\ total' = total + 1
        /\ begun' = begun \cup {r} /\ r \notin begun /\ req[r].pc = "idle"
    BY <1>2 DEF Begin, vars, mgrVars
  <2>2. \A q, o : (Has(o, q)' <=> Has(o, q)) /\ (Telling(q, o)' <=> Telling(q, o))
    BY <2>1 DEF Has, Telling
  <2>3. r \notin Unlogged /\ Unlogged' = Unlogged \cup {r} /\ Failed' = Failed
    BY <1>p, <2>1, <2>2, QuietAccounts DEF Unlogged, Failed
  <2>4. Accounts
    BY <1>n, <2>1
  <2>5. \A q \in begun' : q \in Unlogged' \/ Owned(q)' # {}
    BY <2>1, <2>3, <2>4, QuietAccounts DEF Accounts
  <2> QED
    BY <1>i, <2>1, <2>3, <2>4, <2>5, QuietAccounts, AccountMoves
<1>3. ASSUME NEW r \in Request, Ask(r) \/ WriteLog(r) PROVE Accounts'
  <2>1. /\ UNCHANGED <<mgrVars, begun, total, errors>>
        /\ req[r].pc \in {"idle", "known"} /\ req'[r].pc \in {"asked", "logged"}
        /\ req'[r].pc = "logged" => Has("add", r)'
        /\ \A q \in Request : q # r => req'[q] = req[q] /\ (Has("add", q)' <=> Has("add", q))
        /\ \A q : Telling(q, "failure")' <=> Telling(q, "failure")
    BY <1>i, <1>3, Asks, Writes DEF counters
  <2>2. Unlogged' = Unlogged /\ Failed' = Failed
    BY <1>b, <1>p, <2>1, QuietAccounts DEF Unlogged, Failed
  <2>3. Accounts
    BY <1>b, <1>n, <2>1, QuietAccounts
  <2> QED
    BY <1>i, <2>1, <2>2, <2>3, QuietAccounts, AccountMoves DEF Accounts
<1>4. ASSUME NEW r \in Request, Answers(r) \/ Refused(r) \/ Fails(r) \/ Finishes(r) PROVE Accounts'
  <2>1. PICK op \in Update : SendUpdate(r, op) /\ (op = "failure" <=> Refused(r) \/ Fails(r))
    BY <1>4 DEF Answers, Refused, Fails, Finishes, Update, SendUpdate
  <2>2. /\ begun' = begun /\ total' = total
        /\ errors' = IF op = "failure" THEN errors + 1 ELSE errors
    BY <1>4, <2>1 DEF Answers, Refused, Fails, Finishes, counters
  <2>3. /\ req[r].pc \in {"logged", "served"} /\ req'[r].pc \in {"served", "done"}
        /\ op = "failure" => req'[r].pc = "done"
        /\ op = "chain" => req[r].pc = "served"
        /\ op = "success" => req'[r].pc = "served"
        /\ \A q \in Request : q # r => req'[q] = req[q]
        /\ UNCHANGED mgrVars
        /\ \A q : Has("add", q)' <=> Has("add", q)
        /\ \A q : Telling(q, "failure")' <=> Telling(q, "failure") \/ (q = r /\ op = "failure")
        /\ op \in {"success", "failure", "chain"}
    BY <1>i, <2>1, Tells DEF Update
  <2>4. r \in begun /\ r \notin Failed
    BY <1>i, <2>3 DEF Failed, Begun
  <2>5. Unlogged' = Unlogged
    BY <1>b, <1>p, <2>2, <2>3 DEF Unlogged
  <2>6. Accounts
    BY <1>b, <1>n, <2>2, <2>3, QuietAccounts
  <2>7. CASE op = "failure"
    <3>1. Failed' = Failed \cup {r}
      BY <1>b, <1>p, <2>2, <2>3, <2>4, <2>7, QuietAccounts DEF Failed
    <3> QED
      BY <1>i, <2>2, <2>3, <2>4, <2>5, <2>6, <2>7, <3>1, QuietAccounts, AccountMoves DEF Accounts
  <2>8. CASE op # "failure"
    <3>1. req[r].pc = "served" => ~Telling(r, "failure") /\ \A i \in Owned(r) : logs[i].status # "failure"
      BY <1>i DEF Serial, Fitting, Fits, Telling, ToldOf
    <3>2. Failed' = Failed
      BY <1>b, <1>p, <2>2, <2>3, <2>4, <2>8, <3>1, QuietAccounts DEF Failed
    <3> QED
      BY <1>i, <2>2, <2>3, <2>5, <2>6, <2>8, <3>2, QuietAccounts, AccountMoves DEF Accounts
  <2> QED
    BY <2>7, <2>8
<1>5. ASSUME NEW r \in Request, BreaksOff(r) PROVE Accounts'
  <2>1. /\ req[r].pc = "served" /\ req' = [req EXCEPT ![r].pc = "done"]
        /\ UNCHANGED <<mgrVars, chan, total, errors, begun>>
    BY <1>5 DEF BreaksOff, counters
  <2>2. /\ req'[r].pc = "done" /\ \A q \in Request : q # r => req'[q] = req[q]
        /\ \A q : Has("add", q)' <=> Has("add", q)
        /\ \A q : Telling(q, "failure")' <=> Telling(q, "failure")
    BY <1>i, <2>1, Leaves
  <2>3. ~Telling(r, "failure") /\ \A i \in Owned(r) : logs[i].status # "failure"
    BY <1>i, <2>1 DEF Serial, Fitting, Fits, Telling, ToldOf
  <2>4. Unlogged' = Unlogged /\ Failed' = Failed
    BY <1>b, <1>p, <2>1, <2>2, <2>3, QuietAccounts DEF Unlogged, Failed
  <2>5. Accounts
    BY <1>b, <1>n, <2>1, <2>2, QuietAccounts
  <2> QED
    BY <1>i, <2>1, <2>4, <2>5, QuietAccounts, AccountMoves DEF Accounts
<1>6. ASSUME NEW r \in Request, r \in begun, begun' = begun, req' = [req EXCEPT ![r].pc = "gone"]
      PROVE  FALSE
  <2>1. req \in [Request -> ReqState]
    BY <1>i DEF IInv, TypeOK
  <2>2. req'[r].pc = "gone"
    BY <1>6, <2>1, Moved
  <2> QED
    BY <1>6, <2>2 DEF NobodyDropped
<1>7. ASSUME NEW r \in Request, DroppedAtOnce(r) PROVE Accounts'
  BY <1>6, <1>7 DEF DroppedAtOnce
<1>8. CASE Dropped
  <2>1. /\ UNCHANGED <<mgrVars, chan, counters, begun>>
        /\ req' = req
    BY <1>i, <1>6, <1>8, Drops DEF Begun
  <2>2. \A q, o : (Has(o, q)' <=> Has(o, q)) /\ (Telling(q, o)' <=> Telling(q, o))
    BY <2>1 DEF Has, Telling
  <2>3. Unlogged' = Unlogged /\ Failed' = Failed
    BY <1>p, <2>1, <2>2, QuietAccounts DEF Unlogged, Failed
  <2>4. Accounts
    BY <1>n, <2>1, QuietAccounts
  <2> QED
    BY <1>i, <2>1, <2>3, <2>4, QuietAccounts, AccountMoves DEF Accounts, counters
<1>9. ASSUME NEW d \in Reader, AskToRead(d) PROVE Accounts'
  <2>1. /\ UNCHANGED <<mgrVars, req, total, errors, begun>>
        /\ \A q : Has("add", q)' <=> Has("add", q)
        /\ \A q : Telling(q, "failure")' <=> Telling(q, "failure")
    BY <1>i, <1>9, AsksRead DEF counters
  <2>2. Unlogged' = Unlogged /\ Failed' = Failed
    BY <1>p, <2>1, QuietAccounts DEF Unlogged, Failed
  <2>3. Accounts
    BY <1>n, <2>1, QuietAccounts
  <2> QED
    BY <1>i, <2>1, <2>2, <2>3, QuietAccounts, AccountMoves DEF Accounts
<1>10. ASSUME GetNextLogId \/ Read, UNCHANGED <<counters, begun>> PROVE Accounts'
  <2>1. /\ UNCHANGED <<mgrVars, total, errors, begun>>
        /\ \A q : Has("add", q)' <=> Has("add", q)
        /\ \A q : Telling(q, "failure")' <=> Telling(q, "failure")
        /\ \A q \in Request : req'[q] = req[q] \/ (req[q].pc = "asked" /\ req'[q].pc = "known")
    BY <1>i, <1>10, Replies DEF counters
  <2>2. Unlogged' = Unlogged /\ Failed' = Failed
    BY <1>b, <1>p, <2>1, QuietAccounts DEF Unlogged, Failed
  <2>3. Accounts
    BY <1>b, <1>n, <2>1, QuietAccounts
  <2> QED
    BY <1>i, <2>1, <2>2, <2>3, QuietAccounts, AccountMoves DEF Accounts
<1>11. ASSUME AddLog, UNCHANGED <<counters, begun>> PROVE Accounts'
  <2>1. PICK r : r = Head(chan).from
    OBVIOUS
  <2>2. /\ r \in Request /\ req' = req /\ first = 1 /\ last' = last + 1
        /\ last + 1 \in Window' /\ last + 1 \notin Window
        /\ logs'[last + 1].status = "pending" /\ logs'[last + 1].owner = r
        /\ \A i \in Window' : i # last + 1 => i \in Window /\ logs'[i] = logs[i]
        /\ \A i \in Window : i \in Window'
    BY <1>i, <1>11, <2>1, Added
  <2>3. /\ Has("add", r) /\ \A q : q # r => (Has("add", q)' <=> Has("add", q))
        /\ \A q : Telling(q, "failure")' <=> Telling(q, "failure")
        /\ r \in begun
    BY <1>i, <1>11, <2>1, TakesAdd DEF Begun
  <2>4. ~Has("add", r)' /\ req[r].pc \in {"logged", "served", "done", "gone"}
    <3>1. Receives("add") /\ chan \in Seq(Command)
      BY <1>i, <1>11 DEF AddLog, IInv, TypeOK
    <3>2. 1 \in DOMAIN chan /\ Head(chan) = chan[1] /\ chan[1].cmd = "add"
      BY <3>1, Taken
    <3>3. \A i \in DOMAIN chan' : Apart(chan[1], chan'[i])
      BY <1>i, <3>1, TakenOrderly DEF Serial
    <3> QED
      BY <1>i, <2>1, <3>2, <3>3 DEF Apart, Has, Serial, Fitting, Fits
  <2>5. Unlogged' = Unlogged \ {r} /\ r \in Unlogged
    BY <1>p, <1>11, <2>2, <2>3, <2>4 DEF Unlogged
  <2>6. \A q : Owned(q)' = IF q = r THEN Owned(q) \cup {last + 1} ELSE Owned(q)
    BY <2>2 DEF Owned
  <2>7. \A i \in Window : logs'[i] = logs[i]
    BY <2>2
  <2>8. Failed' = Failed
    BY <1>p, <1>11, <2>2, <2>3, <2>6, <2>7 DEF Failed, Owned
  <2>9. OldErrors' = OldErrors
    <3>1. Owned(None)' = Owned(None)
      BY <2>2, <2>6, NoneAssumption
    <3> QED
      BY <3>1, <2>7 DEF OldErrors, Owned
  <2>10. Accounts
    BY <1>i, <1>11, <2>2 DEF NobodyDropped, Counted
  <2>11. \A q \in begun' : q \in Unlogged' \/ Owned(q)' # {}
    BY <1>11, <2>5, <2>6, <2>10 DEF Accounts
  <2> QED
    BY <1>i, <1>11, <2>2, <2>5, <2>8, <2>9, <2>10, <2>11, AccountMoves DEF counters
<1>12. ASSUME UpdateLog, UNCHANGED <<counters, begun>> PROVE Accounts'
  <2>1. PICK r, op : r = Head(chan).from /\ op = Head(chan).op
    OBVIOUS
  <2>2. /\ r \in Request /\ op \in {"success", "failure", "chain"}
        /\ \E j \in DOMAIN chan : chan[j].cmd = "update" /\ chan[j].from = r
        /\ Telling(r, op)
        /\ req[r].pc \in {"served", "done", "gone"}
        /\ op # "success" => req[r].pc # "served"
        /\ \A q : Has("add", q)' <=> Has("add", q)
        /\ ~Has("add", r)
        /\ \A q, o : q # r \/ o # op => (Telling(q, o)' <=> Telling(q, o))
        /\ \A q : Owned(q)' = Owned(q)
        /\ \A q : \A i \in Owned(q) :
             logs'[i].status = IF q = r /\ op # "chain" THEN op ELSE logs[i].status
    BY <1>i, <1>12, <2>1, TakesUpdate DEF Update
  <2>3. req' = req /\ first' = first /\ last' = last
    BY <1>12 DEF UpdateLog
  <2>4. Accounts
    BY <1>n, <1>12, <2>3
  <2>5. r \in begun /\ req[r].pc # "gone"
    <3>1. r \in begun
      BY <1>i, <2>2 DEF Begun
    <3> QED
      BY <1>12, <2>3, <3>1 DEF NobodyDropped
  <2>6. Unlogged' = Unlogged
    BY <1>p, <1>12, <2>2, <2>3 DEF Unlogged
  <2>7. OldErrors' = OldErrors
    BY <2>2, NoneAssumption DEF OldErrors
  <2>8. Owned(r) # {}
    BY <2>2, <2>4, <2>5 DEF Accounts, Unlogged
  <2>9. r \in Failed' <=> r \in Failed
    <3>1. CASE op = "failure"
      <4>1. req[r].pc = "done"
        BY <2>2, <2>5, <3>1
      <4>2. r \in Failed
        BY <4>1, <2>2, <2>5, <3>1 DEF Failed
      <4>3. \E i \in Owned(r)' : logs'[i].status = "failure"
        BY <2>2, <2>8, <3>1
      <4>4. r \in Failed'
        BY <1>p, <1>12, <2>3, <2>5, <4>1, <4>3
      <4> QED
        BY <4>2, <4>4
    <3>2. CASE op = "success"
      <4>1. \A i \in Owned(r) : logs[i].status = "pending" /\ logs'[i].status = "success"
        BY <1>i, <2>2, <3>2 DEF ToldOf
      <4>2. Telling(r, "failure")' <=> Telling(r, "failure")
        BY <2>2, <3>2
      <4> QED
        BY <1>d, <1>p, <1>12, <2>2, <2>3, <4>1, <4>2
    <3>3. CASE op = "chain"
      BY <1>d, <1>p, <1>12, <2>2, <2>3, <3>3
    <3> QED
      BY <2>2, <3>1, <3>2, <3>3
  <2>10. Failed' = Failed
    <3>1. ASSUME NEW q, q # r PROVE q \in Failed' <=> q \in Failed
      BY <1>d, <1>p, <1>12, <2>2, <2>3, <3>1
    <3> QED
      BY <2>9, <3>1
  <2>11. \A q \in begun' : q \in Unlogged' \/ Owned(q)' # {}
    BY <1>12, <2>2, <2>4, <2>6 DEF Accounts
  <2> QED
    BY <1>i, <1>12, <2>3, <2>4, <2>6, <2>7, <2>10, <2>11, AccountMoves DEF counters
<1>13. CASE Restart
  <2>1. /\ Window' = disk.first..disk.last /\ first' = disk.first /\ last' = disk.last
        /\ \A i \in Window' : logs'[i].status = disk.logs[i].status /\ logs'[i].owner = None
    BY <1>13, Loaded DEF RInv
  <2>2. begun' = {} /\ total' = TotalCount(disk) /\ errors' = ErrorCount(disk)
    BY <1>13 DEF Restart, ErrorsAtStart
  <2>3. Unlogged' = {} /\ Failed' = {}
    BY <1>p, <2>2
  <2>4. OldErrors' = {i \in disk.first..disk.last : disk.logs[i].status # "success"}
    BY <2>1 DEF OldErrors, Owned
  <2>5. Cardinality({}) = 0
    BY FS_EmptySet
  <2>6. total' = last' + Cardinality(Unlogged')
    BY <2>1, <2>2, <2>3, <2>5 DEF TotalCount, RInv, Base, Loadable
  <2>7. errors' = Cardinality(OldErrors') + Cardinality(Failed')
    <3>0. disk.first \in Int /\ disk.last \in Int
      BY DEF RInv, Base, Loadable
    <3>1. IsFiniteSet(disk.first..disk.last)
      BY <3>0, FS_Interval
    <3>2. {i \in disk.first..disk.last : disk.logs[i].status # "success"} \in SUBSET (disk.first..disk.last)
      OBVIOUS
    <3>3. Cardinality({i \in disk.first..disk.last : disk.logs[i].status # "success"}) \in Nat
      BY <3>1, <3>2, FS_Subset, FS_CardinalityType
    <3> QED
      BY <2>2, <2>3, <2>4, <2>5, <3>3 DEF ErrorCount
  <2> QED
    BY <2>2, <2>6, <2>7 DEF Accounts
<1>14. CASE ActorStep
  BY <1>10, <1>11, <1>12, <1>14 DEF ActorStep, Actor
<1>15. CASE UNCHANGED requestVars
  BY <1>1, <1>15 DEF requestVars
<1> QED
  BY <1>2, <1>3, <1>4, <1>5, <1>7, <1>8, <1>9, <1>13, <1>14, <1>15 DEF RequestNext, Step

-----------------------------------------------------------------------------
LEMMA InitRInv == RequestInit => RInv
<1> SUFFICES ASSUME RequestInit PROVE RInv
  OBVIOUS
<1>1. /\ Init /\ disk = Snapshot /\ total = TotalCount(disk) /\ active = 0 /\ errors = ErrorCount(disk)
      /\ begun = {}
  BY DEF RequestInit, ErrorsAtStart
<1>2. IInv /\ Serial
  BY <1>1, InitIInv, InitSerial
<1>3. Loadable(disk)
  BY <1>1, <1>2, SnapshotLoadable DEF Serial
<1>4. /\ DOMAIN chan = {} /\ alive = TRUE /\ first = 1
      /\ \A r \in Request : req[r].pc = "idle"
      /\ \A i \in Window : logs[i].owner = None
  BY <1>1 DEF Init, Window
<1>5. Begun
  BY <1>1, <1>4, FS_EmptySet DEF Begun
<1>6. \A r \in Request : Owned(r) = {}
  BY <1>4, NoneAssumption DEF Owned
<1>7. Told
  BY <1>4, <1>6 DEF Told, ToldOf, Pending, Has, Telling
<1>8. Cardinality({}) = 0
  BY FS_EmptySet
<1>9. Unlogged = {} /\ Failed = {} /\ InFlight = {}
  BY <1>1 DEF Unlogged, Failed, InFlight
<1>10. Base
  BY <1>2, <1>3, <1>5 DEF Base
<1>11. disk.first = first /\ disk.last = last /\ disk.logs = logs
  BY <1>1 DEF Snapshot
<1>12. OldErrors = {i \in disk.first..disk.last : disk.logs[i].status # "success"}
  BY <1>4, <1>11 DEF OldErrors, Owned, Window
<1>13. errors = Cardinality(OldErrors) /\ errors \in Nat
  BY <1>1, <1>10, <1>12, AccountsFinite DEF ErrorCount
<1>14. last \in Nat /\ total = last
  BY <1>1, <1>4, <1>10, <1>11, AccountsFinite DEF TotalCount
<1>15. Numbers
  BY <1>1, <1>13, <1>14 DEF Numbers
<1>16. Counted
  BY <1>1, <1>8, <1>9, <1>13, <1>14 DEF Counted, Accounts
<1>17. ActiveCovers
  BY <1>1, <1>8, <1>9 DEF ActiveCovers
<1>18. AliveUnlessDropped
  BY <1>4 DEF AliveUnlessDropped
<1> QED
  BY <1>7, <1>10, <1>15, <1>16, <1>17, <1>18 DEF RInv

LEMMA NextRInv == RInv /\ [RequestNext /\ OneAtATime']_requestVars => RInv'
<1> SUFFICES ASSUME RInv, [RequestNext /\ OneAtATime']_requestVars PROVE RInv'
  OBVIOUS
<1>1. [RequestNext]_requestVars /\ Base
  BY DEF RInv
<1>2. IInv' /\ Serial' /\ Loadable(disk')
  BY <1>1, LogsStep
<1>3. Begun'
  BY <1>1, BegunStep
<1>4. Base'
  BY <1>2, <1>3 DEF Base, Loadable
<1>5. Numbers' /\ ActiveCovers' /\ AliveUnlessDropped' /\ Told' /\ Counted'
  BY <1>1, ActiveStep, AliveStep, ToldStep, CountedStep
<1> QED
  BY <1>4, <1>5 DEF RInv

\* When everybody is done, the logs that are no success are the old ones and
\* one for each request that failed.
LEMMA RestCounters == RInv => CountersAgree
<1> SUFFICES ASSUME RInv, AtRest, first = 1
             PROVE  total = TotalCount(Snapshot) /\ errors = ErrorCount(Snapshot)
  BY DEF CountersAgree
<1>i. Base /\ Begun /\ \A q \in Request : ToldOf(q)
  BY DEF RInv, Base, Told
<1>1. /\ DOMAIN chan = {}
      /\ \A r \in begun : req[r].pc = "done"
  BY DEF AtRest
<1>2. Accounts
  BY <1>1 DEF RInv, Counted, NobodyDropped
<1>3. Unlogged = {}
  BY <1>1 DEF Unlogged, Has
<1>4. /\ last \in Nat /\ Cardinality({}) = 0
      /\ IsFiniteSet(Failed) /\ Cardinality(Failed) \in Nat
      /\ IsFiniteSet(OldErrors) /\ Cardinality(OldErrors) \in Nat
  BY <1>i, AccountsFinite, FS_EmptySet
<1>5. total = TotalCount(Snapshot)
  BY <1>2, <1>3, <1>4 DEF Accounts, TotalCount, Snapshot
<1> DEFINE bad == {i \in first..last : logs[i].status # "success"}
           new == bad \ OldErrors
<1>6. errors = Cardinality(OldErrors) + Cardinality(Failed)
  BY <1>2 DEF Accounts
<1>7. \A i \in Window : logs[i].status \in {"pending", "success", "failure"} /\ logs[i].owner \in Request \cup {None}
  BY <1>i DEF Base, IInv, TypeOK, Log, Status
<1>8. \A i \in new : logs[i].owner \in Failed
  <2> SUFFICES ASSUME NEW i \in new PROVE logs[i].owner \in Failed
    OBVIOUS
  <2>1. i \in Window /\ logs[i].status # "success" /\ logs[i].owner # None
    BY DEF Window, OldErrors, Owned
  <2>2. PICK r \in begun : r = logs[i].owner
    BY <1>i, <2>1 DEF Begun
  <2>3. i \in Owned(r) /\ r \in Request
    BY <1>i, <2>1, <2>2 DEF Owned, Begun
  <2>4. ~Telling(r, "success") /\ ~Telling(r, "failure")
    BY <1>1 DEF Telling
  <2>5. logs[i].status # "pending"
    BY <1>i, <1>1, <2>2, <2>3, <2>4 DEF ToldOf, Pending
  <2>6. logs[i].status = "failure"
    BY <1>7, <2>1, <2>5
  <2> QED
    BY <1>1, <2>2, <2>3, <2>6 DEF Failed
<1>9. \A r \in Failed : \E i \in new : logs[i].owner = r
  <2> SUFFICES ASSUME NEW r \in Failed PROVE \E i \in new : logs[i].owner = r
    OBVIOUS
  <2>1. PICK i \in Owned(r) : logs[i].status = "failure"
    BY <1>1 DEF Failed, Telling
  <2>2. r # None
    BY <1>i, NoneAssumption DEF Failed, Begun
  <2>3. i \in new
    BY <2>1, <2>2 DEF Owned, OldErrors, Window
  <2> QED
    BY <2>1, <2>3 DEF Owned
<1>10. \A i, j \in new : logs[i].owner = logs[j].owner => i = j
  <2> SUFFICES ASSUME NEW i \in new, NEW j \in new, logs[i].owner = logs[j].owner PROVE i = j
    OBVIOUS
  <2>1. PICK r \in Request : r = logs[i].owner
    BY <1>i, <1>8 DEF Failed, Begun
  <2>2. i \in Owned(r) /\ j \in Owned(r)
    BY <2>1 DEF Owned, Window
  <2> QED
    BY <1>i, <2>2 DEF ToldOf
<1>11. IsFiniteSet(bad) /\ IsFiniteSet(new) /\ OldErrors \in SUBSET bad
  <2>1. IsFiniteSet(first..last)
    BY <1>4, FS_Interval
  <2>2. bad \in SUBSET (first..last) /\ new \in SUBSET bad
    OBVIOUS
  <2>3. OldErrors \in SUBSET bad
    BY DEF OldErrors, Owned, Window
  <2> QED
    BY <2>1, <2>2, <2>3, FS_Subset
<1>12. Cardinality(new) = Cardinality(Failed)
  <2> DEFINE f == [i \in new |-> logs[i].owner]
  <2> HIDE DEF new
  <2>1. f \in [new -> Failed]
    BY <1>8
  <2>2. f \in Surjection(new, Failed)
    BY <1>9, <2>1 DEF Surjection
  <2>3. f \in Injection(new, Failed)
    BY <1>10, <2>1 DEF Injection, IsInjective
  <2>4. ExistsBijection(new, Failed)
    BY <2>2, <2>3 DEF ExistsBijection, Bijection
  <2> QED
    BY <2>4, <1>11, FS_Bijection
<1>13. Cardinality(bad) = Cardinality(OldErrors) + Cardinality(new)
  <2>1. OldErrors \cap new = {} /\ OldErrors \cup new = bad
    BY <1>11
  <2> HIDE DEF new, bad
  <2>2. Cardinality(OldErrors \cup new) =
          Cardinality(OldErrors) + Cardinality(new) - Cardinality(OldErrors \cap new)
    BY <1>4, <1>11, FS_Union
  <2>3. Cardinality(new) \in Nat
    BY <1>11, FS_CardinalityType
  <2>4. Cardinality(OldErrors \cap new) = 0 /\ Cardinality(OldErrors \cup new) = Cardinality(bad)
    BY <2>1, <1>4
  <2>5. PICK a, b : a = Cardinality(OldErrors) /\ b = Cardinality(new) /\ a \in Nat /\ b \in Nat
    BY <2>3, <1>4
  <2> QED
    BY <2>2, <2>4, <2>5
<1>14. ErrorCount(Snapshot) = Cardinality(bad)
  BY DEF ErrorCount, Snapshot
<1> QED
  BY <1>5, <1>6, <1>12, <1>13, <1>14

-----------------------------------------------------------------------------
(* Theorems *)

\* Types, with the requests' steps and restarts.
THEOREM RequestTypes == RequestSpec => []TypeOK
<1>1. RInv => TypeOK
  BY DEF RInv, Base, IInv
<1> QED
  BY <1>1, InitRInv, NextRInv, PTL DEF RequestSpec

\* The counts of the log actor stay exact over crashes and restarts, too.
THEOREM CountsSurvive == RequestSpec => []RefsExact
<1>1. RInv => RefsExact
  BY DEF RInv, Base, IInv
<1> QED
  BY <1>1, InitRInv, NextRInv, PTL DEF RequestSpec

\* get_next_log_id gives every log its own id, past evictions and restarts, if
\* no two requests are between their id and their log.
THEOREM IdsUnique == RequestSpec => []IdsIncrease
<1>1. RInv => IdsIncrease
  BY DEF RInv, Base, Serial
<1> QED
  BY <1>1, InitRInv, NextRInv, PTL DEF RequestSpec

\* update_log finds the log of the request that sends it: the log is added
\* before its updates are received, and no other has its id.
THEOREM UpdatesOwn == RequestSpec => UpdateReachesOwnLog
<1> DEFINE Own == Receives("update") =>
               UpdateTarget(Head(chan).id) = {i \in Window : logs[i].owner = Head(chan).from}
<1>1. RInv => Own
  BY OwnTarget DEF RInv, Base, Owned
<1>2. RInv /\ [RequestNext /\ OneAtATime']_requestVars => [Own]_vars
  BY <1>1
<1> QED
  BY <1>2, InitRInv, NextRInv, PTL DEF RequestSpec, UpdateReachesOwnLog

\* No request is taken off active_requests twice, whichever way it ends, over
\* drops and restarts: the counter never falls below the number of requests
\* that wait for the upstream server, so its u64 does not wrap.
THEOREM ActiveCount == RequestSpec => []ActiveCovers
<1>1. RInv => ActiveCovers
  BY DEF RInv
<1> QED
  BY <1>1, InitRInv, NextRInv, PTL DEF RequestSpec

\* total_requests and error_requests are those that a restart computes.
THEOREM CountersFollowLogs == RequestSpec => []CountersAgree
BY RestCounters, InitRInv, NextRInv, PTL DEF RequestSpec

\* The actor's unwraps and its lookup of tokens do not end it as long as no
\* client is dropped.
THEOREM ActorLives == RequestSpec => []AliveUnlessDropped
<1>1. RInv => AliveUnlessDropped
  BY DEF RInv
<1> QED
  BY <1>1, InitRInv, NextRInv, PTL DEF RequestSpec
=============================================================================
