---------------------------- MODULE TokenManager ----------------------------
(***************************************************************************)
(* The token store of src/src/app/model/state/token.rs and its round-robin *)
(* queue (token/queue.rs), as built with the default feature "horizon".    *)
(*                                                                         *)
(* The store keeps one vector of slots and three indexes over it, plus a   *)
(* FIFO of free slots and the queue, which has a vector and an index of    *)
(* its own.  Much of the code that reads them is unchecked                 *)
(* (get_unchecked, unwrap_unchecked, assert_unchecked): it relies on the   *)
(* indexes agreeing.  The variable fault records that an unchecked access  *)
(* was made on a state that does not satisfy its precondition; what the    *)
(* program does from there on is undefined and not modelled.               *)
(*                                                                         *)
(* Every mutation runs under the write half of the RwLock of AppState and  *)
(* is one action here.  A select runs under the read half: any number of   *)
(* selects interleave with each other, and never with a mutation.          *)
(***************************************************************************)
EXTENDS Integers, Sequences

CONSTANTS
  Key,        \* TokenKey values: user id and randomness of a token
  Name,       \* aliases that do not start with "unnamed"
  UNNAMED,    \* the requested alias "unnamed", or one starting "unnamed-"
  None,       \* Option::None
  QueueType,  \* the queues with a head pointer each (four in the code)
  Selector,   \* requests that may be inside select at the same time
  MaxSlots    \* bound on tokens.len()

Status == {"enabled", "disabled", "backoff"}

\* An alias is a user's name or "unnamed-<id>"; the number is what tells
\* two of the latter apart (generate_unnamed_alias).
AutoAlias == {UNNAMED} \X Nat
Alias == Name \cup AutoAlias

TokenInfo == [key : Key, status : Status]

ASSUME ConstantsDiffer ==
  /\ None \notin Key
  /\ None \notin Alias
  /\ None \notin TokenInfo
  /\ None \notin [queue : QueueType, start : Nat]
  /\ UNNAMED \notin Name
  /\ \A n \in Name : n \notin AutoAlias

ASSUME MaxSlotsAssumption == MaxSlots \in Nat

VARIABLES
  tokens,       \* Vec<Option<TokenInfo>>, indexed from 0
  slots,        \* tokens.len() = id_to_alias.len()
  id_map,       \* TokenKey -> id
  alias_map,    \* Alias -> id
  id_to_alias,  \* Vec<Option<Alias>>
  free_ids,     \* VecDeque<id>
  vec,          \* TokenQueue.vec: queue position -> id
  qlen,         \* vec.len()
  map,          \* TokenQueue.map: TokenKey -> queue position
  heads,        \* the static QUEUE_HEADS
  sel,          \* what a select in progress has read
  picked,       \* the key of the token a request got from its last select
  fault         \* an unchecked access met a state it does not allow for

storeVars == <<tokens, slots, id_map, alias_map, id_to_alias, free_ids>>
queueVars == <<vec, qlen, map>>
selVars   == <<sel, picked>>
vars == <<storeVars, queueVars, heads, selVars, fault>>

-----------------------------------------------------------------------------
(* Maps *)

Put(f, k, v) == [x \in DOMAIN f \cup {k} |-> IF x = k THEN v ELSE f[x]]
Drop(f, k)   == [x \in DOMAIN f \ {k} |-> f[x]]
Empty        == [x \in {} |-> None]

Live(id) == id \in 0..slots-1 /\ tokens[id] # None

KeyOf(toks, id) == IF toks[id] = None THEN None ELSE toks[id].key

\* No select holds the read lock, and nothing undefined has happened.
Exclusive == ~fault /\ \A s \in Selector : sel[s] = None

-----------------------------------------------------------------------------
(* TokenManager::add *)

NextIdNewest == IF free_ids = <<>> THEN slots ELSE free_ids[Len(free_ids)]

\* The slot the next token goes to: the one released first, or a new one.
NextId == IF free_ids = <<>> THEN slots ELSE Head(free_ids)

GenAliasByCount(a, id) == IF a = UNNAMED THEN <<UNNAMED, qlen>> ELSE a

GenAlias(a, id) == IF a = UNNAMED THEN <<UNNAMED, id>> ELSE a

AddOk(a) == GenAlias(a, NextId) \notin DOMAIN alias_map

QueuePush(k, id) ==
  /\ vec' = [x \in 0..qlen |-> IF x = qlen THEN id ELSE vec[x]]
  /\ qlen' = qlen + 1
  /\ map' = Put(map, k, qlen)

\* The key is not looked up first: a key that is already stored gets a second
\* slot and a second queue position, and the indexes forget the first.
Add(k, st, a) ==
  LET id == NextId
      al == GenAlias(a, id)
  IN  /\ Exclusive
      /\ free_ids # <<>> \/ slots < MaxSlots
      /\ AddOk(a)
      /\ free_ids' = IF free_ids = <<>> THEN <<>> ELSE Tail(free_ids)
      /\ slots' = IF free_ids = <<>> THEN slots + 1 ELSE slots
      /\ id_map' = Put(id_map, k, id)
      /\ QueuePush(k, id)
      /\ tokens' = Put(tokens, id, [key |-> k, status |-> st])
      /\ alias_map' = Put(alias_map, al, id)
      /\ id_to_alias' = Put(id_to_alias, id, al)
      /\ UNCHANGED <<heads, selVars, fault>>

-----------------------------------------------------------------------------
(* TokenManager::remove *)

AdjustHeadsFromPosition(v) ==
  [q \in QueueType |-> IF heads[q] >= v THEN heads[q] - 1 ELSE heads[q]]

\* A head beyond the removed position moves back by one.
AdjustHeads(v) ==
  [q \in QueueType |-> IF heads[q] > v THEN heads[q] - 1 ELSE heads[q]]

VecRemove(v) == [x \in 0..qlen-2 |-> IF x < v THEN vec[x] ELSE vec[x + 1]]

ReindexForgotten(m, v, vc, toks) == m

\* The positions from v on get their new place in the map, in order, through
\* the key of the token they stand for; a later position overwrites.
Reindex(m, v, vc, toks) ==
  [k \in DOMAIN m |->
     LET hits == {x \in v..qlen-2 : KeyOf(toks, vc[x]) = k}
     IN  IF hits = {} THEN m[k]
         ELSE CHOOSE x \in hits : \A y \in hits : y <= x]

QueueRemoveForgotten(k, toks) == UNCHANGED <<queueVars, heads>>

QueueRemove(k, toks) ==
  IF k \notin DOMAIN map
  THEN UNCHANGED <<queueVars, heads>>
  ELSE LET v == map[k] IN
       /\ heads' = AdjustHeads(v)
       /\ vec' = VecRemove(v)
       /\ qlen' = qlen - 1
       /\ map' = Reindex(Drop(map, k), v, VecRemove(v), toks)

\* Vec::remove is called past the end, or a shifted position stands for an
\* empty slot or for a key that the map does not have.
QueueRemoveFaults(k, toks) ==
  /\ k \in DOMAIN map
  /\ \/ map[k] >= qlen
     \/ \E x \in map[k]+1..qlen-1 :
          KeyOf(toks, vec[x]) \notin DOMAIN map \ {k}

Remove(id) ==
  LET key  == tokens[id].key
      toks == [tokens EXCEPT ![id] = None]
  IN  /\ Exclusive
      /\ Live(id)
      /\ tokens' = toks
      /\ id_map' = Drop(id_map, key)
      /\ QueueRemove(key, toks)
      /\ alias_map' = Drop(alias_map, id_to_alias[id])
      /\ id_to_alias' = [id_to_alias EXCEPT ![id] = None]
      /\ free_ids' = Append(free_ids, id)
      /\ fault' = (QueueRemoveFaults(key, toks) \/ id_to_alias[id] = None)
      /\ UNCHANGED <<slots, selVars>>

-----------------------------------------------------------------------------
(* TokenManager::set_alias *)

SetAliasOkIfLive(id, a) == Live(id)

SetAliasOk(id, a) == Live(id) /\ GenAlias(a, id) \notin DOMAIN alias_map

SetAliasKeepsOld(id, a) ==
  /\ Exclusive
  /\ SetAliasOk(id, a)
  /\ alias_map' = Put(alias_map, GenAlias(a, id), id)
  /\ id_to_alias' = [id_to_alias EXCEPT ![id] = GenAlias(a, id)]
  /\ UNCHANGED <<tokens, slots, id_map, free_ids, queueVars, heads, selVars, fault>>

SetAlias(id, a) ==
  /\ Exclusive
  /\ SetAliasOk(id, a)
  /\ alias_map' = Put(Drop(alias_map, id_to_alias[id]), GenAlias(a, id), id)
  /\ id_to_alias' = [id_to_alias EXCEPT ![id] = GenAlias(a, id)]
  /\ fault' = (id_to_alias[id] = None)
  /\ UNCHANGED <<tokens, slots, id_map, free_ids, queueVars, heads, selVars>>

-----------------------------------------------------------------------------
(* A TokenWriter on slot id replaces the primary token; its Drop moves the  *)
(* indexes to the new key (handle_merge_tokens, handle_refresh_tokens).     *)

RekeyKeepsOld(m, old, new) ==
  IF old \notin DOMAIN m THEN m ELSE Put(m, new, m[old])

\* The entry of old becomes the entry of new, in id_map and in the queue's map.
Rekey(m, old, new) ==
  IF old \notin DOMAIN m THEN m ELSE Put(Drop(m, old), new, m[old])

WriterFaults(old, new) ==
  \/ old \notin DOMAIN id_map
  \/ old \notin DOMAIN map
  \/ new \in DOMAIN map

WriteKey(id, new) ==
  LET old == tokens[id].key
  IN  /\ Exclusive
      /\ Live(id)
      /\ tokens' = [tokens EXCEPT ![id].key = new]
      /\ IF new = old
         THEN UNCHANGED <<id_map, map, fault>>
         ELSE /\ id_map' = Rekey(id_map, old, new)
              /\ map' = Rekey(map, old, new)
              /\ fault' = WriterFaults(old, new)
      /\ UNCHANGED <<slots, alias_map, id_to_alias, free_ids, vec, qlen, heads,
                     selVars>>

-----------------------------------------------------------------------------
(* The rest of the mutations *)

\* handle_set_tokens installs a new, empty manager.  The heads are static and
\* stay as they are.
Reset ==
  /\ Exclusive
  /\ tokens' = Empty /\ slots' = 0
  /\ id_map' = Empty /\ alias_map' = Empty /\ id_to_alias' = Empty
  /\ free_ids' = <<>>
  /\ vec' = Empty /\ qlen' = 0 /\ map' = Empty
  /\ UNCHANGED <<heads, selVars, fault>>

\* handle_set_tokens_status: enabled flag and health come from the request.
SetStatus(id, st) ==
  /\ Exclusive
  /\ Live(id)
  /\ tokens' = [tokens EXCEPT ![id].status = st]
  /\ UNCHANGED <<slots, id_map, alias_map, id_to_alias, free_ids, queueVars,
                 heads, selVars, fault>>

\* The clock passes backoff_until.
BackoffEnds(id) ==
  /\ Exclusive
  /\ Live(id)
  /\ tokens[id].status = "backoff"
  /\ tokens' = [tokens EXCEPT ![id].status = "enabled"]
  /\ UNCHANGED <<slots, id_map, alias_map, id_to_alias, free_ids, queueVars,
                 heads, selVars, fault>>

-----------------------------------------------------------------------------
(* TokenQueue::select: the head is loaded, the queue scanned, the head      *)
(* stored; another select may come between.                                 *)

SelectLoad(s, q) ==
  /\ ~fault
  /\ sel[s] = None
  /\ qlen > 0
  /\ sel' = [sel EXCEPT ![s] = [queue |-> q, start |-> heads[q]]]
  /\ UNCHANGED <<storeVars, queueVars, heads, picked, fault>>

Position(start, i) == (start + i) % qlen

Usable(id) == tokens[id] # None /\ tokens[id].status = "enabled"

\* How far from start the scan goes: to the first usable token, or all round.
Scanned(start) ==
  {i \in 0..qlen-1 : \A j \in 0..i-1 : ~Usable(vec[Position(start, j)])}

Hits(start) == {i \in Scanned(start) : Usable(vec[Position(start, i)])}

HeadStays(q, p) == heads[q]

\* The head after a select that took position p of queue q.
NextHead(q, p) == (p + 1) % qlen

SelectStore(s) ==
  LET start == sel[s].start
      hits  == Hits(start)
  IN  /\ ~fault
      /\ sel[s] # None
      /\ sel' = [sel EXCEPT ![s] = None]
      /\ fault' = (\E i \in Scanned(start) :
                     tokens[vec[Position(start, i)]] = None)
      /\ heads' = [heads EXCEPT ![sel[s].queue] =
                     IF hits = {} THEN @
                     ELSE NextHead(sel[s].queue, Position(start, CHOOSE i \in hits : TRUE))]
      /\ picked' = [picked EXCEPT ![s] =
                      IF hits = {} THEN None
                      ELSE tokens[vec[Position(start, CHOOSE i \in hits : TRUE)]].key]
      /\ UNCHANGED <<storeVars, queueVars>>

-----------------------------------------------------------------------------
Init ==
  /\ tokens = Empty /\ slots = 0
  /\ id_map = Empty /\ alias_map = Empty /\ id_to_alias = Empty
  /\ free_ids = <<>>
  /\ vec = Empty /\ qlen = 0 /\ map = Empty
  /\ heads = [q \in QueueType |-> 0]
  /\ sel = [s \in Selector |-> None]
  /\ picked = [s \in Selector |-> None]
  /\ fault = FALSE

Next ==
  \/ \E k \in Key, st \in Status, a \in Name \cup {UNNAMED} : Add(k, st, a)
  \/ \E id \in 0..slots-1 : Remove(id)
  \/ \E id \in 0..slots-1, a \in Name \cup {UNNAMED} : SetAlias(id, a)
  \/ \E id \in 0..slots-1, k \in Key : WriteKey(id, k)
  \/ Reset
  \/ \E id \in 0..slots-1, st \in Status : SetStatus(id, st)
  \/ \E id \in 0..slots-1 : BackoffEnds(id)
  \/ \E s \in Selector, q \in QueueType : SelectLoad(s, q)
  \/ \E s \in Selector : SelectStore(s)

\* Any call of the interface, in any order, with any arguments.
Spec == Init /\ [][Next]_vars

\* No two live tokens have the same key.
KeysDistinct ==
  \A i, j \in 0..slots-1 :
    tokens[i] # None /\ tokens[j] # None /\ tokens[i].key = tokens[j].key => i = j

\* The same, for callers that never store a key a second time.
DistinctSpec == Init /\ [][Next /\ KeysDistinct']_vars

\* Requests keep coming to every queue, and a select that has loaded its head
\* runs to its end (it does not wait for anything).
FairSpec ==
  /\ DistinctSpec
  /\ \A q \in QueueType : WF_vars(\E s \in Selector : SelectLoad(s, q))
  /\ \A s \in Selector : WF_vars(SelectStore(s))

-----------------------------------------------------------------------------
(* Properties *)

\* Every variable has the type its Rust declaration gives it, and the two
\* vectors of the store have the same length (token.rs, line 46).
TypeOK ==
  /\ slots \in Nat
  /\ tokens \in [0..slots-1 -> TokenInfo \cup {None}]
  /\ id_to_alias \in [0..slots-1 -> Alias \cup {None}]
  /\ DOMAIN id_map \subseteq Key
  /\ \A k \in DOMAIN id_map : id_map[k] \in Nat
  /\ DOMAIN alias_map \subseteq Alias
  /\ \A a \in DOMAIN alias_map : alias_map[a] \in Nat
  /\ free_ids \in Seq(Nat)
  /\ qlen \in Nat
  /\ vec \in [0..qlen-1 -> Nat]
  /\ DOMAIN map \subseteq Key
  /\ \A k \in DOMAIN map : map[k] \in Nat
  /\ heads \in [QueueType -> Nat]
  /\ sel \in [Selector -> [queue : QueueType, start : Nat] \cup {None}]
  /\ picked \in [Selector -> Key \cup {None}]
  /\ fault \in BOOLEAN

\* The data-structure invariants written above struct TokenManager
\* (token.rs, lines 47 to 49): the ids in both maps are those of live slots,
\* the free ids those of empty ones.
Documented ==
  /\ \A k \in DOMAIN id_map : Live(id_map[k])
  /\ \A a \in DOMAIN alias_map : Live(alias_map[a])
  /\ \A p \in DOMAIN free_ids : free_ids[p] \in 0..slots-1 /\ ~Live(free_ids[p])

\* id_map is the inverse of "the key of slot id": a token is found under its
\* own key and under no other, after any series of adds, removals, merges.
IdMapExact ==
  /\ \A k \in DOMAIN id_map : Live(id_map[k]) /\ tokens[id_map[k]].key = k
  /\ \A id \in 0..slots-1 :
       Live(id) => tokens[id].key \in DOMAIN id_map /\ id_map[tokens[id].key] = id

\* alias_map and id_to_alias are inverses of each other and cover exactly the
\* live slots; get_by_alias, list and save read them unchecked.
AliasesExact ==
  /\ \A a \in DOMAIN alias_map :
       Live(alias_map[a]) /\ id_to_alias[alias_map[a]] = a
  /\ \A id \in 0..slots-1 :
       IF Live(id) THEN /\ id_to_alias[id] \in DOMAIN alias_map
                        /\ alias_map[id_to_alias[id]] = id
       ELSE id_to_alias[id] = None

\* The queue holds every live slot at exactly one position, and its map finds
\* that position by the token's key.
QueueExact ==
  /\ \A x \in 0..qlen-1 :
       /\ Live(vec[x])
       /\ tokens[vec[x]].key \in DOMAIN map
       /\ map[tokens[vec[x]].key] = x
  /\ \A k \in DOMAIN map :
       map[k] \in 0..qlen-1 /\ tokens[vec[map[k]]].key = k
  /\ \A id \in 0..slots-1 :
       Live(id) => tokens[id].key \in DOMAIN map /\ vec[map[tokens[id].key]] = id

\* free_ids lists every empty slot once: no slot is handed out twice, and none
\* is lost ("slots are reused, the Vec does not grow without bound").
FreeIdsExact ==
  /\ \A p \in DOMAIN free_ids : free_ids[p] \in 0..slots-1 /\ ~Live(free_ids[p])
  /\ \A p, r \in DOMAIN free_ids : free_ids[p] = free_ids[r] => p = r
  /\ \A id \in 0..slots-1 : ~Live(id) => \E p \in DOMAIN free_ids : free_ids[p] = id

\* A generated alias always carries the id of its own slot ...
AutoAliasOwn ==
  \A a \in DOMAIN alias_map : a \in AutoAlias => a[2] = alias_map[a]

\* ... so a token added without a name never fails with AliasExists, however
\* ids have been released and reused before.
UnnamedAddSucceeds == AddOk(UNNAMED)

\* No unchecked access is ever made on a state that does not allow it.
NoFault == ~fault

\* What a caller finds: a token by its key, through id_map.
Found ==
  [k \in DOMAIN id_map |-> [status |-> tokens[id_map[k]].status,
                            alias  |-> id_to_alias[id_map[k]]]]

Abstract == INSTANCE TokenStore WITH
  store   <- Found,
  handed  <- picked,
  Request <- Selector,
  Alias   <- Name \cup ({UNNAMED} \X (0..MaxSlots-1))

\* Seen through its key index, the store is a table in which no two tokens
\* share an alias, each call changes one token only, and select answers None
\* only when no token can be used: slots, free list, indexes and the queue of
\* racing selects implement TokenStore.
ImplementsStore == Abstract!Spec

\* The inductive invariant: the indexes agree, the environment's promise that
\* keys are distinct, and a select in progress has a queue to scan.
IInv ==
  /\ TypeOK /\ IdMapExact /\ AliasesExact /\ QueueExact /\ FreeIdsExact
  /\ AutoAliasOwn /\ KeysDistinct /\ NoFault
  /\ \A s \in Selector : sel[s] # None => qlen > 0

\* The token that select would look at first.
NextUp(q) == vec[heads[q] % qlen]

\* Removing a token leaves a queue's round-robin position where it was: the
\* next token stays next, or gives way to its successor if it is the one
\* removed.  (The head may be equal to the length, which stands for 0.)
PlaceKept(q) ==
  LET gone == CHOOSE x \in 0..qlen-1 : tokens'[vec[x]] = None
      next == heads[q] % qlen
  IN  NextUp(q)' = IF next = gone THEN vec[(next + 1) % qlen] ELSE vec[next]

Removal == qlen' = qlen - 1 /\ qlen' > 0 /\ slots' = slots

\* The comment in TokenQueue::remove: "after the removal the pointer still
\* points to the right relative position".  It is about heads within the
\* vector: one that is stale since handle_set_tokens stands for its value
\* modulo the length, and that is not kept.
RemoveKeepsPlace ==
  [][Removal => \A q \in QueueType : heads[q] <= qlen => PlaceKept(q)]_vars

\* Round robin starves nobody: once the administrator leaves the store alone
\* and as long as requests keep selecting from the queue, every token that is
\* usable is handed out again and again, although racing selects overwrite
\* each other's head and the heads may be stale to begin with.
EveryUsableServed ==
  <>[][UNCHANGED storeVars]_vars =>
    \A k \in Key :
      <>[](\E id \in 0..slots-1 : Usable(id) /\ tokens[id].key = k)
        => []<>(\E s \in Selector : picked[s] = k)
=============================================================================
