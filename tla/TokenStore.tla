----------------------------- MODULE TokenStore -----------------------------
(***************************************************************************)
(* What the token store promises its callers, without slots, indexes or a  *)
(* queue: a table of tokens by key, in which no two have the same alias,   *)
(* every call changes the one token it names, and a request is given a     *)
(* token that can be used whenever there is one.                           *)
(***************************************************************************)
CONSTANTS
  Key,      \* what a token is found by
  Alias,    \* what it is called
  Status,   \* "enabled" is the one that can be used
  None,     \* no token
  Request   \* requests that may be given a token at the same time

VARIABLES
  store,    \* the stored tokens: key -> status and alias
  handed    \* the key of the token each request was given last

vars == <<store, handed>>

InUse  == {store[k].alias : k \in DOMAIN store}
Usable == {k \in DOMAIN store : store[k].status = "enabled"}

Init ==
  /\ store = [k \in {} |-> None]
  /\ handed = [r \in Request |-> None]

Add(k, st, a) ==
  /\ k \notin DOMAIN store
  /\ a \notin InUse
  /\ store' = [x \in DOMAIN store \cup {k} |->
                 IF x = k THEN [status |-> st, alias |-> a] ELSE store[x]]
  /\ UNCHANGED handed

Remove(k) ==
  /\ store' = [x \in DOMAIN store \ {k} |-> store[x]]
  /\ UNCHANGED handed

Rename(k, a) ==
  /\ a \notin InUse
  /\ store' = [store EXCEPT ![k].alias = a]
  /\ UNCHANGED handed

\* A merge or a refresh gives the token another key; the rest stays.
Rekey(k, new) ==
  /\ new \notin DOMAIN store
  /\ store' = [x \in (DOMAIN store \ {k}) \cup {new} |->
                 IF x = new THEN store[k] ELSE store[x]]
  /\ UNCHANGED handed

SetStatus(k, st) ==
  /\ store' = [store EXCEPT ![k].status = st]
  /\ UNCHANGED handed

Clear ==
  /\ store' = [k \in {} |-> None]
  /\ UNCHANGED handed

\* Any usable token, and none only if there is none.
Give(r) ==
  /\ \/ \E k \in Usable : handed' = [handed EXCEPT ![r] = k]
     \/ Usable = {} /\ handed' = [handed EXCEPT ![r] = None]
  /\ UNCHANGED store

Next ==
  \/ \E k \in Key, st \in Status, a \in Alias : Add(k, st, a)
  \/ \E k \in DOMAIN store : Remove(k)
  \/ \E k \in DOMAIN store, a \in Alias : Rename(k, a)
  \/ \E k \in DOMAIN store, new \in Key : Rekey(k, new)
  \/ \E k \in DOMAIN store, st \in Status : SetStatus(k, st)
  \/ Clear
  \/ \E r \in Request : Give(r)

Spec == Init /\ [][Next]_vars
=============================================================================
