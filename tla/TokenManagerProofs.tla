------------------------- MODULE TokenManagerProofs -------------------------
(***************************************************************************)
(* The indexes of the token store agree after any series of calls by       *)
(* callers that never store a key twice, for any number of keys, names,    *)
(* queues and concurrent selects; with them the store implements the table *)
(* of module TokenStore, and a removal keeps every queue's place.          *)
(***************************************************************************)
EXTENDS TokenManager, WellFoundedInduction, TLAPS

\* The empty manager satisfies the invariant.
LEMMA InitIInv == Init => IInv
<1> SUFFICES ASSUME Init PROVE IInv
  OBVIOUS
<1> USE DEF Init, Empty
<1>1. TypeOK
  <2>1. 0..slots-1 = {} /\ 0..qlen-1 = {}
    OBVIOUS
  <2>2. /\ tokens \in [{} -> TokenInfo \cup {None}]
        /\ id_to_alias \in [{} -> Alias \cup {None}]
        /\ vec \in [{} -> Nat]
    OBVIOUS
  <2>3. /\ DOMAIN id_map = {} /\ DOMAIN alias_map = {} /\ DOMAIN map = {}
        /\ heads \in [QueueType -> Nat]
        /\ sel \in [Selector -> [queue : QueueType, start : Nat] \cup {None}]
        /\ picked \in [Selector -> Key \cup {None}]
    OBVIOUS
  <2>4. slots \in Nat /\ qlen \in Nat /\ fault \in BOOLEAN
    OBVIOUS
  <2>5. free_ids \in Seq(Nat)
    OBVIOUS
  <2> HIDE DEF Init
  <2> QED
    BY <2>1, <2>2, <2>3, <2>4, <2>5 DEF TypeOK
<1>2. IdMapExact /\ AliasesExact /\ AutoAliasOwn /\ KeysDistinct
  BY DEF IdMapExact, AliasesExact, AutoAliasOwn, KeysDistinct
<1>3. QueueExact /\ FreeIdsExact /\ NoFault
  BY DEF QueueExact, FreeIdsExact, NoFault, Live
<1> QED
  BY <1>1, <1>2, <1>3 DEF IInv

\* Adding a token whose key is not stored yet (TokenManager::add).
LEMMA AddIInv ==
  ASSUME IInv, KeysDistinct',
         NEW k \in Key, NEW st \in Status, NEW a \in Name \cup {UNNAMED},
         Add(k, st, a)
  PROVE  IInv'
<1>0. PICK id, al : id = NextId /\ al = GenAlias(a, id)
  OBVIOUS
<1> DEFINE info == [key |-> k, status |-> st]
<1>info. info \in TokenInfo /\ info # None /\ info.key = k
  BY ConstantsDiffer DEF TokenInfo
<1>t. TypeOK /\ slots \in Nat /\ qlen \in Nat /\ free_ids \in Seq(Nat)
  BY DEF IInv, TypeOK
<1>id. /\ id \in 0..slots'-1
       /\ slots' \in Nat
       /\ 0..slots'-1 = (0..slots-1) \cup {id}
       /\ ~Live(id)
  <2>1. CASE free_ids = <<>>
    BY <2>1, <1>0, <1>t DEF Add, NextId, Live
  <2>2. CASE free_ids # <<>>
    <3>1. 1 \in DOMAIN free_ids /\ Head(free_ids) = free_ids[1]
      BY <2>2, <1>t
    <3>2. Head(free_ids) \in 0..slots-1 /\ ~Live(Head(free_ids))
      BY <3>1 DEF IInv, FreeIdsExact
    <3> QED
      BY <2>2, <3>2, <1>0, <1>t DEF Add, NextId
  <2> QED
    BY <2>1, <2>2
<1>add. /\ tokens' = Put(tokens, id, info)
        /\ id_to_alias' = Put(id_to_alias, id, al)
        /\ alias_map' = Put(alias_map, al, id)
        /\ id_map' = Put(id_map, k, id)
        /\ map' = Put(map, k, qlen)
        /\ qlen' = qlen + 1
        /\ vec' = [x \in 0..qlen |-> IF x = qlen THEN id ELSE vec[x]]
        /\ UNCHANGED <<heads, sel, picked, fault>>
  BY <1>0 DEF Add, QueuePush, selVars
<1>dom. DOMAIN tokens = 0..slots-1 /\ DOMAIN id_to_alias = 0..slots-1
  BY <1>t DEF TypeOK
<1>al. al \in Alias /\ al # None /\ al \notin DOMAIN alias_map
       /\ (al \in AutoAlias => al[2] = id)
  BY <1>0, <1>id, ConstantsDiffer DEF Add, AddOk, GenAlias, Alias, AutoAlias
<1> HIDE DEF info
<1>tok. /\ DOMAIN tokens' = 0..slots'-1
        /\ tokens'[id] = info
        /\ \A i \in 0..slots-1 : i # id => tokens'[i] = tokens[i]
  BY <1>dom, <1>id, <1>add DEF Put
<1>live. /\ Live(id)'
         /\ \A i \in 0..slots-1 : i # id => (Live(i)' <=> Live(i))
         /\ \A i \in 0..slots-1 : Live(i) => i # id
  <2>1. Live(id)'
    BY <1>tok, <1>id, <1>info DEF Live
  <2>2. ASSUME NEW i \in 0..slots-1, i # id PROVE Live(i)' <=> Live(i)
    BY <2>2, <1>tok, <1>id DEF Live
  <2> QED
    BY <2>1, <2>2, <1>id
<1>key. k \notin DOMAIN id_map /\ k \notin DOMAIN map
  <2>1. ASSUME k \in DOMAIN id_map PROVE FALSE
    <3>1. Live(id_map[k]) /\ tokens[id_map[k]].key = k
      BY <2>1 DEF IInv, IdMapExact
    <3> QED
      BY <3>1, <1>live, <1>tok, <1>info, <1>id DEF KeysDistinct, Live
  <2>2. ASSUME k \in DOMAIN map PROVE FALSE
    <3>1. Live(vec[map[k]]) /\ tokens[vec[map[k]]].key = k
      BY <2>2 DEF IInv, QueueExact
    <3> QED
      BY <3>1, <1>live, <1>tok, <1>info, <1>id DEF KeysDistinct, Live
  <2> QED
    BY <2>1, <2>2
<1>ita. /\ DOMAIN id_to_alias' = 0..slots'-1
        /\ id_to_alias'[id] = al
        /\ \A i \in 0..slots-1 : i # id => id_to_alias'[i] = id_to_alias[i]
  BY <1>dom, <1>id, <1>add DEF Put
<1>am. /\ DOMAIN alias_map' = DOMAIN alias_map \cup {al}
       /\ alias_map'[al] = id
       /\ \A x \in DOMAIN alias_map : alias_map'[x] = alias_map[x]
  BY <1>al, <1>add DEF Put
<1>im. /\ DOMAIN id_map' = DOMAIN id_map \cup {k}
       /\ id_map'[k] = id
       /\ \A x \in DOMAIN id_map : id_map'[x] = id_map[x]
  BY <1>key, <1>add DEF Put
<1>qm. /\ DOMAIN map' = DOMAIN map \cup {k}
       /\ map'[k] = qlen
       /\ \A x \in DOMAIN map : map'[x] = map[x]
       /\ qlen' = qlen + 1
  BY <1>key, <1>add DEF Put
<1>vec. /\ vec' \in [0..qlen'-1 -> Nat]
        /\ vec'[qlen] = id
        /\ \A x \in 0..qlen-1 : vec'[x] = vec[x]
  BY <1>t, <1>id, <1>add DEF TypeOK
<1>1. TypeOK'
  <2>1. tokens' \in [0..slots'-1 -> TokenInfo \cup {None}]
    <3>1. tokens' = [x \in 0..slots'-1 |-> tokens'[x]]
      BY <1>tok, <1>info, <1>add DEF Put
    <3>2. \A i \in 0..slots'-1 : tokens'[i] \in TokenInfo \cup {None}
      BY <1>tok, <1>info, <1>id, <1>t DEF TypeOK
    <3> QED
      BY <3>1, <3>2
  <2>2. id_to_alias' \in [0..slots'-1 -> Alias \cup {None}]
    <3>1. id_to_alias' = [x \in 0..slots'-1 |-> id_to_alias'[x]]
      BY <1>ita, <1>add DEF Put
    <3>2. \A i \in 0..slots'-1 : id_to_alias'[i] \in Alias \cup {None}
      BY <1>ita, <1>id, <1>t, <1>al DEF TypeOK
    <3> QED
      BY <3>1, <3>2
  <2>3. DOMAIN id_map' \subseteq Key /\ \A x \in DOMAIN id_map' : id_map'[x] \in Nat
    BY <1>im, <1>id, <1>t DEF TypeOK
  <2>4. DOMAIN alias_map' \subseteq Alias /\ \A x \in DOMAIN alias_map' : alias_map'[x] \in Nat
    BY <1>am, <1>al, <1>id, <1>t DEF TypeOK
  <2>5. DOMAIN map' \subseteq Key /\ \A x \in DOMAIN map' : map'[x] \in Nat
    BY <1>qm, <1>t DEF TypeOK
  <2>6. free_ids' \in Seq(Nat)
    BY <1>t DEF Add
  <2>7. /\ heads' \in [QueueType -> Nat]
        /\ sel' \in [Selector -> [queue : QueueType, start : Nat] \cup {None}]
        /\ picked' \in [Selector -> Key \cup {None}]
        /\ fault' \in BOOLEAN
    BY <1>t, <1>add DEF TypeOK
  <2>8. qlen' \in Nat
    BY <1>t, <1>add
  <2> QED
    BY <2>1, <2>2, <2>3, <2>4, <2>5, <2>6, <2>7, <2>8, <1>id, <1>vec DEF TypeOK
<1>2. IdMapExact'
  <2>1. ASSUME NEW x \in DOMAIN id_map'
        PROVE  Live(id_map[x])' /\ tokens'[id_map'[x]].key = x
    <3>1. CASE x = k
      BY <3>1, <1>im, <1>tok, <1>info, <1>live
    <3>2. CASE x # k
      <4>1. x \in DOMAIN id_map /\ id_map'[x] = id_map[x]
        BY <3>2, <2>1, <1>im
      <4>2. Live(id_map[x]) /\ tokens[id_map[x]].key = x
        BY <4>1 DEF IInv, IdMapExact
      <4> QED
        BY <4>1, <4>2, <1>tok, <1>live DEF Live
    <3> QED
      BY <3>1, <3>2
  <2>2. ASSUME NEW i \in 0..slots'-1, Live(i)'
        PROVE  tokens'[i].key \in DOMAIN id_map' /\ id_map'[tokens'[i].key] = i
    <3>1. CASE i = id
      BY <3>1, <1>im, <1>tok, <1>info
    <3>2. CASE i # id
      <4>1. i \in 0..slots-1 /\ Live(i) /\ tokens'[i] = tokens[i]
        BY <2>2, <3>2, <1>tok, <1>live, <1>id DEF Live
      <4>2. tokens[i].key \in DOMAIN id_map /\ id_map[tokens[i].key] = i
        BY <4>1 DEF IInv, IdMapExact
      <4> QED
        BY <4>1, <4>2, <1>im
    <3> QED
      BY <3>1, <3>2
  <2> QED
    BY <2>1, <2>2 DEF IdMapExact
<1>3. AliasesExact'
  <2>1. ASSUME NEW x \in DOMAIN alias_map'
        PROVE  Live(alias_map[x])' /\ id_to_alias'[alias_map'[x]] = x
    <3>1. CASE x = al
      BY <3>1, <1>am, <1>ita, <1>live
    <3>2. CASE x # al
      <4>1. x \in DOMAIN alias_map /\ alias_map'[x] = alias_map[x]
        BY <3>2, <2>1, <1>am
      <4>2. Live(alias_map[x]) /\ id_to_alias[alias_map[x]] = x
        BY <4>1 DEF IInv, AliasesExact
      <4>3. alias_map[x] \in 0..slots-1 /\ alias_map[x] # id
        BY <4>2, <1>live DEF Live
      <4> QED
        BY <4>1, <4>2, <4>3, <1>live, <1>ita
    <3> QED
      BY <3>1, <3>2
  <2>2. ASSUME NEW i \in 0..slots'-1
        PROVE  IF Live(i)' THEN /\ id_to_alias'[i] \in DOMAIN alias_map'
                                /\ alias_map'[id_to_alias'[i]] = i
               ELSE id_to_alias'[i] = None
    <3>1. CASE i = id
      BY <3>1, <1>live, <1>am, <1>ita
    <3>2. CASE i # id
      <4>1. i \in 0..slots-1 /\ id_to_alias'[i] = id_to_alias[i] /\ (Live(i)' <=> Live(i))
        BY <3>2, <1>id, <1>ita, <1>live
      <4>2. IF Live(i) THEN /\ id_to_alias[i] \in DOMAIN alias_map
                            /\ alias_map[id_to_alias[i]] = i
            ELSE id_to_alias[i] = None
        BY <4>1 DEF IInv, AliasesExact
      <4> QED
        BY <4>1, <4>2, <1>am
    <3> QED
      BY <3>1, <3>2
  <2> QED
    BY <2>1, <2>2 DEF AliasesExact
<1>4. QueueExact'
  <2>1. ASSUME NEW x \in 0..qlen'-1
        PROVE  /\ Live(vec[x])'
               /\ tokens'[vec'[x]].key \in DOMAIN map'
               /\ map'[tokens'[vec'[x]].key] = x
    <3>1. CASE x = qlen
      BY <3>1, <1>vec, <1>live, <1>tok, <1>info, <1>qm
    <3>2. CASE x # qlen
      <4>0. qlen' = qlen + 1 /\ qlen \in Nat
        BY <1>t, <1>qm
      <4>1. x \in 0..qlen-1 /\ vec'[x] = vec[x]
        BY <3>2, <4>0, <1>vec
      <4>2. Live(vec[x]) /\ tokens[vec[x]].key \in DOMAIN map /\ map[tokens[vec[x]].key] = x
        BY <4>1 DEF IInv, QueueExact
      <4>3. vec[x] \in 0..slots-1 /\ vec[x] # id
        BY <4>2, <1>live DEF Live
      <4> QED
        BY <4>1, <4>2, <4>3, <1>tok, <1>live, <1>qm
    <3> QED
      BY <3>1, <3>2
  <2>2. ASSUME NEW y \in DOMAIN map'
        PROVE  map'[y] \in 0..qlen'-1 /\ tokens'[vec'[map'[y]]].key = y
    <3>1. CASE y = k
      BY <3>1, <1>t, <1>qm, <1>vec, <1>tok, <1>info
    <3>2. CASE y # k
      <4>1. y \in DOMAIN map /\ map'[y] = map[y]
        BY <3>2, <2>2, <1>qm
      <4>2. map[y] \in 0..qlen-1 /\ tokens[vec[map[y]]].key = y /\ Live(vec[map[y]])
        BY <4>1 DEF IInv, QueueExact
      <4>3. vec[map[y]] \in 0..slots-1 /\ vec[map[y]] # id
        BY <4>2, <1>live DEF Live
      <4> QED
        BY <4>1, <4>2, <4>3, <1>t, <1>tok, <1>vec, <1>qm
    <3> QED
      BY <3>1, <3>2
  <2>3. ASSUME NEW i \in 0..slots'-1, Live(i)'
        PROVE  tokens'[i].key \in DOMAIN map' /\ vec'[map'[tokens'[i].key]] = i
    <3>1. CASE i = id
      BY <3>1, <1>qm, <1>vec, <1>tok, <1>info
    <3>2. CASE i # id
      <4>1. i \in 0..slots-1 /\ tokens'[i] = tokens[i] /\ Live(i)
        BY <2>3, <3>2, <1>id, <1>tok, <1>live
      <4>2. tokens[i].key \in DOMAIN map /\ vec[map[tokens[i].key]] = i
            /\ map[tokens[i].key] \in 0..qlen-1
        BY <4>1 DEF IInv, QueueExact
      <4> QED
        BY <4>1, <4>2, <1>qm, <1>vec
    <3> QED
      BY <3>1, <3>2
  <2> QED
    BY <2>1, <2>2, <2>3 DEF QueueExact
<1>5. FreeIdsExact'
  <2>1. CASE free_ids = <<>>
    BY <2>1, <1>t, <1>id, <1>live DEF Add, IInv, FreeIdsExact
  <2>2. CASE free_ids # <<>>
    <3>1. /\ Len(free_ids') = Len(free_ids) - 1 /\ Len(free_ids) \in Nat
          /\ \A p \in 1..Len(free_ids)-1 : free_ids'[p] = free_ids[p + 1]
          /\ id = free_ids[1]
          /\ slots' = slots
      BY <2>2, <1>0, <1>t DEF Add, NextId
    <3>2. DOMAIN free_ids = 1..Len(free_ids) /\ DOMAIN free_ids' = 1..Len(free_ids)-1
      BY <3>1, <1>t, <2>2 DEF Add
    <3>3. \A p \in DOMAIN free_ids' : free_ids'[p] # id
      <4>1. \A x, y \in DOMAIN free_ids : free_ids[x] = free_ids[y] => x = y
        BY DEF IInv, FreeIdsExact
      <4>2. ASSUME NEW p \in DOMAIN free_ids'
            PROVE  /\ p + 1 \in DOMAIN free_ids /\ 1 \in DOMAIN free_ids /\ p + 1 # 1
                   /\ free_ids'[p] = free_ids[p + 1]
        BY <3>1, <3>2
      <4> QED
        BY <3>1, <4>1, <4>2
    <3>4. ASSUME NEW p \in DOMAIN free_ids', NEW r \in DOMAIN free_ids',
                 free_ids'[p] = free_ids'[r]
          PROVE  p = r
      <4>1. /\ p + 1 \in DOMAIN free_ids /\ r + 1 \in DOMAIN free_ids
            /\ free_ids[p + 1] = free_ids[r + 1]
        BY <3>1, <3>2, <3>4
      <4>2. p + 1 = r + 1
        BY <4>1 DEF IInv, FreeIdsExact
      <4> QED
        BY <4>2, <3>1, <3>2
    <3>5. \A p \in DOMAIN free_ids' : free_ids'[p] \in 0..slots'-1 /\ ~Live(free_ids[p])'
      <4> SUFFICES ASSUME NEW p \in DOMAIN free_ids'
                   PROVE  free_ids'[p] \in 0..slots'-1 /\ ~Live(free_ids[p])'
        OBVIOUS
      <4>1. p + 1 \in DOMAIN free_ids /\ free_ids'[p] = free_ids[p + 1]
        BY <3>1, <3>2
      <4>2. free_ids[p + 1] \in 0..slots-1 /\ ~Live(free_ids[p + 1])
        BY <4>1 DEF IInv, FreeIdsExact
      <4> QED
        BY <4>1, <4>2, <3>1, <3>3, <1>live DEF Live
    <3>6. \A i \in 0..slots'-1 : ~Live(i)' => \E p \in DOMAIN free_ids' : free_ids'[p] = i
      <4> SUFFICES ASSUME NEW i \in 0..slots'-1, ~Live(i)'
                   PROVE  \E p \in DOMAIN free_ids' : free_ids'[p] = i
        OBVIOUS
      <4>1. i # id /\ ~Live(i) /\ i \in 0..slots-1
        BY <1>live, <3>1
      <4>2. PICK r \in DOMAIN free_ids : free_ids[r] = i
        BY <4>1 DEF IInv, FreeIdsExact
      <4>3. r # 1 /\ r - 1 \in DOMAIN free_ids' /\ free_ids'[r - 1] = i
        BY <4>1, <4>2, <3>1, <3>2
      <4> QED
        BY <4>3
    <3> QED
      BY <3>4, <3>5, <3>6 DEF FreeIdsExact
  <2> QED
    BY <2>1, <2>2
<1>6. AutoAliasOwn'
  BY <1>am, <1>al DEF IInv, AutoAliasOwn
<1>7. NoFault' /\ (\A s \in Selector : sel[s] # None => qlen > 0)'
  BY <1>t, <1>add DEF IInv, NoFault
<1> QED
  BY <1>1, <1>2, <1>3, <1>4, <1>5, <1>6, <1>7 DEF IInv

\* Removing a token (TokenManager::remove and TokenQueue::remove).
LEMMA RemoveIInv ==
  ASSUME IInv, NEW id \in 0..slots-1, Remove(id)
  PROVE  IInv'
<1>t. /\ slots \in Nat /\ qlen \in Nat /\ free_ids \in Seq(Nat)
      /\ DOMAIN tokens = 0..slots-1 /\ DOMAIN id_to_alias = 0..slots-1
      /\ vec \in [0..qlen-1 -> Nat]
  BY DEF IInv, TypeOK
<1>0. PICK key, al, toks : /\ key = tokens[id].key
                           /\ al = id_to_alias[id]
                           /\ toks = [tokens EXCEPT ![id] = None]
  OBVIOUS
<1>l. Live(id) /\ tokens[id] # None
  BY DEF Remove, Live
<1>tok. /\ tokens' = toks
        /\ DOMAIN tokens' = 0..slots-1
        /\ tokens'[id] = None
        /\ \A i \in 0..slots-1 : i # id => tokens'[i] = tokens[i]
        /\ slots' = slots
  BY <1>0, <1>t DEF Remove
<1>live. /\ ~Live(id)'
         /\ \A i \in 0..slots-1 : i # id => (Live(i)' <=> Live(i))
  BY <1>tok DEF Live
<1>q. /\ key \in DOMAIN map
      /\ map[key] \in 0..qlen-1
      /\ vec[map[key]] = id
  BY <1>0, <1>l DEF IInv, QueueExact
<1>v. PICK v \in 0..qlen-1 : v = map[key] /\ vec[v] = id
  BY <1>q
<1>pos. \A y \in 0..qlen-1 : y # v =>
          /\ vec[y] # id
          /\ Live(vec[y])
          /\ tokens[vec[y]].key \in DOMAIN map \ {key}
          /\ map[tokens[vec[y]].key] = y
          /\ KeyOf(toks, vec[y]) = tokens[vec[y]].key
  <2> SUFFICES ASSUME NEW y \in 0..qlen-1, y # v
               PROVE  /\ vec[y] # id
                      /\ Live(vec[y])
                      /\ tokens[vec[y]].key \in DOMAIN map \ {key}
                      /\ map[tokens[vec[y]].key] = y
                      /\ KeyOf(toks, vec[y]) = tokens[vec[y]].key
    OBVIOUS
  <2>1. Live(vec[y]) /\ tokens[vec[y]].key \in DOMAIN map /\ map[tokens[vec[y]].key] = y
    BY DEF IInv, QueueExact
  <2>2. vec[y] # id /\ tokens[vec[y]].key # key
    BY <2>1, <1>0, <1>v
  <2>3. vec[y] \in 0..slots-1 /\ tokens[vec[y]] # None
    BY <2>1 DEF Live
  <2>4. toks[vec[y]] = tokens[vec[y]]
    BY <2>2, <2>3, <1>tok
  <2> QED
    BY <2>1, <2>2, <2>3, <2>4 DEF KeyOf
<1>vec. /\ qlen' = qlen - 1 /\ qlen' \in Nat
        /\ vec' = VecRemove(v)
        /\ map' = Reindex(Drop(map, key), v, VecRemove(v), toks)
        /\ heads' = AdjustHeads(v)
  BY <1>0, <1>q, <1>v, <1>t DEF Remove, QueueRemove
<1>vr. /\ vec' \in [0..qlen'-1 -> Nat]
       /\ \A x \in 0..qlen-2 : vec'[x] = IF x < v THEN vec[x] ELSE vec[x + 1]
  BY <1>vec, <1>t DEF VecRemove
<1>map. /\ DOMAIN map' = DOMAIN map \ {key}
        /\ \A k \in DOMAIN map' :
             /\ map[k] \in 0..qlen-1 /\ map[k] # v
             /\ map'[k] = IF map[k] > v THEN map[k] - 1 ELSE map[k]
  <2>1. DOMAIN map' = DOMAIN map \ {key}
    BY <1>vec DEF Reindex, Drop
  <2> SUFFICES ASSUME NEW k \in DOMAIN map \ {key}
               PROVE  /\ map[k] \in 0..qlen-1 /\ map[k] # v
                      /\ map'[k] = IF map[k] > v THEN map[k] - 1 ELSE map[k]
    BY <2>1
  <2>2. map[k] \in 0..qlen-1 /\ tokens[vec[map[k]]].key = k /\ map[k] # v
    BY <1>v, <1>0 DEF IInv, QueueExact
  <2> DEFINE hits == {x \in v..qlen-2 : KeyOf(toks, VecRemove(v)[x]) = k}
  <2>3. map'[k] = IF hits = {} THEN map[k] ELSE CHOOSE x \in hits : \A y \in hits : y <= x
    BY <1>vec DEF Reindex, Drop
  <2>4. \A x \in v..qlen-2 : KeyOf(toks, VecRemove(v)[x]) = tokens[vec[x + 1]].key
                             /\ map[tokens[vec[x + 1]].key] = x + 1
    <3> SUFFICES ASSUME NEW x \in v..qlen-2
                 PROVE  KeyOf(toks, VecRemove(v)[x]) = tokens[vec[x + 1]].key
                        /\ map[tokens[vec[x + 1]].key] = x + 1
      OBVIOUS
    <3>1. x + 1 \in 0..qlen-1 /\ x + 1 # v /\ x \in 0..qlen-2 /\ ~(x < v)
      BY <1>t
    <3>2. VecRemove(v)[x] = vec[x + 1]
      BY <3>1, <1>vec, <1>vr
    <3> QED
      BY <3>1, <3>2, <1>pos
  <2>h. ASSUME NEW x \in hits PROVE x \in v..qlen-2 /\ map[k] = x + 1
    <3>1. x \in v..qlen-2 /\ KeyOf(toks, VecRemove(v)[x]) = k
      BY <2>h
    <3> QED
      BY <3>1, <2>4
  <2>5. CASE map[k] > v
    <3>1. map[k] - 1 \in v..qlen-2 /\ (map[k] - 1) + 1 = map[k]
      BY <2>2, <2>5, <1>t
    <3>2. \A x \in hits : x = map[k] - 1
      <4> SUFFICES ASSUME NEW x \in hits PROVE x = map[k] - 1
        OBVIOUS
      <4>1. x \in v..qlen-2 /\ map[k] = x + 1
        BY <2>h
      <4> HIDE DEF hits
      <4> QED
        BY <4>1, <1>t
    <3>3. map[k] - 1 \in hits
      BY <3>1, <2>4, <2>2
    <3> HIDE DEF hits
    <3>4. hits = {map[k] - 1}
      BY <3>2, <3>3
    <3>5. (CHOOSE x \in hits : \A y \in hits : y <= x) = map[k] - 1
      BY <3>4, <3>1, <1>t, <2>2
    <3> QED
      BY <3>4, <3>5, <2>2, <2>3, <2>5
  <2>6. CASE ~(map[k] > v)
    <3>1. \A x \in hits : FALSE
      <4> SUFFICES ASSUME NEW x \in hits PROVE FALSE
        OBVIOUS
      <4>1. x \in v..qlen-2 /\ map[k] = x + 1
        BY <2>h
      <4> HIDE DEF hits
      <4> QED
        BY <4>1, <2>6, <1>t
    <3> HIDE DEF hits
    <3>2. hits = {}
      BY <3>1
    <3> QED
      BY <3>2, <2>2, <2>3, <2>6
  <2> QED
    BY <2>2, <2>5, <2>6
<1>al. /\ al \in DOMAIN alias_map /\ alias_map[al] = id /\ al # None
       /\ id_to_alias' = [id_to_alias EXCEPT ![id] = None]
       /\ DOMAIN alias_map' = DOMAIN alias_map \ {al}
       /\ \A x \in DOMAIN alias_map' : alias_map'[x] = alias_map[x]
  <2>1. al \in DOMAIN alias_map /\ alias_map[al] = id
    BY <1>0, <1>l DEF IInv, AliasesExact
  <2>2. al # None
    BY <2>1, ConstantsDiffer DEF IInv, TypeOK
  <2> QED
    BY <2>1, <2>2, <1>0 DEF Remove, Drop
<1>im. /\ DOMAIN id_map' = DOMAIN id_map \ {key}
       /\ \A x \in DOMAIN id_map' : id_map'[x] = id_map[x]
  BY <1>0 DEF Remove, Drop
<1>f. free_ids' = Append(free_ids, id) /\ UNCHANGED <<sel, picked>>
  BY DEF Remove, selVars
<1>nf. fault' = FALSE
  <2>1. ~QueueRemoveFaults(key, toks)
    <3>1. \A x \in v+1..qlen-1 : x \in 0..qlen-1 /\ x # v
      BY <1>t
    <3>2. ~(map[key] >= qlen)
      BY <1>q, <1>t
    <3> QED
      BY <3>1, <3>2, <1>v, <1>pos DEF QueueRemoveFaults
  <2> QED
    BY <2>1, <1>0, <1>al DEF Remove
<1>1. TypeOK'
  <2>1. tokens' \in [0..slots'-1 -> TokenInfo \cup {None}]
    BY <1>0, <1>tok DEF IInv, TypeOK
  <2>2. id_to_alias' \in [0..slots'-1 -> Alias \cup {None}]
    BY <1>al, <1>tok DEF IInv, TypeOK
  <2>3. DOMAIN id_map' \subseteq Key /\ \A x \in DOMAIN id_map' : id_map'[x] \in Nat
    BY <1>im DEF IInv, TypeOK
  <2>4. DOMAIN alias_map' \subseteq Alias /\ \A x \in DOMAIN alias_map' : alias_map'[x] \in Nat
    BY <1>al DEF IInv, TypeOK
  <2>5. DOMAIN map' \subseteq Key /\ \A x \in DOMAIN map' : map'[x] \in Nat
    BY <1>map, <1>t DEF IInv, TypeOK
  <2>6. free_ids' \in Seq(Nat)
    BY <1>f, <1>t
  <2>7. heads' \in [QueueType -> Nat]
    BY <1>vec DEF AdjustHeads, IInv, TypeOK
  <2>8. /\ sel' \in [Selector -> [queue : QueueType, start : Nat] \cup {None}]
        /\ picked' \in [Selector -> Key \cup {None}]
    BY <1>f DEF IInv, TypeOK
  <2> QED
    BY <2>1, <2>2, <2>3, <2>4, <2>5, <2>6, <2>7, <2>8, <1>vec, <1>vr, <1>nf, <1>tok, <1>t DEF TypeOK
<1>2. IdMapExact'
  <2>1. ASSUME NEW k \in DOMAIN id_map'
        PROVE  Live(id_map[k])' /\ tokens'[id_map'[k]].key = k
    <3>1. k \in DOMAIN id_map /\ k # key /\ id_map'[k] = id_map[k]
      BY <2>1, <1>im
    <3>2. Live(id_map[k]) /\ tokens[id_map[k]].key = k
      BY <3>1 DEF IInv, IdMapExact
    <3>3. id_map[k] \in 0..slots-1 /\ id_map[k] # id
      BY <3>1, <3>2, <1>0 DEF Live
    <3> QED
      BY <3>1, <3>2, <3>3, <1>tok, <1>live
  <2>2. ASSUME NEW i \in 0..slots'-1, Live(i)'
        PROVE  tokens'[i].key \in DOMAIN id_map' /\ id_map'[tokens'[i].key] = i
    <3>1. i \in 0..slots-1 /\ i # id /\ Live(i) /\ tokens'[i] = tokens[i]
      BY <2>2, <1>tok, <1>live
    <3>2. tokens[i].key \in DOMAIN id_map /\ id_map[tokens[i].key] = i
      BY <3>1 DEF IInv, IdMapExact
    <3>3. tokens[i].key # key
      BY <3>1, <1>0, <1>l DEF IInv, KeysDistinct, Live
    <3> QED
      BY <3>1, <3>2, <3>3, <1>im
  <2> QED
    BY <2>1, <2>2 DEF IdMapExact
<1>3. AliasesExact'
  <2>1. ASSUME NEW x \in DOMAIN alias_map'
        PROVE  Live(alias_map[x])' /\ id_to_alias'[alias_map'[x]] = x
    <3>1. x \in DOMAIN alias_map /\ x # al /\ alias_map'[x] = alias_map[x]
      BY <2>1, <1>al
    <3>2. Live(alias_map[x]) /\ id_to_alias[alias_map[x]] = x
      BY <3>1 DEF IInv, AliasesExact
    <3>3. alias_map[x] \in 0..slots-1 /\ alias_map[x] # id
      BY <3>1, <3>2, <1>0 DEF Live
    <3> QED
      BY <3>1, <3>2, <3>3, <1>live, <1>al, <1>t
  <2>2. ASSUME NEW i \in 0..slots'-1
        PROVE  IF Live(i)' THEN /\ id_to_alias'[i] \in DOMAIN alias_map'
                                /\ alias_map'[id_to_alias'[i]] = i
               ELSE id_to_alias'[i] = None
    <3>1. CASE i = id
      BY <3>1, <1>live, <1>al, <1>t
    <3>2. CASE i # id
      <4>1. i \in 0..slots-1 /\ id_to_alias'[i] = id_to_alias[i] /\ (Live(i)' <=> Live(i))
        BY <3>2, <1>al, <1>live, <1>tok, <1>t
      <4>2. IF Live(i) THEN /\ id_to_alias[i] \in DOMAIN alias_map
                            /\ alias_map[id_to_alias[i]] = i
            ELSE id_to_alias[i] = None
        BY <4>1 DEF IInv, AliasesExact
      <4> QED
        BY <4>1, <4>2, <1>al, <3>2
    <3> QED
      BY <3>1, <3>2
  <2> QED
    BY <2>1, <2>2 DEF AliasesExact
<1>4. QueueExact'
  <2>1. ASSUME NEW x \in 0..qlen'-1
        PROVE  /\ Live(vec[x])'
               /\ tokens'[vec'[x]].key \in DOMAIN map'
               /\ map'[tokens'[vec'[x]].key] = x
    <3>1. PICK y \in 0..qlen-1 : /\ y # v /\ vec'[x] = vec[y]
                                 /\ x = IF y > v THEN y - 1 ELSE y
      <4>0. x \in 0..qlen-2 /\ v \in Int
        BY <1>vec, <1>t
      <4>1. CASE x < v
        <5>1. x \in 0..qlen-1 /\ x # v /\ ~(x > v)
          BY <4>0, <4>1, <1>t
        <5> QED
          BY <4>0, <4>1, <5>1, <1>vr
      <4>2. CASE ~(x < v)
        <5>1. x + 1 \in 0..qlen-1 /\ x + 1 # v /\ x + 1 > v /\ (x + 1) - 1 = x
          BY <4>0, <4>2, <1>t
        <5> QED
          BY <4>0, <4>2, <5>1, <1>vr
      <4> QED
        BY <4>1, <4>2
    <3>2. /\ vec[y] # id /\ Live(vec[y])
          /\ tokens[vec[y]].key \in DOMAIN map \ {key} /\ map[tokens[vec[y]].key] = y
      BY <3>1, <1>pos
    <3>3. vec[y] \in 0..slots-1
      BY <3>2 DEF Live
    <3>4. Live(vec[x])' /\ tokens'[vec'[x]] = tokens[vec[y]]
      BY <3>1, <3>2, <3>3, <1>tok, <1>live
    <3>5. map'[tokens[vec[y]].key] = x
      BY <3>1, <3>2, <1>map
    <3> QED
      BY <3>2, <3>4, <3>5, <1>map
  <2>2. ASSUME NEW k \in DOMAIN map'
        PROVE  map'[k] \in 0..qlen'-1 /\ tokens'[vec'[map'[k]]].key = k
    <3>1. /\ map[k] \in 0..qlen-1 /\ map[k] # v
          /\ map'[k] = IF map[k] > v THEN map[k] - 1 ELSE map[k]
          /\ tokens[vec[map[k]]].key = k
      BY <2>2, <1>map DEF IInv, QueueExact
    <3>2. map'[k] \in 0..qlen'-1 /\ vec'[map'[k]] = vec[map[k]]
      <4>1. CASE map[k] > v
        <5>1. map'[k] = map[k] - 1 /\ map'[k] \in 0..qlen-2 /\ ~(map'[k] < v) /\ map'[k] + 1 = map[k]
          BY <4>1, <3>1, <1>t
        <5> QED
          BY <5>1, <1>vr, <1>vec, <1>t
      <4>2. CASE ~(map[k] > v)
        <5>1. map'[k] = map[k] /\ map'[k] \in 0..qlen-2 /\ map'[k] < v
          BY <4>2, <3>1, <1>t
        <5> QED
          BY <5>1, <1>vr, <1>vec, <1>t
      <4> QED
        BY <4>1, <4>2
    <3>3. vec[map[k]] # id /\ vec[map[k]] \in 0..slots-1
      BY <3>1, <1>pos DEF Live
    <3> QED
      BY <3>1, <3>2, <3>3, <1>tok
  <2>3. ASSUME NEW i \in 0..slots'-1, Live(i)'
        PROVE  tokens'[i].key \in DOMAIN map' /\ vec'[map'[tokens'[i].key]] = i
    <3>1. i \in 0..slots-1 /\ i # id /\ Live(i) /\ tokens'[i] = tokens[i]
      BY <2>3, <1>tok, <1>live
    <3>2. tokens[i].key \in DOMAIN map /\ vec[map[tokens[i].key]] = i
      BY <3>1 DEF IInv, QueueExact
    <3>3. tokens[i].key # key
      BY <3>1, <1>0, <1>l DEF IInv, KeysDistinct, Live
    <3>4. PICK k \in DOMAIN map' : k = tokens[i].key
      BY <3>2, <3>3, <1>map
    <3>5. map'[k] \in 0..qlen-2 /\ vec'[map'[k]] = vec[map[k]]
      <4>1. /\ map[k] \in 0..qlen-1 /\ map[k] # v
            /\ map'[k] = IF map[k] > v THEN map[k] - 1 ELSE map[k]
        BY <3>4, <1>map
      <4>2. PICK x, y : x = map[k] /\ y = map'[k]
        OBVIOUS
      <4>3. /\ qlen \in Nat /\ v \in Int /\ x \in 0..qlen-1 /\ x # v
            /\ y = IF x > v THEN x - 1 ELSE x
            /\ v \in 0..qlen-1
        BY <4>1, <4>2, <1>t
      <4>4. CASE x > v
        <5>1. y = x - 1 /\ y \in 0..qlen-2 /\ ~(y < v) /\ y + 1 = x
          BY <4>4, <4>3
        <5> QED
          BY <4>2, <5>1, <1>vr
      <4>5. CASE ~(x > v)
        <5>1. y = x /\ y \in 0..qlen-2 /\ y < v
          BY <4>5, <4>3
        <5> QED
          BY <4>2, <5>1, <1>vr
      <4> QED
        BY <4>4, <4>5
    <3> QED
      BY <3>1, <3>2, <3>4, <3>5
  <2> QED
    BY <2>1, <2>2, <2>3 DEF QueueExact
<1>5. FreeIdsExact'
  <2>1. /\ Len(free_ids) \in Nat
        /\ DOMAIN free_ids = 1..Len(free_ids)
        /\ DOMAIN free_ids' = 1..Len(free_ids)+1
        /\ free_ids'[Len(free_ids)+1] = id
        /\ \A p \in 1..Len(free_ids) : free_ids'[p] = free_ids[p]
    BY <1>f, <1>t
  <2>2. \A p \in DOMAIN free_ids : free_ids[p] # id /\ free_ids[p] \in 0..slots-1 /\ ~Live(free_ids[p])
    BY <1>l DEF IInv, FreeIdsExact
  <2>3. ASSUME NEW p \in DOMAIN free_ids'
        PROVE  free_ids'[p] \in 0..slots'-1 /\ ~Live(free_ids[p])'
    <3>1. CASE p = Len(free_ids) + 1
      BY <3>1, <2>1, <1>live, <1>tok
    <3>2. CASE p # Len(free_ids) + 1
      <4>1. p \in DOMAIN free_ids /\ free_ids'[p] = free_ids[p]
        BY <3>2, <2>1
      <4> QED
        BY <4>1, <2>2, <1>live, <1>tok
    <3> QED
      BY <3>1, <3>2
  <2>4. ASSUME NEW p \in DOMAIN free_ids', NEW r \in DOMAIN free_ids',
               free_ids'[p] = free_ids'[r]
        PROVE  p = r
    <3>1. CASE p \in DOMAIN free_ids /\ r \in DOMAIN free_ids
      BY <3>1, <2>4, <2>1 DEF IInv, FreeIdsExact
    <3>2. CASE ~(p \in DOMAIN free_ids /\ r \in DOMAIN free_ids)
      BY <3>2, <2>4, <2>1, <2>2
    <3> QED
      BY <3>1, <3>2
  <2>5. ASSUME NEW i \in 0..slots'-1, ~Live(i)'
        PROVE  \E p \in DOMAIN free_ids' : free_ids'[p] = i
    <3>1. CASE i = id
      BY <3>1, <2>1
    <3>2. CASE i # id
      <4>1. i \in 0..slots-1 /\ ~Live(i)
        BY <3>2, <2>5, <1>live, <1>tok
      <4>2. PICK r \in DOMAIN free_ids : free_ids[r] = i
        BY <4>1 DEF IInv, FreeIdsExact
      <4>3. r \in DOMAIN free_ids' /\ free_ids'[r] = i
        BY <4>2, <2>1
      <4> QED
        BY <4>3
    <3> QED
      BY <3>1, <3>2
  <2> QED
    BY <2>3, <2>4, <2>5 DEF FreeIdsExact
<1>6. AutoAliasOwn'
  BY <1>al DEF IInv, AutoAliasOwn
<1>7. KeysDistinct'
  BY <1>tok DEF IInv, KeysDistinct
<1>8. NoFault' /\ (\A s \in Selector : sel[s] # None => qlen > 0)'
  BY <1>nf, <1>f DEF Remove, Exclusive, NoFault
<1> QED
  BY <1>1, <1>2, <1>3, <1>4, <1>5, <1>6, <1>7, <1>8 DEF IInv

\* A step that leaves the key of every slot, and all the indexes, as they are.
LEMMA SameKeysIInv ==
  ASSUME IInv,
         tokens' \in [0..slots-1 -> TokenInfo \cup {None}],
         \A i \in 0..slots-1 : /\ tokens'[i] = None <=> tokens[i] = None
                               /\ tokens[i] # None => tokens'[i].key = tokens[i].key,
         UNCHANGED <<slots, id_map, alias_map, id_to_alias, free_ids, vec, qlen,
                     map, heads, sel, picked, fault>>
  PROVE  IInv'
<1>live. \A i \in 0..slots-1 : Live(i)' <=> Live(i)
  BY DEF Live
<1>1. TypeOK'
  BY DEF IInv, TypeOK
<1>2. IdMapExact'
  <2>1. ASSUME NEW k \in DOMAIN id_map
        PROVE  Live(id_map[k])' /\ tokens'[id_map[k]].key = k
    BY <1>live DEF IInv, IdMapExact, Live
  <2>2. ASSUME NEW i \in 0..slots-1, Live(i)'
        PROVE  tokens'[i].key \in DOMAIN id_map /\ id_map[tokens'[i].key] = i
    BY <2>2, <1>live DEF IInv, IdMapExact, Live
  <2> QED
    BY <2>1, <2>2 DEF IdMapExact
<1>3. AliasesExact'
  <2>1. ASSUME NEW x \in DOMAIN alias_map
        PROVE  Live(alias_map[x])' /\ id_to_alias[alias_map[x]] = x
    BY <1>live DEF IInv, AliasesExact, Live
  <2>2. ASSUME NEW i \in 0..slots-1
        PROVE  IF Live(i)' THEN /\ id_to_alias[i] \in DOMAIN alias_map
                                /\ alias_map[id_to_alias[i]] = i
               ELSE id_to_alias[i] = None
    BY <1>live DEF IInv, AliasesExact
  <2> QED
    BY <2>1, <2>2 DEF AliasesExact
<1>4. QueueExact'
  <2>1. ASSUME NEW x \in 0..qlen-1
        PROVE  /\ Live(vec[x])'
               /\ tokens'[vec[x]].key \in DOMAIN map
               /\ map[tokens'[vec[x]].key] = x
    BY <1>live DEF IInv, QueueExact, Live
  <2>2. ASSUME NEW k \in DOMAIN map
        PROVE  map[k] \in 0..qlen-1 /\ tokens'[vec[map[k]]].key = k
    BY <1>live DEF IInv, QueueExact, Live
  <2>3. ASSUME NEW i \in 0..slots-1, Live(i)'
        PROVE  tokens'[i].key \in DOMAIN map /\ vec[map[tokens'[i].key]] = i
    BY <2>3, <1>live DEF IInv, QueueExact, Live
  <2> QED
    BY <2>1, <2>2, <2>3 DEF QueueExact
<1>5. FreeIdsExact'
  BY <1>live DEF IInv, FreeIdsExact
<1>6. AutoAliasOwn' /\ KeysDistinct' /\ NoFault'
  BY DEF IInv, AutoAliasOwn, KeysDistinct, NoFault
<1>7. (\A s \in Selector : sel[s] # None => qlen > 0)'
  BY DEF IInv
<1> QED
  BY <1>1, <1>2, <1>3, <1>4, <1>5, <1>6, <1>7 DEF IInv

\* handle_set_tokens_status, and a backoff that runs out.
LEMMA StatusIInv ==
  ASSUME IInv, NEW id \in 0..slots-1, NEW st \in Status,
         SetStatus(id, st) \/ BackoffEnds(id)
  PROVE  IInv'
<1>1. PICK s2 \in Status : tokens' = [tokens EXCEPT ![id].status = s2]
  BY DEF SetStatus, BackoffEnds, Status
<1>2. UNCHANGED <<slots, id_map, alias_map, id_to_alias, free_ids, vec, qlen,
                  map, heads, sel, picked, fault>>
  BY DEF SetStatus, BackoffEnds, queueVars, selVars
<1>3. tokens[id] \in TokenInfo /\ tokens[id] # None
  BY DEF SetStatus, BackoffEnds, Live, IInv, TypeOK
<1>4. [tokens[id] EXCEPT !.status = s2] \in TokenInfo
      /\ [tokens[id] EXCEPT !.status = s2].key = tokens[id].key
  BY <1>3 DEF TokenInfo
<1>5. tokens' \in [0..slots-1 -> TokenInfo \cup {None}]
  BY <1>1, <1>3, <1>4 DEF IInv, TypeOK
<1>6. \A i \in 0..slots-1 : tokens'[i] = IF i = id THEN [tokens[id] EXCEPT !.status = s2]
                                         ELSE tokens[i]
  BY <1>1 DEF IInv, TypeOK
<1>7. \A i \in 0..slots-1 : /\ tokens'[i] = None <=> tokens[i] = None
                            /\ tokens[i] # None => tokens'[i].key = tokens[i].key
  BY <1>3, <1>4, <1>6, ConstantsDiffer
<1> QED
  BY <1>2, <1>5, <1>7, SameKeysIInv

\* Renaming a token (TokenManager::set_alias).
LEMMA SetAliasIInv ==
  ASSUME IInv, NEW id \in 0..slots-1, NEW a \in Name \cup {UNNAMED}, SetAlias(id, a)
  PROVE  IInv'
<1>t. slots \in Nat /\ DOMAIN id_to_alias = 0..slots-1
  BY DEF IInv, TypeOK
<1>0. PICK old, new : old = id_to_alias[id] /\ new = GenAlias(a, id)
  OBVIOUS
<1>u. UNCHANGED <<tokens, slots, id_map, free_ids, vec, qlen, map, heads, sel, picked>>
  BY DEF SetAlias, queueVars, selVars
<1>live. Live(id) /\ \A i : Live(i)' <=> Live(i)
  BY <1>u DEF SetAlias, SetAliasOk, Live
<1>new. new \in Alias /\ new \notin DOMAIN alias_map /\ (new \in AutoAlias => new[2] = id)
  BY <1>0, <1>t, ConstantsDiffer DEF SetAlias, SetAliasOk, GenAlias, Alias, AutoAlias
<1>old. old \in DOMAIN alias_map /\ alias_map[old] = id /\ old # None
  <2>1. old \in DOMAIN alias_map /\ alias_map[old] = id
    BY <1>0, <1>live DEF IInv, AliasesExact
  <2> QED
    BY <2>1, ConstantsDiffer DEF IInv, TypeOK
<1>am. /\ DOMAIN alias_map' = (DOMAIN alias_map \ {old}) \cup {new}
       /\ alias_map'[new] = id
       /\ \A x \in DOMAIN alias_map \ {old} : alias_map'[x] = alias_map[x]
  BY <1>0, <1>new DEF SetAlias, Put, Drop
<1>ita. id_to_alias' = [id_to_alias EXCEPT ![id] = new] /\ fault' = FALSE
  BY <1>0, <1>old DEF SetAlias
<1>1. TypeOK'
  <2>1. id_to_alias' \in [0..slots'-1 -> Alias \cup {None}]
    BY <1>ita, <1>new, <1>u DEF IInv, TypeOK
  <2>2. DOMAIN alias_map' \subseteq Alias /\ \A x \in DOMAIN alias_map' : alias_map'[x] \in Nat
    BY <1>am, <1>new, <1>t DEF IInv, TypeOK
  <2> QED
    BY <2>1, <2>2, <1>u, <1>ita DEF IInv, TypeOK
<1>2. AliasesExact'
  <2>1. ASSUME NEW x \in DOMAIN alias_map'
        PROVE  Live(alias_map[x])' /\ id_to_alias'[alias_map'[x]] = x
    <3>1. CASE x = new
      BY <3>1, <1>am, <1>ita, <1>live, <1>t, <1>u DEF Live
    <3>2. CASE x # new
      <4>1. x \in DOMAIN alias_map /\ x # old /\ alias_map'[x] = alias_map[x]
        BY <3>2, <2>1, <1>am
      <4>2. Live(alias_map[x]) /\ id_to_alias[alias_map[x]] = x
        BY <4>1 DEF IInv, AliasesExact
      <4>3. alias_map[x] \in 0..slots-1 /\ alias_map[x] # id
        BY <4>1, <4>2, <1>0 DEF Live
      <4> QED
        BY <4>1, <4>2, <4>3, <1>u, <1>ita, <1>t DEF Live
    <3> QED
      BY <3>1, <3>2
  <2>2. ASSUME NEW i \in 0..slots'-1
        PROVE  IF Live(i)' THEN /\ id_to_alias'[i] \in DOMAIN alias_map'
                                /\ alias_map'[id_to_alias'[i]] = i
               ELSE id_to_alias'[i] = None
    <3>1. CASE i = id
      BY <3>1, <1>am, <1>ita, <1>live, <1>t
    <3>2. CASE i # id
      <4>1. i \in 0..slots-1 /\ id_to_alias'[i] = id_to_alias[i]
        BY <3>2, <1>ita, <1>t, <1>u
      <4>2. IF Live(i) THEN /\ id_to_alias[i] \in DOMAIN alias_map
                            /\ alias_map[id_to_alias[i]] = i
            ELSE id_to_alias[i] = None
        BY <4>1 DEF IInv, AliasesExact
      <4> QED
        BY <4>1, <4>2, <3>2, <1>live, <1>am, <1>old
    <3> QED
      BY <3>1, <3>2
  <2> QED
    BY <2>1, <2>2 DEF AliasesExact
<1>3. IdMapExact' /\ QueueExact' /\ FreeIdsExact' /\ KeysDistinct'
  BY <1>u DEF IInv, IdMapExact, QueueExact, FreeIdsExact, KeysDistinct, Live
<1>4. AutoAliasOwn'
  BY <1>am, <1>new DEF IInv, AutoAliasOwn
<1>5. NoFault' /\ (\A s \in Selector : sel[s] # None => qlen > 0)'
  BY <1>ita, <1>u DEF IInv, NoFault
<1> QED
  BY <1>1, <1>2, <1>3, <1>4, <1>5 DEF IInv

\* A TokenWriter gives a slot a new key (TokenWriter::drop, TokenQueue::set_key).
LEMMA WriteKeyIInv ==
  ASSUME IInv, KeysDistinct', NEW id \in 0..slots-1, NEW new \in Key, WriteKey(id, new)
  PROVE  IInv'
<1>t. /\ slots \in Nat /\ DOMAIN tokens = 0..slots-1
      /\ tokens[id] \in TokenInfo /\ tokens[id] # None
  BY DEF WriteKey, Live, IInv, TypeOK
<1>0. PICK old, info : old = tokens[id].key /\ info = [tokens[id] EXCEPT !.key = new]
  OBVIOUS
<1>info. info \in TokenInfo /\ info.key = new /\ info # None
  BY <1>0, <1>t, ConstantsDiffer DEF TokenInfo
<1>tok. /\ tokens' = [tokens EXCEPT ![id] = info]
        /\ \A i \in 0..slots-1 : tokens'[i] = IF i = id THEN info ELSE tokens[i]
  BY <1>0, <1>t DEF WriteKey
<1>u. UNCHANGED <<slots, alias_map, id_to_alias, free_ids, vec, qlen, heads, sel, picked>>
  BY DEF WriteKey, selVars
<1>ty. tokens' \in [0..slots-1 -> TokenInfo \cup {None}]
  BY <1>tok, <1>info DEF IInv, TypeOK
<1>1. CASE new = old
  <2>1. UNCHANGED <<id_map, map, fault>>
    BY <1>1, <1>0 DEF WriteKey
  <2>2. \A i \in 0..slots-1 : /\ tokens'[i] = None <=> tokens[i] = None
                              /\ tokens[i] # None => tokens'[i].key = tokens[i].key
    BY <1>1, <1>0, <1>t, <1>info, <1>tok
  <2> QED
    BY <2>1, <2>2, <1>u, <1>ty, SameKeysIInv
<1>2. CASE new # old
  <2>live. Live(id) /\ \A i \in 0..slots-1 : Live(i)' <=> Live(i)
    BY <1>t, <1>info, <1>tok, <1>u DEF Live
  <2>1. \A i \in 0..slots-1 : Live(i) => tokens[i].key # new
    BY <1>2, <1>0, <1>t, <1>info, <1>tok, <1>u DEF Live, KeysDistinct
  <2>2. new \notin DOMAIN id_map /\ new \notin DOMAIN map
    BY <2>1 DEF IInv, IdMapExact, QueueExact, Live
  <2>3. /\ old \in DOMAIN id_map /\ id_map[old] = id
        /\ old \in DOMAIN map /\ map[old] \in 0..qlen-1 /\ vec[map[old]] = id
    BY <1>0, <2>live DEF IInv, IdMapExact, QueueExact
  <2>4. fault' = FALSE
    BY <1>2, <1>0, <2>2, <2>3 DEF WriteKey, WriterFaults
  <2>im. /\ DOMAIN id_map' = (DOMAIN id_map \ {old}) \cup {new}
         /\ id_map'[new] = id
         /\ \A x \in DOMAIN id_map \ {old} : id_map'[x] = id_map[x]
    BY <1>2, <1>0, <2>2, <2>3 DEF WriteKey, Rekey, Put, Drop
  <2>qm. /\ DOMAIN map' = (DOMAIN map \ {old}) \cup {new}
         /\ map'[new] = map[old]
         /\ \A x \in DOMAIN map \ {old} : map'[x] = map[x]
    BY <1>2, <1>0, <2>2, <2>3 DEF WriteKey, Rekey, Put, Drop
  <2>5. TypeOK'
    <3>1. DOMAIN id_map' \subseteq Key /\ \A x \in DOMAIN id_map' : id_map'[x] \in Nat
      BY <2>im, <1>t DEF IInv, TypeOK
    <3>2. DOMAIN map' \subseteq Key /\ \A x \in DOMAIN map' : map'[x] \in Nat
      BY <2>qm, <2>3, <1>t DEF IInv, TypeOK
    <3> QED
      BY <3>1, <3>2, <2>4, <1>ty, <1>u DEF IInv, TypeOK
  <2>6. IdMapExact'
    <3>1. ASSUME NEW k \in DOMAIN id_map'
          PROVE  Live(id_map[k])' /\ tokens'[id_map'[k]].key = k
      <4>1. CASE k = new
        BY <4>1, <2>im, <2>live, <1>tok, <1>info DEF Live
      <4>2. CASE k # new
        <5>1. k \in DOMAIN id_map /\ k # old /\ id_map'[k] = id_map[k]
          BY <4>2, <3>1, <2>im
        <5>2. Live(id_map[k]) /\ tokens[id_map[k]].key = k
          BY <5>1 DEF IInv, IdMapExact
        <5>3. id_map[k] \in 0..slots-1 /\ id_map[k] # id
          BY <5>1, <5>2, <1>0 DEF Live
        <5> QED
          BY <5>1, <5>2, <5>3, <2>live, <1>tok
      <4> QED
        BY <4>1, <4>2
    <3>2. ASSUME NEW i \in 0..slots-1, Live(i)'
          PROVE  tokens'[i].key \in DOMAIN id_map' /\ id_map'[tokens'[i].key] = i
      <4>1. CASE i = id
        BY <4>1, <2>im, <1>tok, <1>info
      <4>2. CASE i # id
        <5>1. Live(i) /\ tokens'[i] = tokens[i]
          BY <4>2, <3>2, <2>live, <1>tok
        <5>2. tokens[i].key \in DOMAIN id_map /\ id_map[tokens[i].key] = i
          BY <5>1 DEF IInv, IdMapExact
        <5>3. tokens[i].key # old
          BY <5>2, <4>2, <2>3
        <5> QED
          BY <5>1, <5>2, <5>3, <2>im
      <4> QED
        BY <4>1, <4>2
    <3> QED
      BY <3>1, <3>2, <1>u DEF IdMapExact
  <2>7. AliasesExact'
    <3>1. ASSUME NEW x \in DOMAIN alias_map
          PROVE  Live(alias_map[x])' /\ id_to_alias[alias_map[x]] = x
      BY <2>live, <1>u DEF IInv, AliasesExact, Live
    <3>2. ASSUME NEW i \in 0..slots-1
          PROVE  IF Live(i)' THEN /\ id_to_alias[i] \in DOMAIN alias_map
                                  /\ alias_map[id_to_alias[i]] = i
                 ELSE id_to_alias[i] = None
      BY <2>live DEF IInv, AliasesExact
    <3> QED
      BY <3>1, <3>2, <1>u DEF AliasesExact
  <2>8. QueueExact'
    <3>1. ASSUME NEW x \in 0..qlen-1
          PROVE  /\ Live(vec[x])'
                 /\ tokens'[vec[x]].key \in DOMAIN map'
                 /\ map'[tokens'[vec[x]].key] = x
      <4>1. Live(vec[x]) /\ vec[x] \in 0..slots-1
            /\ tokens[vec[x]].key \in DOMAIN map /\ map[tokens[vec[x]].key] = x
        BY DEF IInv, QueueExact, Live
      <4>2. CASE vec[x] = id
        BY <4>1, <4>2, <2>qm, <2>live, <1>0, <1>tok, <1>info, <1>u
      <4>3. CASE vec[x] # id
        <5>1. tokens[vec[x]].key # old
          BY <4>1, <4>3, <2>3
        <5> QED
          BY <4>1, <4>3, <5>1, <2>qm, <2>live, <1>tok, <1>u
      <4> QED
        BY <4>2, <4>3
    <3>2. ASSUME NEW k \in DOMAIN map'
          PROVE  map'[k] \in 0..qlen-1 /\ tokens'[vec[map'[k]]].key = k
      <4>1. CASE k = new
        BY <4>1, <2>qm, <2>3, <1>tok, <1>info
      <4>2. CASE k # new
        <5>1. k \in DOMAIN map /\ k # old /\ map'[k] = map[k]
          BY <4>2, <3>2, <2>qm
        <5>2. map[k] \in 0..qlen-1 /\ tokens[vec[map[k]]].key = k /\ vec[map[k]] \in 0..slots-1
          BY <5>1 DEF IInv, QueueExact, Live
        <5>3. vec[map[k]] # id
          BY <5>1, <5>2, <1>0
        <5> QED
          BY <5>1, <5>2, <5>3, <1>tok
      <4> QED
        BY <4>1, <4>2
    <3>3. ASSUME NEW i \in 0..slots-1, Live(i)'
          PROVE  tokens'[i].key \in DOMAIN map' /\ vec[map'[tokens'[i].key]] = i
      <4>1. CASE i = id
        BY <4>1, <2>qm, <2>3, <1>tok, <1>info
      <4>2. CASE i # id
        <5>1. Live(i) /\ tokens'[i] = tokens[i]
          BY <4>2, <3>3, <2>live, <1>tok
        <5>2. tokens[i].key \in DOMAIN map /\ vec[map[tokens[i].key]] = i
          BY <5>1 DEF IInv, QueueExact
        <5>3. tokens[i].key # old
          BY <5>2, <4>2, <2>3
        <5> QED
          BY <5>1, <5>2, <5>3, <2>qm
      <4> QED
        BY <4>1, <4>2
    <3> QED
      BY <3>1, <3>2, <3>3, <1>u DEF QueueExact
  <2>9. FreeIdsExact'
    BY <2>live, <1>u DEF IInv, FreeIdsExact
  <2>10. AutoAliasOwn' /\ NoFault' /\ (\A s \in Selector : sel[s] # None => qlen > 0)'
    BY <2>4, <1>u DEF IInv, AutoAliasOwn, NoFault
  <2> QED
    BY <2>5, <2>6, <2>7, <2>8, <2>9, <2>10 DEF IInv
<1> QED
  BY <1>1, <1>2

\* A store that is emptied, between selects, satisfies the invariant.
LEMMA EmptiedIInv ==
  ASSUME IInv, \A s \in Selector : sel[s] = None,
         tokens' = Empty, slots' = 0,
         id_map' = Empty, alias_map' = Empty, id_to_alias' = Empty,
         free_ids' = <<>>, vec' = Empty, qlen' = 0, map' = Empty,
         heads' \in [QueueType -> Nat], UNCHANGED <<sel, picked, fault>>
  PROVE  IInv'
<1>0. /\ DOMAIN tokens' = {} /\ DOMAIN id_map' = {} /\ DOMAIN alias_map' = {}
      /\ DOMAIN id_to_alias' = {} /\ DOMAIN vec' = {} /\ DOMAIN map' = {}
      /\ tokens' = Empty /\ id_to_alias' = Empty /\ vec' = Empty
      /\ slots' = 0 /\ qlen' = 0 /\ free_ids' = <<>>
      /\ UNCHANGED <<sel, picked, fault>>
  BY DEF Empty
<1>e. 0..slots'-1 = {} /\ 0..qlen'-1 = {} /\ DOMAIN free_ids' = {}
  BY <1>0
<1>1. TypeOK'
  <2>1. /\ Empty \in [{} -> TokenInfo \cup {None}]
        /\ Empty \in [{} -> Alias \cup {None}]
        /\ Empty \in [{} -> Nat]
    BY DEF Empty
  <2>2. free_ids' \in Seq(Nat)
    BY <1>0
  <2>3. /\ heads' \in [QueueType -> Nat]
        /\ sel' \in [Selector -> [queue : QueueType, start : Nat] \cup {None}]
        /\ picked' \in [Selector -> Key \cup {None}]
        /\ fault' \in BOOLEAN
    BY <1>0 DEF IInv, TypeOK
  <2> QED
    BY <1>0, <1>e, <2>1, <2>2, <2>3 DEF TypeOK
<1>2. IdMapExact' /\ AliasesExact' /\ AutoAliasOwn' /\ KeysDistinct'
  BY <1>0, <1>e DEF IdMapExact, AliasesExact, AutoAliasOwn, KeysDistinct
<1>3. QueueExact' /\ FreeIdsExact'
  BY <1>0, <1>e DEF QueueExact, FreeIdsExact
<1>4. NoFault' /\ (\A s \in Selector : sel[s] # None => qlen > 0)'
  BY <1>0 DEF IInv, NoFault
<1> QED
  BY <1>1, <1>2, <1>3, <1>4 DEF IInv

\* handle_set_tokens starts from a new manager; the heads stay.
LEMMA ResetIInv ==
  ASSUME IInv, Reset
  PROVE  IInv'
<1>1. \A s \in Selector : sel[s] = None
  BY DEF Reset, Exclusive
<1>2. heads' \in [QueueType -> Nat]
  BY DEF Reset, IInv, TypeOK
<1> QED
  BY <1>1, <1>2, EmptiedIInv DEF Reset, selVars

\* A position that select computes from any head is one of the queue's, and
\* the token there is live.
LEMMA PositionLive ==
  ASSUME IInv, qlen > 0, NEW start \in Nat, NEW i \in Nat
  PROVE  /\ Position(start, i) \in 0..qlen-1
         /\ vec[Position(start, i)] \in 0..slots-1
         /\ tokens[vec[Position(start, i)]] \in TokenInfo
         /\ tokens[vec[Position(start, i)]] # None
<1>0. qlen \in Nat /\ start + i \in Nat
  BY DEF IInv, TypeOK
<1>1. Position(start, i) \in 0..qlen-1
  BY <1>0 DEF Position
<1>2. Live(vec[Position(start, i)])
  BY <1>1 DEF IInv, QueueExact
<1> QED
  BY <1>1, <1>2 DEF Live, IInv, TypeOK

\* A select reads the head and later stores it (TokenQueue::select).
LEMMA SelectIInv ==
  ASSUME IInv, NEW s \in Selector, NEW q \in QueueType,
         SelectLoad(s, q) \/ SelectStore(s)
  PROVE  IInv'
<1>u. UNCHANGED <<tokens, slots, id_map, alias_map, id_to_alias, free_ids, vec, qlen, map>>
  BY DEF SelectLoad, SelectStore, storeVars, queueVars
<1>1. IdMapExact' /\ AliasesExact' /\ QueueExact' /\ FreeIdsExact' /\ AutoAliasOwn'
      /\ KeysDistinct'
  <2>1. \A i : Live(i)' <=> Live(i)
    BY <1>u DEF Live
  <2>2. IdMapExact' /\ AliasesExact'
    BY <2>1, <1>u DEF IInv, IdMapExact, AliasesExact, Live
  <2>3. QueueExact' /\ FreeIdsExact'
    BY <2>1, <1>u DEF IInv, QueueExact, FreeIdsExact, Live
  <2>4. AutoAliasOwn' /\ KeysDistinct'
    BY <1>u DEF IInv, AutoAliasOwn, KeysDistinct
  <2> QED
    BY <2>2, <2>3, <2>4
<1>2. CASE SelectLoad(s, q)
  <2>1. /\ sel' = [sel EXCEPT ![s] = [queue |-> q, start |-> heads[q]]]
        /\ UNCHANGED <<heads, picked, fault>> /\ qlen > 0
    BY <1>2 DEF SelectLoad
  <2>2. [queue |-> q, start |-> heads[q]] \in [queue : QueueType, start : Nat]
    BY DEF IInv, TypeOK
  <2>3. sel' \in [Selector -> [queue : QueueType, start : Nat] \cup {None}]
    BY <2>1, <2>2 DEF IInv, TypeOK
  <2>4. TypeOK'
    BY <2>1, <2>3, <1>u DEF IInv, TypeOK
  <2>5. NoFault' /\ (\A r \in Selector : sel[r] # None => qlen > 0)'
    BY <2>1, <1>u DEF IInv, NoFault
  <2> QED
    BY <1>1, <2>4, <2>5 DEF IInv
<1>3. CASE SelectStore(s)
  <2>0. PICK start \in Nat, w \in QueueType : start = sel[s].start /\ w = sel[s].queue
    BY <1>3 DEF SelectStore, IInv, TypeOK
  <2>q. qlen > 0 /\ qlen \in Nat
    BY <1>3 DEF SelectStore, IInv, TypeOK
  <2>p. \A i \in 0..qlen-1 : /\ Position(start, i) \in 0..qlen-1
                             /\ tokens[vec[Position(start, i)]] \in TokenInfo
                             /\ tokens[vec[Position(start, i)]] # None
    <3> SUFFICES ASSUME NEW i \in 0..qlen-1
                 PROVE  /\ Position(start, i) \in 0..qlen-1
                        /\ tokens[vec[Position(start, i)]] \in TokenInfo
                        /\ tokens[vec[Position(start, i)]] # None
      OBVIOUS
    <3>1. i \in Nat
      BY <2>q
    <3> QED
      BY <3>1, <2>q, PositionLive
  <2>1. fault' = FALSE
    <3>1. \A i \in Scanned(start) : i \in 0..qlen-1
      BY DEF Scanned
    <3>2. fault' = (\E i \in Scanned(start) : tokens[vec[Position(start, i)]] = None)
      BY <1>3, <2>0 DEF SelectStore
    <3> QED
      BY <3>1, <3>2, <2>p
  <2>2. sel' = [sel EXCEPT ![s] = None]
    BY <1>3 DEF SelectStore
  <2>3. heads' \in [QueueType -> Nat] /\ picked' \in [Selector -> Key \cup {None}]
    <3>1. CASE Hits(start) = {}
      <4>1. heads' = [heads EXCEPT ![w] = heads[w]] /\ picked' = [picked EXCEPT ![s] = None]
        BY <1>3, <2>0, <3>1 DEF SelectStore
      <4> QED
        BY <4>1 DEF IInv, TypeOK
    <3>2. CASE Hits(start) # {}
      <4>1. PICK i : i = CHOOSE x \in Hits(start) : TRUE
        OBVIOUS
      <4>2. i \in Hits(start)
        BY <4>1, <3>2
      <4>3. i \in 0..qlen-1
        BY <4>2 DEF Hits, Scanned
      <4>4. PICK pos \in 0..qlen-1 : pos = Position(start, i)
        BY <4>3, <2>p
      <4>5. /\ heads' = [heads EXCEPT ![w] = (pos + 1) % qlen]
            /\ picked' = [picked EXCEPT ![s] = tokens[vec[pos]].key]
        BY <1>3, <2>0, <3>2, <4>1, <4>4 DEF SelectStore, NextHead
      <4>6. (pos + 1) % qlen \in Nat
        BY <2>q, <4>4
      <4>7. tokens[vec[pos]].key \in Key
        BY <2>p, <4>3, <4>4 DEF TokenInfo
      <4> QED
        BY <4>5, <4>6, <4>7 DEF IInv, TypeOK
    <3> QED
      BY <3>1, <3>2
  <2>4. sel' \in [Selector -> [queue : QueueType, start : Nat] \cup {None}]
    BY <2>2 DEF IInv, TypeOK
  <2>5. TypeOK'
    BY <2>1, <2>3, <2>4, <1>u DEF IInv, TypeOK
  <2>6. NoFault' /\ (\A r \in Selector : sel[r] # None => qlen > 0)'
    BY <2>1, <2>2, <1>u DEF IInv, NoFault, TypeOK
  <2> QED
    BY <1>1, <2>5, <2>6 DEF IInv
<1> QED
  BY <1>2, <1>3

\* Every step of a caller that keeps keys distinct preserves the invariant.
LEMMA NextIInv == IInv /\ [Next /\ KeysDistinct']_vars => IInv'
<1> SUFFICES ASSUME IInv, [Next /\ KeysDistinct']_vars PROVE IInv'
  OBVIOUS
<1>1. CASE UNCHANGED vars
  <2>1. UNCHANGED <<tokens, slots, id_map, alias_map, id_to_alias, free_ids, vec, qlen,
                    map, heads, sel, picked, fault>>
    BY <1>1 DEF vars, storeVars, queueVars, selVars
  <2>2. tokens' \in [0..slots-1 -> TokenInfo \cup {None}]
    BY <2>1 DEF IInv, TypeOK
  <2> QED
    BY <2>1, <2>2, SameKeysIInv
<1>2. CASE Next /\ KeysDistinct'
  <2>1. ASSUME NEW k \in Key, NEW st \in Status, NEW a \in Name \cup {UNNAMED}, Add(k, st, a)
        PROVE  IInv'
    BY <1>2, <2>1, AddIInv
  <2>2. ASSUME NEW id \in 0..slots-1, Remove(id)
        PROVE  IInv'
    BY <2>2, RemoveIInv
  <2>3. ASSUME NEW id \in 0..slots-1, NEW a \in Name \cup {UNNAMED}, SetAlias(id, a)
        PROVE  IInv'
    BY <2>3, SetAliasIInv
  <2>4. ASSUME NEW id \in 0..slots-1, NEW k \in Key, WriteKey(id, k)
        PROVE  IInv'
    BY <1>2, <2>4, WriteKeyIInv
  <2>5. ASSUME Reset
        PROVE  IInv'
    BY <2>5, ResetIInv
  <2>6. ASSUME NEW id \in 0..slots-1, NEW st \in Status, SetStatus(id, st) \/ BackoffEnds(id)
        PROVE  IInv'
    BY <2>6, StatusIInv
  <2>7. ASSUME NEW s \in Selector, NEW q \in QueueType, SelectLoad(s, q)
        PROVE  IInv'
    BY <2>7, SelectIInv
  <2>8. ASSUME NEW s \in Selector, SelectStore(s)
        PROVE  IInv'
    <3>1. PICK q \in QueueType : TRUE
      BY <2>8 DEF SelectStore, IInv, TypeOK
    <3> QED
      BY <3>1, <2>8, SelectIInv
  <2>9. "enabled" \in Status
    BY DEF Status
  <2> QED
    BY <1>2, <2>1, <2>2, <2>3, <2>4, <2>5, <2>6, <2>7, <2>8, <2>9 DEF Next
<1> QED
  BY <1>1, <1>2

\* The inductive invariant holds in every reachable state of the store.
THEOREM StoreInvariant == DistinctSpec => []IInv
BY InitIInv, NextIInv, PTL DEF DistinctSpec

\* The variables keep the types of the Rust declarations.
THEOREM TypeCorrect == DistinctSpec => []TypeOK
<1>1. IInv => TypeOK
  BY DEF IInv
<1> QED
  BY <1>1, StoreInvariant, PTL

\* The three indexes, the free list and the queue agree with the slots after
\* any series of add, remove, set_alias, merge, refresh, reset and select.
THEOREM IndexesAgree ==
  DistinctSpec => [](IdMapExact /\ AliasesExact /\ QueueExact /\ FreeIdsExact)
<1>1. IInv => IdMapExact /\ AliasesExact /\ QueueExact /\ FreeIdsExact
  BY DEF IInv
<1> QED
  BY <1>1, StoreInvariant, PTL

\* What the comment above struct TokenManager promises (token.rs, 45 to 49).
THEOREM DocumentedHolds == DistinctSpec => []Documented
<1>1. IInv => Documented
  BY DEF IInv, Documented, IdMapExact, AliasesExact, FreeIdsExact
<1> QED
  BY <1>1, StoreInvariant, PTL

\* No get_unchecked, unwrap_unchecked or assert_unchecked of the store meets a
\* state it is not meant for.
THEOREM MemorySafe == DistinctSpec => []NoFault
<1>1. IInv => NoFault
  BY DEF IInv
<1> QED
  BY <1>1, StoreInvariant, PTL

\* add without a name never returns AliasExists.
THEOREM UnnamedAdd == DistinctSpec => []UnnamedAddSucceeds
<1>1. IInv => UnnamedAddSucceeds
  <2> SUFFICES ASSUME IInv, <<UNNAMED, NextId>> \in DOMAIN alias_map
               PROVE  FALSE
    BY DEF UnnamedAddSucceeds, AddOk, GenAlias
  <2>1. slots \in Nat /\ free_ids \in Seq(Nat)
    BY DEF IInv, TypeOK
  <2>2. NextId \in Nat /\ ~Live(NextId)
    <3>1. CASE free_ids = <<>>
      BY <3>1, <2>1 DEF NextId, Live
    <3>2. CASE free_ids # <<>>
      <4>1. 1 \in DOMAIN free_ids /\ Head(free_ids) = free_ids[1]
        BY <3>2, <2>1
      <4>2. free_ids[1] \in 0..slots-1 /\ ~Live(free_ids[1])
        BY <4>1 DEF IInv, FreeIdsExact
      <4> QED
        BY <3>2, <4>1, <4>2, <2>1 DEF NextId
    <3> QED
      BY <3>1, <3>2
  <2>3. <<UNNAMED, NextId>> \in AutoAlias /\ <<UNNAMED, NextId>>[2] = NextId
    BY <2>2 DEF AutoAlias
  <2>4. alias_map[<<UNNAMED, NextId>>] = NextId
    BY <2>3 DEF IInv, AutoAliasOwn
  <2>5. Live(alias_map[<<UNNAMED, NextId>>])
    BY DEF IInv, AliasesExact
  <2> QED
    BY <2>2, <2>4, <2>5
<1> QED
  BY <1>1, StoreInvariant, PTL

-----------------------------------------------------------------------------
(* Numbers *)

\* A set of natural numbers that is not empty has a least element.
LEMMA LeastElement ==
  ASSUME NEW T \in SUBSET Nat, T # {}
  PROVE  \E x \in T : \A y \in T : x <= y
<1>1. \E x \in T : \A y \in T : ~(<<y, x>> \in OpToRel(<, Nat))
  BY NatLessThanWellFounded, WFMin, Zenon
<1>2. \A y, x \in Nat : y < x => <<y, x>> \in OpToRel(<, Nat)
  BY DEF OpToRel
<1>3. PICK x \in T : \A y \in T : ~(<<y, x>> \in OpToRel(<, Nat))
  BY <1>1
<1>4. \A y \in T : ~(y < x)
  BY <1>2, <1>3
<1>5. \A y \in T : x <= y
  BY <1>4
<1> QED
  BY <1>5

\* A number below the modulus is its own remainder, and the modulus leaves none.
LEMMA SmallRemainder ==
  ASSUME NEW n \in Nat, NEW x \in Nat, n > 0, x <= n
  PROVE  x % n = IF x = n THEN 0 ELSE x
OBVIOUS

\* Counting round from any start meets every position.
LEMMA Round ==
  ASSUME NEW n \in Nat, NEW start \in Nat, NEW p \in 0..n-1, n > 0
  PROVE  \E i \in 0..n-1 : (start + i) % n = p
<1>1. PICK r \in 0..n-1, d \in Nat : r = start % n /\ d = start \div n /\ start = n * d + r
  OBVIOUS
<1>2. CASE r <= p
  <2>1. p - r \in 0..n-1 /\ start + (p - r) = n * d + p
    BY <1>1, <1>2
  <2>2. (n * d + p) % n = p
    OBVIOUS
  <2> QED
    BY <2>1, <2>2
<1>3. CASE ~(r <= p)
  <2>1. p + n - r \in 0..n-1 /\ start + (p + n - r) = n * (d + 1) + p
    BY <1>1, <1>3
  <2>2. (n * (d + 1) + p) % n = p
    OBVIOUS
  <2> QED
    BY <2>1, <2>2
<1> QED
  BY <1>2, <1>3

-----------------------------------------------------------------------------
(* The table that callers see *)

\* The entry of slot id in that table.
Entry(id) == [status |-> tokens[id].status, alias |-> id_to_alias[id]]

\* The vectors never outgrow the bound of Add.
Bounded == slots <= MaxSlots

StoreInv == IInv /\ Bounded

\* The aliases of the abstract table: its generated ones carry a slot's id.
StoreAlias == Name \cup ({UNNAMED} \X (0..MaxSlots-1))

\* The table has one row for each entry of id_map.
LEMMA TableRows ==
  /\ DOMAIN Found = DOMAIN id_map
  /\ \A k \in DOMAIN id_map : Found[k] = Entry(id_map[k])
  /\ Found = [k \in DOMAIN id_map |-> Entry(id_map[k])]
BY DEF Found, Entry

\* The same, after a step.
LEMMA TableRowsNext ==
  Found' = [k \in DOMAIN id_map' |->
              [status |-> tokens'[id_map'[k]].status, alias |-> id_to_alias'[id_map'[k]]]]
BY DEF Found

\* A key of the table stands for a live slot, and a live slot is in the table.
LEMMA RowSlot ==
  ASSUME IInv
  PROVE  /\ \A k \in DOMAIN id_map :
              /\ id_map[k] \in 0..slots-1
              /\ tokens[id_map[k]] \in TokenInfo
              /\ tokens[id_map[k]] # None
              /\ tokens[id_map[k]].key = k
         /\ \A id \in 0..slots-1 : tokens[id] # None =>
              /\ tokens[id].key \in DOMAIN id_map
              /\ tokens[id].key \in Key
              /\ id_map[tokens[id].key] = id
<1>1. IdMapExact /\ TypeOK
  BY DEF IInv
<1>2. ASSUME NEW k \in DOMAIN id_map
      PROVE  /\ id_map[k] \in 0..slots-1
             /\ tokens[id_map[k]] \in TokenInfo
             /\ tokens[id_map[k]] # None
             /\ tokens[id_map[k]].key = k
  <2>1. Live(id_map[k]) /\ tokens[id_map[k]].key = k
    BY <1>1 DEF IdMapExact
  <2> QED
    BY <2>1, <1>1 DEF Live, TypeOK
<1>3. ASSUME NEW id \in 0..slots-1, tokens[id] # None
      PROVE  /\ tokens[id].key \in DOMAIN id_map
             /\ tokens[id].key \in Key
             /\ id_map[tokens[id].key] = id
  BY <1>1, <1>3 DEF Live, IdMapExact, TypeOK
<1> QED
  BY <1>2, <1>3

\* The aliases in use in the table are the keys of alias_map.
LEMMA AliasFree ==
  ASSUME IInv, NEW a, a \notin DOMAIN alias_map
  PROVE  a \notin Abstract!InUse
<1> SUFFICES ASSUME NEW k \in DOMAIN id_map, a = Found[k].alias
             PROVE  FALSE
  BY TableRows DEF Abstract!InUse
<1>1. a = id_to_alias[id_map[k]]
  BY TableRows DEF Entry
<1>2. Live(id_map[k]) /\ id_map[k] \in 0..slots-1
  BY RowSlot DEF Live
<1> QED
  BY <1>1, <1>2 DEF IInv, AliasesExact

\* The alias a caller ends up with is one the abstract table knows.
LEMMA AliasKnown ==
  ASSUME NEW a \in Name \cup {UNNAMED}, NEW id \in 0..MaxSlots-1
  PROVE  GenAlias(a, id) \in StoreAlias
BY DEF GenAlias, StoreAlias

\* The empty manager is the empty table.
LEMMA InitRefines == Init => StoreInv /\ Abstract!Init
<1> SUFFICES ASSUME Init PROVE StoreInv /\ Abstract!Init
  OBVIOUS
<1>1. IInv
  BY InitIInv
<1>2. Bounded
  BY MaxSlotsAssumption DEF Init, Bounded
<1>3. DOMAIN id_map = {}
  BY DEF Init, Empty
<1>4. Found = [k \in {} |-> None]
  BY <1>3 DEF Found
<1>5. picked = [s \in Selector |-> None]
  BY DEF Init
<1> QED
  BY <1>1, <1>2, <1>4, <1>5 DEF StoreInv, Abstract!Init

-----------------------------------------------------------------------------
(* Each call is one step of the table, or none *)

\* TokenManager::add puts in a row under a new key and an unused alias.
LEMMA AddRefines ==
  ASSUME StoreInv, KeysDistinct',
         NEW k \in Key, NEW st \in Status, NEW a \in Name \cup {UNNAMED},
         Add(k, st, a)
  PROVE  Abstract!Next /\ Bounded'
<1>0. PICK id, al : id = NextId /\ al = GenAlias(a, id)
  OBVIOUS
<1>i. IInv /\ slots \in Nat /\ free_ids \in Seq(Nat)
  BY DEF StoreInv, IInv, TypeOK
<1>id. /\ id \in 0..MaxSlots-1 /\ slots' <= MaxSlots
       /\ id \in 0..slots'-1
       /\ 0..slots-1 \subseteq 0..slots'-1
       /\ ~Live(id)
  <2>1. CASE free_ids = <<>>
    BY <2>1, <1>0, <1>i, MaxSlotsAssumption DEF Add, NextId, Live
  <2>2. CASE free_ids # <<>>
    <3>1. 1 \in DOMAIN free_ids /\ Head(free_ids) = free_ids[1]
      BY <2>2, <1>i
    <3>2. Head(free_ids) \in 0..slots-1 /\ ~Live(Head(free_ids))
      BY <3>1, <1>i DEF IInv, FreeIdsExact
    <3> QED
      BY <2>2, <3>2, <1>0, <1>i, MaxSlotsAssumption DEF Add, NextId, StoreInv, Bounded
  <2> QED
    BY <2>1, <2>2
<1>add. /\ tokens' = Put(tokens, id, [key |-> k, status |-> st])
        /\ id_to_alias' = Put(id_to_alias, id, al)
        /\ id_map' = Put(id_map, k, id)
        /\ picked' = picked
  BY <1>0 DEF Add, selVars
<1>dom. DOMAIN tokens = 0..slots-1 /\ DOMAIN id_to_alias = 0..slots-1
  BY <1>i DEF IInv, TypeOK
<1>at. /\ tokens'[id] = [key |-> k, status |-> st]
       /\ id_to_alias'[id] = al
       /\ \A i \in 0..slots-1 : i # id =>
            tokens'[i] = tokens[i] /\ id_to_alias'[i] = id_to_alias[i]
  BY <1>dom, <1>add DEF Put
<1>new. k \notin DOMAIN id_map
  <2> SUFFICES ASSUME k \in DOMAIN id_map PROVE FALSE
    OBVIOUS
  <2>1. PICK j : j = id_map[k] /\ j \in 0..slots-1 /\ tokens[j] # None /\ tokens[j].key = k
    BY RowSlot, <1>i
  <2>2. j # id
    BY <2>1, <1>id DEF Live
  <2>3. tokens'[j] = tokens[j] /\ j \in 0..slots'-1
    BY <2>1, <2>2, <1>at, <1>id
  <2>4. tokens'[id] # None
    BY <1>at, ConstantsDiffer DEF TokenInfo
  <2>5. tokens'[id].key = k
    BY <1>at
  <2> QED
    BY <2>1, <2>2, <2>3, <2>4, <2>5, <1>id DEF KeysDistinct
<1>im. /\ DOMAIN id_map' = DOMAIN id_map \cup {k}
       /\ id_map'[k] = id
       /\ \A x \in DOMAIN id_map : id_map'[x] = id_map[x]
  BY <1>new, <1>add DEF Put
<1>old. \A x \in DOMAIN id_map : id_map[x] \in 0..slots-1 /\ id_map[x] # id
  BY RowSlot, <1>i, <1>id DEF Live
<1>row. Found' = [x \in DOMAIN Found \cup {k} |->
                    IF x = k THEN [status |-> st, alias |-> al] ELSE Found[x]]
  <2>1. \A x \in DOMAIN id_map :
          [status |-> tokens'[id_map'[x]].status, alias |-> id_to_alias'[id_map'[x]]] = Found[x]
    BY <1>im, <1>old, <1>at, TableRows DEF Entry
  <2>2. [status |-> tokens'[id_map'[k]].status, alias |-> id_to_alias'[id_map'[k]]]
          = [status |-> st, alias |-> al]
    BY <1>im, <1>at
  <2> QED
    BY <2>1, <2>2, <1>im, <1>new, TableRows, TableRowsNext
<1>al. al \in StoreAlias /\ al \notin Abstract!InUse
  <2>1. al \in StoreAlias
    BY <1>0, <1>id, AliasKnown
  <2>2. al \notin DOMAIN alias_map
    BY <1>0 DEF Add, AddOk
  <2> QED
    BY <2>1, <2>2, <1>i, AliasFree
<1>abs. Abstract!Add(k, st, al)
  BY <1>row, <1>al, <1>new, <1>add, TableRows DEF Abstract!Add
<1> QED
  BY <1>abs, <1>al, <1>id DEF Abstract!Next, StoreAlias, Bounded

\* TokenManager::remove takes the row of the removed token away.
LEMMA RemoveRefines ==
  ASSUME StoreInv, NEW id \in 0..slots-1, Remove(id)
  PROVE  Abstract!Next /\ Bounded'
<1>i. IInv
  BY DEF StoreInv
<1>0. PICK key : key = tokens[id].key
  OBVIOUS
<1>l. tokens[id] # None /\ slots' = slots
  BY DEF Remove, Live
<1>k. key \in DOMAIN id_map /\ id_map[key] = id
  BY <1>0, <1>l, <1>i, RowSlot
<1>rem. /\ tokens' = [tokens EXCEPT ![id] = None]
        /\ id_to_alias' = [id_to_alias EXCEPT ![id] = None]
        /\ id_map' = Drop(id_map, key)
        /\ picked' = picked
  BY <1>0 DEF Remove, selVars
<1>dom. DOMAIN tokens = 0..slots-1 /\ DOMAIN id_to_alias = 0..slots-1
  BY <1>i DEF IInv, TypeOK
<1>at. \A i \in 0..slots-1 : i # id =>
         tokens'[i] = tokens[i] /\ id_to_alias'[i] = id_to_alias[i]
  BY <1>dom, <1>rem
<1>im. /\ DOMAIN id_map' = DOMAIN id_map \ {key}
       /\ \A x \in DOMAIN id_map' : id_map'[x] = id_map[x]
  BY <1>rem DEF Drop
<1>old. \A x \in DOMAIN id_map' : id_map[x] \in 0..slots-1 /\ id_map[x] # id
  BY RowSlot, <1>i, <1>0, <1>im
<1>row. Found' = [x \in DOMAIN Found \ {key} |-> Found[x]]
  <2>1. \A x \in DOMAIN id_map' :
          [status |-> tokens'[id_map'[x]].status, alias |-> id_to_alias'[id_map'[x]]] = Found[x]
    BY <1>im, <1>old, <1>at, TableRows DEF Entry
  <2> QED
    BY <2>1, <1>im, TableRows, TableRowsNext
<1>abs. Abstract!Remove(key)
  BY <1>row, <1>rem DEF Abstract!Remove
<1> QED
  BY <1>abs, <1>k, <1>l, TableRows DEF Abstract!Next, StoreInv, Bounded

\* TokenManager::set_alias changes the alias of one row to an unused one.
LEMMA SetAliasRefines ==
  ASSUME StoreInv, NEW id \in 0..slots-1, NEW a \in Name \cup {UNNAMED}, SetAlias(id, a)
  PROVE  Abstract!Next /\ Bounded'
<1>i. IInv /\ slots \in Nat
  BY DEF StoreInv, IInv, TypeOK
<1>0. PICK key, al : key = tokens[id].key /\ al = GenAlias(a, id)
  OBVIOUS
<1>l. tokens[id] # None /\ slots' = slots
  BY DEF SetAlias, SetAliasOk, Live
<1>k. key \in DOMAIN id_map /\ id_map[key] = id
  BY <1>0, <1>l, <1>i, RowSlot
<1>set. /\ tokens' = tokens /\ id_map' = id_map
        /\ id_to_alias' = [id_to_alias EXCEPT ![id] = al]
        /\ picked' = picked
  BY <1>0 DEF SetAlias, selVars
<1>dom. DOMAIN id_to_alias = 0..slots-1
  BY <1>i DEF IInv, TypeOK
<1>at. /\ id_to_alias'[id] = al
       /\ \A i \in 0..slots-1 : i # id => id_to_alias'[i] = id_to_alias[i]
  BY <1>dom, <1>set
<1>old. \A x \in DOMAIN id_map : x # key => id_map[x] \in 0..slots-1 /\ id_map[x] # id
  BY RowSlot, <1>i, <1>0
<1>row. Found' = [Found EXCEPT ![key].alias = al]
  <2>1. \A x \in DOMAIN id_map : x # key =>
          [status |-> tokens'[id_map'[x]].status, alias |-> id_to_alias'[id_map'[x]]] = Found[x]
    BY <1>set, <1>old, <1>at, TableRows DEF Entry
  <2>2. [status |-> tokens'[id_map'[key]].status, alias |-> id_to_alias'[id_map'[key]]]
          = [Found[key] EXCEPT !.alias = al]
    BY <1>k, <1>at, <1>set, TableRows DEF Entry
  <2>3. Found' = [x \in DOMAIN Found |->
                    IF x = key THEN [Found[key] EXCEPT !.alias = al] ELSE Found[x]]
    BY <2>1, <2>2, <1>set, TableRows, TableRowsNext
  <2> QED
    BY <2>3
<1>al. al \in StoreAlias /\ al \notin Abstract!InUse
  <2>1. id \in 0..MaxSlots-1
    BY <1>i, MaxSlotsAssumption DEF StoreInv, Bounded
  <2>2. al \notin DOMAIN alias_map
    BY <1>0 DEF SetAlias, SetAliasOk
  <2> QED
    BY <2>1, <2>2, <1>0, <1>i, AliasFree, AliasKnown
<1>abs. Abstract!Rename(key, al)
  BY <1>row, <1>al, <1>set DEF Abstract!Rename
<1> QED
  BY <1>abs, <1>al, <1>k, <1>l, TableRows DEF Abstract!Next, StoreAlias, StoreInv, Bounded

\* A writer that leaves another key behind moves one row to that key
\* (handle_merge_tokens, handle_refresh_tokens).
LEMMA WriteKeyRefines ==
  ASSUME StoreInv, KeysDistinct', NEW id \in 0..slots-1, NEW new \in Key, WriteKey(id, new)
  PROVE  (Abstract!Next \/ UNCHANGED <<Found, picked>>) /\ Bounded'
<1>i. IInv
  BY DEF StoreInv
<1>0. PICK old : old = tokens[id].key
  OBVIOUS
<1>l. tokens[id] # None /\ tokens[id] \in TokenInfo /\ slots' = slots
  BY <1>i DEF WriteKey, Live, IInv, TypeOK
<1>k. old \in DOMAIN id_map /\ id_map[old] = id
  BY <1>0, <1>l, <1>i, RowSlot
<1>w. /\ tokens' = [tokens EXCEPT ![id].key = new]
      /\ id_to_alias' = id_to_alias /\ picked' = picked
  BY DEF WriteKey, selVars
<1>dom. DOMAIN tokens = 0..slots-1
  BY <1>i DEF IInv, TypeOK
<1>at. /\ tokens'[id].status = tokens[id].status
       /\ \A i \in 0..slots-1 : i # id => tokens'[i] = tokens[i]
  BY <1>dom, <1>w, <1>l DEF TokenInfo
<1>st. \A i \in 0..slots-1 : tokens'[i].status = tokens[i].status
  BY <1>at
<1>sl. \A x \in DOMAIN id_map : id_map[x] \in 0..slots-1
  BY <1>i, RowSlot
<1>b. Bounded'
  BY <1>l DEF StoreInv, Bounded
<1>1. CASE new = old
  <2>1. id_map' = id_map
    BY <1>1, <1>0 DEF WriteKey
  <2>2. \A x \in DOMAIN id_map :
          [status |-> tokens'[id_map'[x]].status, alias |-> id_to_alias'[id_map'[x]]] = Found[x]
    BY <2>1, <1>st, <1>sl, <1>w, TableRows DEF Entry
  <2>3. Found' = Found
    BY <2>1, <2>2, TableRows, TableRowsNext
  <2> QED
    BY <2>3, <1>w, <1>b
<1>2. CASE new # old
  <2>1. id_map' = Put(Drop(id_map, old), new, id)
    BY <1>2, <1>0, <1>k DEF WriteKey, Rekey
  <2>2. new \notin DOMAIN id_map
    <3> SUFFICES ASSUME new \in DOMAIN id_map PROVE FALSE
      OBVIOUS
    <3>1. PICK j : j = id_map[new] /\ j \in 0..slots-1 /\ tokens[j] # None /\ tokens[j].key = new
      BY RowSlot, <1>i
    <3>2. j # id
      BY <3>1, <1>2, <1>0
    <3>3. tokens'[j] = tokens[j]
      BY <3>1, <3>2, <1>at
    <3>4. tokens'[id].key = new /\ tokens'[id] \in TokenInfo
      BY <1>dom, <1>w, <1>l DEF TokenInfo
    <3>5. tokens'[id] # None
      BY <3>4, ConstantsDiffer
    <3> QED
      BY <3>1, <3>2, <3>3, <3>4, <3>5, <1>l DEF KeysDistinct
  <2>3. /\ DOMAIN id_map' = (DOMAIN id_map \ {old}) \cup {new}
        /\ id_map'[new] = id
        /\ \A x \in DOMAIN id_map \ {old} : id_map'[x] = id_map[x]
    BY <2>1, <2>2 DEF Put, Drop
  <2>4. \A x \in DOMAIN id_map \ {old} :
          [status |-> tokens'[id_map'[x]].status, alias |-> id_to_alias'[id_map'[x]]] = Found[x]
    BY <2>3, <1>st, <1>sl, <1>w, TableRows DEF Entry
  <2>5. [status |-> tokens'[id_map'[new]].status, alias |-> id_to_alias'[id_map'[new]]]
          = Found[old]
    BY <2>3, <1>k, <1>st, <1>w, TableRows DEF Entry
  <2>6. Found' = [x \in (DOMAIN Found \ {old}) \cup {new} |->
                    IF x = new THEN Found[old] ELSE Found[x]]
    BY <2>2, <2>3, <2>4, <2>5, TableRows, TableRowsNext
  <2>7. Abstract!Rekey(old, new)
    BY <2>6, <2>2, <1>w, TableRows DEF Abstract!Rekey
  <2> QED
    BY <2>7, <1>k, <1>b, TableRows DEF Abstract!Next
<1> QED
  BY <1>1, <1>2

\* A status change touches one row, be it asked for or the end of a back-off.
LEMMA StatusRefines ==
  ASSUME StoreInv, NEW id \in 0..slots-1, NEW st \in Status,
         SetStatus(id, st) \/ (BackoffEnds(id) /\ st = "enabled")
  PROVE  Abstract!Next /\ Bounded'
<1>i. IInv
  BY DEF StoreInv
<1>0. PICK key : key = tokens[id].key
  OBVIOUS
<1>l. tokens[id] # None /\ tokens[id] \in TokenInfo /\ slots' = slots
  BY <1>i DEF SetStatus, BackoffEnds, Live, IInv, TypeOK
<1>k. key \in DOMAIN id_map /\ id_map[key] = id
  BY <1>0, <1>l, <1>i, RowSlot
<1>set. /\ tokens' = [tokens EXCEPT ![id].status = st]
        /\ id_map' = id_map /\ id_to_alias' = id_to_alias /\ picked' = picked
  BY DEF SetStatus, BackoffEnds, selVars
<1>dom. DOMAIN tokens = 0..slots-1
  BY <1>i DEF IInv, TypeOK
<1>at. /\ tokens'[id].status = st
       /\ \A i \in 0..slots-1 : i # id => tokens'[i] = tokens[i]
  BY <1>dom, <1>set, <1>l DEF TokenInfo
<1>old. \A x \in DOMAIN id_map : x # key => id_map[x] \in 0..slots-1 /\ id_map[x] # id
  BY RowSlot, <1>i, <1>0
<1>row. Found' = [Found EXCEPT ![key].status = st]
  <2>1. \A x \in DOMAIN id_map : x # key =>
          [status |-> tokens'[id_map'[x]].status, alias |-> id_to_alias'[id_map'[x]]] = Found[x]
    BY <1>set, <1>old, <1>at, TableRows DEF Entry
  <2>2. [status |-> tokens'[id_map'[key]].status, alias |-> id_to_alias'[id_map'[key]]]
          = [Found[key] EXCEPT !.status = st]
    BY <1>k, <1>at, <1>set, TableRows DEF Entry
  <2>3. Found' = [x \in DOMAIN Found |->
                    IF x = key THEN [Found[key] EXCEPT !.status = st] ELSE Found[x]]
    BY <2>1, <2>2, <1>set, TableRows, TableRowsNext
  <2> QED
    BY <2>3
<1>abs. Abstract!SetStatus(key, st)
  BY <1>row, <1>set DEF Abstract!SetStatus
<1> QED
  BY <1>abs, <1>k, <1>l, TableRows DEF Abstract!Next, StoreInv, Bounded

\* A new manager is an empty table (handle_set_tokens).
LEMMA ResetRefines ==
  ASSUME StoreInv, Reset
  PROVE  Abstract!Next /\ Bounded'
<1>1. DOMAIN id_map' = {} /\ picked' = picked /\ slots' = 0
  BY DEF Reset, Empty, selVars
<1>2. Found' = [k \in {} |-> None]
  BY <1>1 DEF Found
<1>3. Abstract!Clear
  BY <1>1, <1>2 DEF Abstract!Clear
<1> QED
  BY <1>1, <1>3, MaxSlotsAssumption DEF Abstract!Next, Bounded

\* When the scan finds no usable token there is none: it has been all round.
LEMMA ScanMissesNone ==
  ASSUME IInv, qlen > 0, NEW start \in Nat, Hits(start) = {}
  PROVE  Abstract!Usable = {}
<1>q. qlen \in Nat
  BY DEF IInv, TypeOK
<1> SUFFICES ASSUME NEW k \in DOMAIN id_map, Found[k].status = "enabled"
             PROVE  FALSE
  BY TableRows DEF Abstract!Usable
<1>1. PICK id \in 0..slots-1 : id = id_map[k] /\ tokens[id] # None /\ tokens[id].status = "enabled"
  BY RowSlot, TableRows DEF Entry
<1>2. PICK p \in 0..qlen-1 : vec[p] = id
  BY <1>1 DEF IInv, QueueExact, Live
<1>3. \E i \in 0..qlen-1 : Position(start, i) = p
  BY <1>q, Round DEF Position
<1> DEFINE T == {i \in 0..qlen-1 : Usable(vec[Position(start, i)])}
<1>4. T \in SUBSET Nat /\ T # {}
  BY <1>1, <1>2, <1>3 DEF Usable
<1>5. PICK m \in T : \A y \in T : m <= y
  BY <1>4, LeastElement
<1>6. m \in 0..qlen-1 /\ Usable(vec[Position(start, m)])
  OBVIOUS
<1>7. ASSUME NEW j \in 0..m-1 PROVE ~Usable(vec[Position(start, j)])
  <2>1. j \in 0..qlen-1 /\ ~(m <= j)
    BY <1>6, <1>q
  <2> QED
    BY <2>1, <1>5
<1>8. m \in Hits(start)
  BY <1>6, <1>7 DEF Hits, Scanned
<1> QED
  BY <1>8

\* TokenQueue::select gives a usable token, or none when there is none.
LEMMA SelectRefines ==
  ASSUME StoreInv, NEW s \in Selector, SelectStore(s)
  PROVE  Abstract!Next /\ Bounded'
<1>i. IInv /\ qlen > 0
  BY DEF StoreInv, IInv, SelectStore
<1>0. PICK start \in Nat : start = sel[s].start
  BY <1>i DEF IInv, TypeOK, SelectStore
<1>u. UNCHANGED <<tokens, slots, id_map, id_to_alias>>
  BY DEF SelectStore, storeVars
<1>row. Found' = Found
  BY <1>u DEF Found
<1>b. Bounded'
  BY <1>u DEF StoreInv, Bounded
<1>1. CASE Hits(start) = {}
  <2>1. picked' = [picked EXCEPT ![s] = None]
    BY <1>0, <1>1 DEF SelectStore
  <2>2. Abstract!Usable = {}
    BY <1>i, <1>1, ScanMissesNone
  <2>3. Abstract!Give(s)
    BY <2>1, <2>2, <1>row DEF Abstract!Give
  <2> QED
    BY <2>3, <1>b DEF Abstract!Next
<1>2. CASE Hits(start) # {}
  <2>1. PICK i : i = CHOOSE x \in Hits(start) : TRUE
    OBVIOUS
  <2>2. i \in Hits(start)
    BY <2>1, <1>2
  <2>3. i \in 0..qlen-1 /\ Usable(vec[Position(start, i)])
    BY <2>2 DEF Hits, Scanned
  <2>n. i \in Nat
    BY <2>3, <1>i DEF IInv, TypeOK
  <2>4. PICK id : id = vec[Position(start, i)] /\ id \in 0..slots-1
    BY <2>n, <1>i, PositionLive
  <2>5. tokens[id] # None /\ tokens[id].status = "enabled"
    BY <2>3, <2>4 DEF Usable
  <2>6. tokens[id].key \in DOMAIN id_map /\ id_map[tokens[id].key] = id
    BY <2>4, <2>5, <1>i, RowSlot
  <2>7. tokens[id].key \in Abstract!Usable
    BY <2>5, <2>6, TableRows DEF Abstract!Usable, Entry
  <2>8. picked' = [picked EXCEPT ![s] = tokens[id].key]
    BY <1>0, <1>2, <2>1, <2>4 DEF SelectStore
  <2>9. Abstract!Give(s)
    BY <2>7, <2>8, <1>row DEF Abstract!Give
  <2> QED
    BY <2>9, <1>b DEF Abstract!Next
<1> QED
  BY <1>1, <1>2

-----------------------------------------------------------------------------
(* The results *)

\* The invariant holds after every step, and the step is one of the table.
LEMMA StepRefines ==
  StoreInv /\ [Next /\ KeysDistinct']_vars => StoreInv' /\ [Abstract!Next]_<<Found, picked>>
<1> SUFFICES ASSUME StoreInv, [Next /\ KeysDistinct']_vars
             PROVE  StoreInv' /\ [Abstract!Next]_<<Found, picked>>
  OBVIOUS
<1>0. IInv'
  BY NextIInv DEF StoreInv
<1> SUFFICES Bounded' /\ (Abstract!Next \/ UNCHANGED <<Found, picked>>)
  BY <1>0 DEF StoreInv
<1>1. CASE UNCHANGED vars
  <2>1. UNCHANGED <<tokens, slots, id_map, id_to_alias, picked>>
    BY <1>1 DEF vars, storeVars, selVars
  <2> QED
    BY <2>1 DEF StoreInv, Bounded, Found
<1>2. ASSUME NEW k \in Key, NEW st \in Status, NEW a \in Name \cup {UNNAMED},
             Add(k, st, a), KeysDistinct'
      PROVE  Bounded' /\ Abstract!Next
  BY <1>2, AddRefines
<1>3. ASSUME NEW id \in 0..slots-1, Remove(id) PROVE Bounded' /\ Abstract!Next
  BY <1>3, RemoveRefines
<1>4. ASSUME NEW id \in 0..slots-1, NEW a \in Name \cup {UNNAMED}, SetAlias(id, a)
      PROVE  Bounded' /\ Abstract!Next
  BY <1>4, SetAliasRefines
<1>5. ASSUME NEW id \in 0..slots-1, NEW k \in Key, WriteKey(id, k), KeysDistinct'
      PROVE  Bounded' /\ (Abstract!Next \/ UNCHANGED <<Found, picked>>)
  BY <1>5, WriteKeyRefines
<1>6. CASE Reset
  BY <1>6, ResetRefines
<1>7. ASSUME NEW id \in 0..slots-1, NEW st \in Status, SetStatus(id, st)
      PROVE  Bounded' /\ Abstract!Next
  BY <1>7, StatusRefines
<1>8. ASSUME NEW id \in 0..slots-1, BackoffEnds(id) PROVE Bounded' /\ Abstract!Next
  <2>1. "enabled" \in Status
    BY DEF Status
  <2> QED
    BY <2>1, <1>8, StatusRefines
<1>9. ASSUME NEW s \in Selector, NEW q \in QueueType, SelectLoad(s, q)
      PROVE  Bounded' /\ UNCHANGED <<Found, picked>>
  <2>1. UNCHANGED <<tokens, slots, id_map, id_to_alias, picked>>
    BY <1>9 DEF SelectLoad, storeVars
  <2> QED
    BY <2>1 DEF StoreInv, Bounded, Found
<1>10. ASSUME NEW s \in Selector, SelectStore(s) PROVE Bounded' /\ Abstract!Next
  BY <1>10, SelectRefines
<1>11. CASE Next /\ KeysDistinct'
  BY <1>2, <1>3, <1>4, <1>5, <1>6, <1>7, <1>8, <1>9, <1>10, <1>11 DEF Next
<1> QED
  BY <1>1, <1>11

\* For callers that never store a key twice the token manager implements the
\* table: slots that are reused, three indexes, the free list, the queue and
\* the selects that race for its head show nothing but whole calls.
THEOREM StoreImplemented == DistinctSpec => ImplementsStore
<1>1. Abstract!Spec <=> Abstract!Init /\ [][Abstract!Next]_<<Found, picked>>
  BY DEF Abstract!Spec, Abstract!vars
<1> QED
  BY <1>1, InitRefines, StepRefines, PTL DEF DistinctSpec, ImplementsStore

\* A removal leaves the next token of a queue next (TokenQueue::remove).
LEMMA RemovalPlace ==
  ASSUME IInv, NEW id \in 0..slots-1, Remove(id), qlen' > 0,
         NEW q \in QueueType, heads[q] <= qlen
  PROVE  PlaceKept(q)
<1>t. /\ slots \in Nat /\ qlen \in Nat /\ heads[q] \in Nat /\ heads \in [QueueType -> Nat]
      /\ DOMAIN tokens = 0..slots-1 /\ vec \in [0..qlen-1 -> Nat]
  BY DEF IInv, TypeOK
<1>0. PICK key : key = tokens[id].key
  OBVIOUS
<1>tok. tokens' = [tokens EXCEPT ![id] = None]
  BY DEF Remove
<1>v. PICK v \in 0..qlen-1 : key \in DOMAIN map /\ v = map[key] /\ vec[v] = id
  BY <1>0 DEF Remove, IInv, QueueExact
<1>vec. qlen' = qlen - 1 /\ vec' = VecRemove(v) /\ heads' = AdjustHeads(v)
  BY <1>0, <1>v DEF Remove, QueueRemove
<1>vr. \A x \in 0..qlen-2 : vec'[x] = IF x < v THEN vec[x] ELSE vec[x + 1]
  BY <1>vec, <1>t DEF VecRemove
<1>h. heads'[q] = IF heads[q] > v THEN heads[q] - 1 ELSE heads[q]
  BY <1>vec DEF AdjustHeads
<1>only. \A x \in 0..qlen-1 : tokens'[vec[x]] = None <=> x = v
  <2> SUFFICES ASSUME NEW x \in 0..qlen-1
               PROVE  tokens'[vec[x]] = None <=> x = v
    OBVIOUS
  <2>1. tokens'[id] = None /\ (vec[x] # id => tokens'[vec[x]] = tokens[vec[x]])
    BY <1>tok, <1>t DEF IInv, QueueExact, Live
  <2>2. Live(vec[x]) /\ map[tokens[vec[x]].key] = x
    BY DEF IInv, QueueExact
  <2>3. tokens[vec[x]] # None
    BY <2>2 DEF Live
  <2> QED
    BY <2>1, <2>2, <2>3, <1>v, <1>0
<1>gone. (CHOOSE x \in 0..qlen-1 : tokens'[vec[x]] = None) = v
  BY <1>only
<1>big. qlen > 1
  BY <1>t, <1>vec
<1>n. PICK n \in Nat, h \in Nat : /\ n = qlen /\ h = heads[q] /\ n > 1 /\ h <= n
                                 /\ v \in 0..n-1
  BY <1>t, <1>big
<1>next. h % n = IF h = n THEN 0 ELSE h
  BY <1>n, SmallRemainder
<1>up. NextUp(q)' = vec'[heads'[q] % qlen']
  BY DEF NextUp
<1>k. PICK g \in Nat : g = heads'[q] /\ g <= n - 1 /\ g = (IF h > v THEN h - 1 ELSE h)
  BY <1>n, <1>h
<1>m. g % (n - 1) = IF g = n - 1 THEN 0 ELSE g
  <2>1. n - 1 \in Nat /\ n - 1 > 0
    BY <1>n
  <2> QED
    BY <2>1, <1>k, SmallRemainder
<1>new. NextUp(q)' = vec'[IF g = n - 1 THEN 0 ELSE g]
  BY <1>up, <1>k, <1>m, <1>n, <1>vec
<1>want. PlaceKept(q) <=>
           NextUp(q)' = IF (h % n) = v THEN vec[((h % n) + 1) % n] ELSE vec[h % n]
  BY <1>gone, <1>n DEF PlaceKept
<1>vn. \A x \in 0..n-2 : vec'[x] = IF x < v THEN vec[x] ELSE vec[x + 1]
  BY <1>vr, <1>n
<1>1. CASE h = n
  <2>1. h % n = 0 /\ NextUp(q)' = vec'[0]
    BY <1>1, <1>next, <1>new, <1>k, <1>n
  <2>2. 1 % n = 1
    BY <1>n, SmallRemainder
  <2>3. vec'[0] = IF 0 < v THEN vec[0] ELSE vec[1]
    BY <1>vn, <1>n
  <2> QED
    BY <2>1, <2>2, <2>3, <1>want, <1>n
<1>2. CASE h < n /\ h = v
  <2>1. h % n = h /\ g = h
    BY <1>2, <1>next, <1>k, <1>n
  <2>2. (h + 1) % n = IF h + 1 = n THEN 0 ELSE h + 1
    BY <1>2, <1>n, SmallRemainder
  <2>3. CASE h + 1 = n
    <3>0. g = n - 1
      BY <2>1, <2>3, <1>n
    <3>1. NextUp(q)' = vec'[0] /\ (h + 1) % n = 0
      BY <2>2, <2>3, <3>0, <1>new
    <3>2. vec'[0] = vec[0]
      BY <2>3, <1>2, <1>vn, <1>n
    <3> QED
      BY <3>1, <3>2, <2>1, <1>2, <1>want
  <2>4. CASE h + 1 # n
    <3>0. g # n - 1
      BY <2>1, <2>4, <1>n
    <3>1. NextUp(q)' = vec'[h] /\ (h + 1) % n = h + 1
      BY <2>1, <2>2, <2>4, <3>0, <1>new
    <3>2. vec'[h] = vec[h + 1]
      BY <2>4, <1>2, <1>vn, <1>n
    <3> QED
      BY <3>1, <3>2, <2>1, <1>2, <1>want
  <2> QED
    BY <2>3, <2>4
<1>3. CASE h < n /\ h # v
  <2>1. h % n = h /\ g # n - 1 /\ g \in 0..n-2
    BY <1>3, <1>next, <1>k, <1>n
  <2>2. NextUp(q)' = vec'[g]
    BY <2>1, <1>new
  <2>3. vec'[g] = vec[h]
    BY <2>1, <1>3, <1>vn, <1>k, <1>n
  <2> QED
    BY <2>1, <2>2, <2>3, <1>3, <1>want
<1> QED
  BY <1>1, <1>2, <1>3, <1>n

\* After TokenQueue::remove every queue goes on where it was: with the same
\* token, or with its successor when that token is the one removed.
THEOREM PlaceSurvivesRemoval == DistinctSpec => RemoveKeepsPlace
<1>1. IInv /\ [Next /\ KeysDistinct']_vars
        => [Removal => \A q \in QueueType : heads[q] <= qlen => PlaceKept(q)]_vars
  <2> SUFFICES ASSUME IInv, Next, Removal,
                      NEW q \in QueueType, heads[q] <= qlen
               PROVE  PlaceKept(q)
    BY DEF vars
  <2>0. qlen \in Nat /\ qlen' = qlen - 1 /\ qlen' > 0
    BY DEF IInv, TypeOK, Removal
  <2>1. \A k \in Key, st \in Status, a \in Name \cup {UNNAMED} : ~Add(k, st, a)
    BY <2>0 DEF Add, QueuePush
  <2>2. \A id \in 0..slots-1, a \in Name \cup {UNNAMED} : ~SetAlias(id, a)
    BY <2>0 DEF SetAlias, queueVars
  <2>3. \A id \in 0..slots-1, k \in Key : ~WriteKey(id, k)
    BY <2>0 DEF WriteKey
  <2>4. ~Reset
    BY <2>0 DEF Reset
  <2>5. /\ \A id \in 0..slots-1, st \in Status : ~SetStatus(id, st)
        /\ \A id \in 0..slots-1 : ~BackoffEnds(id)
    BY <2>0 DEF SetStatus, BackoffEnds, queueVars
  <2>6. /\ \A s \in Selector, c \in QueueType : ~SelectLoad(s, c)
        /\ \A s \in Selector : ~SelectStore(s)
    <3>1. \A s \in Selector, c \in QueueType : SelectLoad(s, c) => qlen' = qlen
      BY DEF SelectLoad, queueVars
    <3>2. \A s \in Selector : SelectStore(s) => qlen' = qlen
      BY Zenon DEF SelectStore, queueVars
    <3> QED
      BY <3>1, <3>2, <2>0
  <2>7. PICK id \in 0..slots-1 : Remove(id)
    BY <2>1, <2>2, <2>3, <2>4, <2>5, <2>6 DEF Next
  <2> QED
    BY <2>0, <2>7, RemovalPlace
<1> QED
  BY <1>1, StoreInvariant, PTL DEF DistinctSpec, RemoveKeepsPlace
=============================================================================
