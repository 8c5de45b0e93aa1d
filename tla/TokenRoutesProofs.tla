-------------------------- MODULE TokenRoutesProofs --------------------------
(***************************************************************************)
(* The token file follows the store through any series of requests, lost   *)
(* clients, failed saves, crashes and restarts, and what a save has        *)
(* written is loaded again whole, for any number of tokens and names.      *)
(***************************************************************************)
EXTENDS TokenRoutes, TokenManagerProofs, FiniteSetTheorems

Record == [pos : Nat, alias : Alias, info : TokenInfo]

\* The records of a whole file are numbered from 0 on, and no two of them
\* have the same number or the same alias.
Loadable(recs) ==
  /\ IsFiniteSet(recs)
  /\ recs \subseteq Record
  /\ \A e \in recs : e.pos \in 0..Cardinality(recs)-1
  /\ \A e, f \in recs : e.pos = f.pos \/ e.alias = f.alias => e = f

DiskOK ==
  \/ disk = Absent
  \/ disk = Torn
  \/ disk = Whole(disk.recs) /\ Loadable(disk.recs)

\* A load has got so far: slot id has the token of record id.
LoadedSoFar ==
  /\ disk = Whole(disk.recs)
  /\ free_ids = <<>> /\ slots = qlen
  /\ \A id \in 0..slots-1 :
       /\ tokens[id] # None
       /\ \E e \in disk.recs : /\ e.pos = id
                               /\ e.info = tokens[id]
                               /\ AsRequested(e.alias) = AsRequested(id_to_alias[id])

\* The holder of the lock has changed nothing that is to be saved.
Clean(l) == l = None \/ (l.phase \in {"batch", "net"} /\ ~l.updated /\ l.op # "set")

\* Outside "up" nobody is at work, and a process that has not begun to load
\* has an empty store.
Idle ==
  /\ run # "up" => lock = None /\ detached = {}
  /\ run = "down" => slots = 0 /\ qlen = 0 /\ free_ids = <<>>

FileFollows ==
  run = "up" /\ ~behind /\ Clean(lock) =>
    Contents(disk.recs, renamed) = Contents(Image, renamed)

LockOK ==
  /\ lock = None \/ lock \in Holder
  /\ lock # None /\ lock.phase = "net" => lock.op \in Remote

RouteInv ==
  /\ IInv /\ \A s \in Selector : sel[s] = None
  /\ LockOK /\ DiskOK /\ Idle
  /\ behind \in BOOLEAN /\ renamed \subseteq Nat /\ detached \subseteq {"open", "len"}
  /\ run \in Run \ {"refused"} /\ stop \in Stop
  /\ run = "loading" => LoadedSoFar
  /\ FileFollows

-----------------------------------------------------------------------------
(* What a save writes *)

\* The record of slot id.
Rec(id) == [pos |-> Rank(id), alias |-> id_to_alias[id], info |-> tokens[id]]

\* The records depend on the slots and their aliases only.
LEMMA ImageKept ==
  ASSUME UNCHANGED <<tokens, slots, id_to_alias>>
  PROVE  Image' = Image
<1>1. LiveIds' = LiveIds
  BY DEF LiveIds, Live
<1>2. \A id : Rank(id)' = Rank(id)
  BY <1>1 DEF Rank
<1> QED
  BY <1>1, <1>2 DEF Image

\* Live slots are finitely many, and each has a token and an alias.
LEMMA LiveSlots ==
  ASSUME IInv
  PROVE  /\ IsFiniteSet(LiveIds) /\ Cardinality(LiveIds) \in Nat
         /\ \A id \in LiveIds : /\ id \in 0..slots-1 /\ id \in Nat
                                /\ tokens[id] \in TokenInfo /\ tokens[id] # None
                                /\ id_to_alias[id] \in Alias
                                /\ id_to_alias[id] \in DOMAIN alias_map
                                /\ alias_map[id_to_alias[id]] = id
<1>t. TypeOK /\ slots \in Nat
  BY DEF IInv, TypeOK
<1>1. LiveIds \in SUBSET (0..slots-1)
  BY DEF LiveIds
<1>2. IsFiniteSet(0..slots-1)
  BY <1>t, FS_Interval
<1>3. IsFiniteSet(LiveIds) /\ Cardinality(LiveIds) \in Nat
  BY <1>1, <1>2, FS_Subset, FS_CardinalityType
<1>4. ASSUME NEW id \in LiveIds
      PROVE  /\ id \in 0..slots-1 /\ id \in Nat
             /\ tokens[id] \in TokenInfo /\ tokens[id] # None
             /\ id_to_alias[id] \in Alias
             /\ id_to_alias[id] \in DOMAIN alias_map
             /\ alias_map[id_to_alias[id]] = id
  <2>1. id \in 0..slots-1 /\ Live(id)
    BY DEF LiveIds
  <2>2. id \in Nat
    BY <2>1, <1>t
  <2>3. tokens[id] \in TokenInfo /\ tokens[id] # None
    BY <2>1, <1>t DEF Live, TypeOK
  <2>4. id_to_alias[id] \in DOMAIN alias_map /\ alias_map[id_to_alias[id]] = id
    BY <2>1 DEF IInv, AliasesExact
  <2> QED
    BY <2>1, <2>2, <2>3, <2>4, <1>t DEF TypeOK
<1> QED
  BY <1>3, <1>4

\* The rank of a live slot is below the number of live slots, and a later slot
\* has a higher one.
LEMMA Ranks ==
  ASSUME IInv
  PROVE  /\ \A id \in LiveIds : Rank(id) \in 0..Cardinality(LiveIds)-1
         /\ \A i, j \in LiveIds : i < j => Rank(i) < Rank(j)
<1>l. /\ IsFiniteSet(LiveIds) /\ Cardinality(LiveIds) \in Nat
      /\ \A id \in LiveIds : id \in Nat
  BY LiveSlots
<1> DEFINE Below(id) == {j \in LiveIds : j < id}
<1>b. \A id : Rank(id) = Cardinality(Below(id))
  BY DEF Rank
<1>f. ASSUME NEW id PROVE IsFiniteSet(Below(id)) /\ Cardinality(Below(id)) \in Nat
  <2>1. Below(id) \in SUBSET LiveIds
    OBVIOUS
  <2> HIDE DEF Below
  <2> QED
    BY <2>1, <1>l, FS_Subset, FS_CardinalityType
<1>1. ASSUME NEW id \in LiveIds PROVE Rank(id) \in 0..Cardinality(LiveIds)-1
  <2>1. Below(id) \in SUBSET LiveIds /\ Below(id) # LiveIds
    BY <1>l
  <2> HIDE DEF Below
  <2>2. Cardinality(Below(id)) <= Cardinality(LiveIds)
        /\ Cardinality(Below(id)) # Cardinality(LiveIds)
    BY <2>1, <1>l, FS_Subset
  <2> QED
    BY <2>2, <1>f, <1>l, <1>b
<1>2. ASSUME NEW i \in LiveIds, NEW j \in LiveIds, i < j PROVE Rank(i) < Rank(j)
  <2>1. Below(i) \in SUBSET Below(j) /\ i \in Below(j) /\ i \notin Below(i)
    BY <1>2, <1>l
  <2> HIDE DEF Below
  <2>2. Cardinality(Below(i)) <= Cardinality(Below(j))
        /\ Cardinality(Below(i)) # Cardinality(Below(j))
    BY <2>1, <1>f, FS_Subset
  <2>3. PICK a \in Nat, b \in Nat : a = Cardinality(Below(i)) /\ b = Cardinality(Below(j))
    BY <1>f
  <2>4. a < b
    BY <2>2, <2>3
  <2> QED
    BY <2>3, <2>4, <1>b
<1> QED
  BY <1>1, <1>2

\* What a save writes can be loaded.
LEMMA ImageLoadable ==
  ASSUME IInv
  PROVE  Loadable(Image)
<1>l. /\ IsFiniteSet(LiveIds) /\ Cardinality(LiveIds) \in Nat
      /\ \A id \in LiveIds : id \in Nat
  BY LiveSlots
<1>r. Image = {Rec(id) : id \in LiveIds}
  BY DEF Image, Rec
<1>a. \A id : Rec(id).pos = Rank(id) /\ Rec(id).alias = id_to_alias[id] /\ Rec(id).info = tokens[id]
  BY DEF Rec
<1>1. \A i, j \in LiveIds : Rec(i).pos = Rec(j).pos => i = j
  <2> SUFFICES ASSUME NEW i \in LiveIds, NEW j \in LiveIds, Rank(i) = Rank(j), i # j
               PROVE  FALSE
    BY <1>a
  <2>1. i < j \/ j < i
    BY <1>l
  <2>2. Rank(i) \in Int /\ Rank(j) \in Int
    BY Ranks
  <2> QED
    BY <2>1, <2>2, Ranks
<1>2. \A i, j \in LiveIds : Rec(i).alias = Rec(j).alias => i = j
  BY <1>a, LiveSlots
<1>3. IsFiniteSet(Image) /\ Cardinality(Image) = Cardinality(LiveIds)
  <2> DEFINE f == [id \in LiveIds |-> Rec(id)]
  <2>1. f \in Bijection(LiveIds, Image)
    <3>1. f \in [LiveIds -> Image]
      BY <1>r
    <3>2. \A i, j \in LiveIds : f[i] = f[j] => i = j
      BY <1>1
    <3>3. \A e \in Image : \E i \in LiveIds : f[i] = e
      BY <1>r
    <3> HIDE DEF f
    <3> QED
      BY <3>1, <3>2, <3>3 DEF Bijection, Injection, Surjection, IsInjective
  <2>2. ExistsBijection(LiveIds, Image)
    BY <2>1 DEF ExistsBijection
  <2> QED
    BY <2>2, <1>l, FS_Bijection
<1>4. Image \subseteq Record
  <2> SUFFICES ASSUME NEW id \in LiveIds PROVE Rec(id) \in Record
    BY <1>r
  <2>1. Rank(id) \in Nat
    BY Ranks, <1>l
  <2> QED
    BY <2>1, LiveSlots DEF Rec, Record
<1>5. \A e \in Image : e.pos \in 0..Cardinality(Image)-1
  BY <1>r, <1>a, <1>3, Ranks
<1>6. \A e, f \in Image : e.pos = f.pos \/ e.alias = f.alias => e = f
  BY <1>r, <1>1, <1>2
<1> QED
  BY <1>3, <1>4, <1>5, <1>6 DEF Loadable

-----------------------------------------------------------------------------
(* What a load reads *)

\* A record without the number of a generated alias.
LEMMA Plain ==
  ASSUME NEW e \in Record
  PROVE  [e EXCEPT !.alias = AsRequested(@)] =
           [pos |-> e.pos, alias |-> AsRequested(e.alias), info |-> e.info]
BY DEF Record

\* A record without the name at a position of ps.
Masked(e, ps) ==
  [pos |-> e.pos, alias |-> IF e.pos \in ps THEN UNNAMED ELSE AsRequested(e.alias), info |-> e.info]

LEMMA MaskedContents ==
  ASSUME NEW recs, recs \subseteq Record, NEW ps
  PROVE  Contents(recs, ps) = {Masked(e, ps) : e \in recs}
<1>1. ASSUME NEW e \in recs
      PROVE  [e EXCEPT !.alias = IF e.pos \in ps THEN UNNAMED ELSE AsRequested(@)] = Masked(e, ps)
  BY DEF Masked, Record
<1> QED
  BY <1>1 DEF Contents

\* What agrees without the names at ps agrees without some more of them.
LEMMA MaskMore ==
  ASSUME NEW A, NEW B, A \subseteq Record, B \subseteq Record, NEW ps, NEW qs, ps \subseteq qs,
         Contents(A, ps) = Contents(B, ps)
  PROVE  Contents(A, qs) = Contents(B, qs)
<1>0. ASSUME NEW e, NEW f, Masked(e, ps) = Masked(f, ps)
      PROVE  Masked(e, qs) = Masked(f, qs)
  <2>1. /\ Masked(e, ps).pos = e.pos /\ Masked(f, ps).pos = f.pos
        /\ Masked(e, ps).info = e.info /\ Masked(f, ps).info = f.info
        /\ Masked(e, ps).alias = IF e.pos \in ps THEN UNNAMED ELSE AsRequested(e.alias)
        /\ Masked(f, ps).alias = IF f.pos \in ps THEN UNNAMED ELSE AsRequested(f.alias)
    BY DEF Masked
  <2>2. e.pos = f.pos /\ e.info = f.info
    BY <1>0, <2>1
  <2>3. e.pos \notin ps => AsRequested(e.alias) = AsRequested(f.alias)
    BY <1>0, <2>1, <2>2
  <2> QED
    BY <2>2, <2>3 DEF Masked
<1>1. {Masked(e, ps) : e \in A} = {Masked(e, ps) : e \in B}
  BY MaskedContents
<1>2. ASSUME NEW e \in A PROVE \E f \in B : Masked(e, qs) = Masked(f, qs)
  <2>1. PICK f \in B : Masked(e, ps) = Masked(f, ps)
    BY <1>1
  <2> QED
    BY <2>1, <1>0
<1>3. ASSUME NEW f \in B PROVE \E e \in A : Masked(f, qs) = Masked(e, qs)
  <2>1. PICK e \in A : Masked(f, ps) = Masked(e, ps)
    BY <1>1
  <2> QED
    BY <2>1, <1>0
<1>4. {Masked(e, qs) : e \in A} = {Masked(e, qs) : e \in B}
  BY <1>2, <1>3
<1>5. Contents(A, qs) = {Masked(e, qs) : e \in A} /\ Contents(B, qs) = {Masked(e, qs) : e \in B}
  BY MaskedContents
<1> QED
  BY <1>4, <1>5

\* With no empty slot the rank of a slot is its id.
LEMMA FullRanks ==
  ASSUME IInv, \A id \in 0..slots-1 : tokens[id] # None
  PROVE  LiveIds = 0..slots-1 /\ \A id \in 0..slots-1 : Rank(id) = id
<1>t. slots \in Nat
  BY DEF IInv, TypeOK
<1>1. LiveIds = 0..slots-1
  BY DEF LiveIds, Live
<1>2. ASSUME NEW id \in 0..slots-1 PROVE Rank(id) = id
  <2>1. {j \in LiveIds : j < id} = 0..id-1
    BY <1>1, <1>t
  <2>2. PICK m \in Int, z \in Int : m = id - 1 /\ z = 0 /\ id \in Nat
    BY <1>t
  <2>3. Cardinality(z..m) = IF z > m THEN 0 ELSE m-z+1
    BY FS_Interval
  <2>4. Rank(id) = Cardinality(z..m)
    BY <2>1, <2>2 DEF Rank
  <2> QED
    BY <2>2, <2>3, <2>4
<1> QED
  BY <1>1, <1>2

\* A load that has come to the end has everything.
LEMMA LoadedAll ==
  ASSUME IInv, LoadedSoFar, Loadable(disk.recs), qlen = Cardinality(disk.recs)
  PROVE  \A ps : Contents(Image, ps) = Contents(disk.recs, ps)
<1>1. LiveIds = 0..slots-1 /\ \A id \in 0..slots-1 : Rank(id) = id
  BY FullRanks DEF LoadedSoFar
<1>r. Image = {Rec(id) : id \in 0..slots-1}
  BY <1>1 DEF Image, Rec
<1>2. \A id \in 0..slots-1 : Rec(id) \in Record
  BY <1>r, ImageLoadable DEF Loadable
<1>d. disk.recs \subseteq Record
  BY DEF Loadable
<1>3. ASSUME NEW id \in 0..slots-1, NEW e \in disk.recs, e.pos = id
      PROVE  [Rec(id) EXCEPT !.alias = AsRequested(@)] = [e EXCEPT !.alias = AsRequested(@)]
  <2>1. PICK f \in disk.recs : /\ f.pos = id /\ f.info = tokens[id]
                               /\ AsRequested(f.alias) = AsRequested(id_to_alias[id])
    BY DEF LoadedSoFar
  <2>2. f = e
    BY <2>1, <1>3 DEF Loadable
  <2>3. Rec(id).pos = e.pos /\ Rec(id).info = e.info
        /\ AsRequested(Rec(id).alias) = AsRequested(e.alias)
    BY <2>1, <2>2, <1>1, <1>3 DEF Rec
  <2> QED
    BY <2>3, <1>2, <1>d, Plain
<1>4. ASSUME NEW id \in 0..slots-1 PROVE \E e \in disk.recs : e.pos = id
  BY DEF LoadedSoFar
<1>5. ASSUME NEW e \in disk.recs PROVE e.pos \in 0..slots-1
  BY DEF LoadedSoFar, Loadable
<1>i. Image \subseteq Record
  BY ImageLoadable DEF Loadable
<1>6. Contents(Image, {}) = {[Rec(id) EXCEPT !.alias = AsRequested(@)] : id \in 0..slots-1}
  BY <1>r DEF Contents
<1>7. Contents(disk.recs, {}) = {[e EXCEPT !.alias = AsRequested(@)] : e \in disk.recs}
  BY DEF Contents
<1>8. ASSUME NEW x \in Contents(Image, {}) PROVE x \in Contents(disk.recs, {})
  <2>1. PICK id \in 0..slots-1 : x = [Rec(id) EXCEPT !.alias = AsRequested(@)]
    BY <1>6
  <2>2. PICK e \in disk.recs : e.pos = id
    BY <1>4
  <2> QED
    BY <2>1, <2>2, <1>3, <1>7
<1>9. ASSUME NEW x \in Contents(disk.recs, {}) PROVE x \in Contents(Image, {})
  <2>1. PICK e \in disk.recs : x = [e EXCEPT !.alias = AsRequested(@)]
    BY <1>7
  <2> QED
    BY <2>1, <1>3, <1>5, <1>6
<1>10. Contents(Image, {}) = Contents(disk.recs, {})
  BY <1>8, <1>9
<1>11. ASSUME NEW ps PROVE Contents(Image, ps) = Contents(disk.recs, ps)
  <2>1. {} \subseteq ps
    OBVIOUS
  <2> QED
    BY <2>1, <1>10, <1>i, <1>d, MaskMore
<1> QED
  BY <1>11

\* The alias under which a record is added.
LEMMA RequestedAlias ==
  ASSUME NEW al \in Alias
  PROVE  /\ AsRequested(al) \in Name \cup {UNNAMED}
         /\ \A id \in Nat : AsRequested(GenAlias(AsRequested(al), id)) = AsRequested(al)
         /\ AsRequested(al) # UNNAMED => AsRequested(al) = al /\ al \in Name
<1>1. CASE al \in AutoAlias
  <2>1. AsRequested(al) = UNNAMED
    BY <1>1 DEF AsRequested
  <2>2. \A id \in Nat : GenAlias(UNNAMED, id) = <<UNNAMED, id>> /\ <<UNNAMED, id>> \in AutoAlias
    BY DEF GenAlias, AutoAlias
  <2> QED
    BY <2>1, <2>2 DEF AsRequested
<1>2. CASE al \notin AutoAlias
  <2>1. al \in Name /\ AsRequested(al) = al /\ al # UNNAMED
    BY <1>2, ConstantsDiffer DEF Alias, AsRequested
  <2>2. \A id \in Nat : GenAlias(al, id) = al
    BY <2>1 DEF GenAlias
  <2> QED
    BY <2>1, <2>2
<1> QED
  BY <1>1, <1>2

\* The next record of a file finds its alias free.
LEMMA NextRecordFits ==
  ASSUME IInv, LoadedSoFar, Loadable(disk.recs), NEW e \in disk.recs, e.pos = qlen
  PROVE  AddOk(AsRequested(e.alias))
<1>t. slots \in Nat /\ slots = qlen /\ free_ids = <<>>
  BY DEF IInv, TypeOK, LoadedSoFar
<1>e. e.alias \in Alias
  BY DEF Loadable, Record
<1>1. CASE AsRequested(e.alias) = UNNAMED
  <2>1. NextId = slots
    BY <1>t DEF NextId
  <2>2. ASSUME <<UNNAMED, slots>> \in DOMAIN alias_map PROVE FALSE
    <3>1. <<UNNAMED, slots>> \in AutoAlias /\ <<UNNAMED, slots>>[2] = slots
      BY <1>t DEF AutoAlias
    <3>2. alias_map[<<UNNAMED, slots>>] = slots
      BY <3>1, <2>2 DEF IInv, AutoAliasOwn
    <3>3. Live(slots)
      BY <3>2, <2>2 DEF IInv, AliasesExact
    <3> QED
      BY <3>3, <1>t DEF Live
  <2> QED
    BY <1>1, <2>1, <2>2 DEF AddOk, GenAlias
<1>2. CASE AsRequested(e.alias) # UNNAMED
  <2>1. AsRequested(e.alias) = e.alias /\ e.alias \in Name /\ e.alias # UNNAMED
    BY <1>2, <1>e, RequestedAlias
  <2>2. ASSUME e.alias \in DOMAIN alias_map PROVE FALSE
    <3>1. PICK id : id = alias_map[e.alias]
      OBVIOUS
    <3>2. Live(id) /\ id_to_alias[id] = e.alias
      BY <2>2, <3>1 DEF IInv, AliasesExact
    <3>3. id \in 0..slots-1
      BY <3>2 DEF Live
    <3>4. PICK f \in disk.recs : f.pos = id /\ AsRequested(f.alias) = AsRequested(e.alias)
      BY <3>2, <3>3 DEF LoadedSoFar
    <3>5. f.alias \in Alias
      BY DEF Loadable, Record
    <3>6. f.alias = e.alias
      BY <3>4, <3>5, <2>1, RequestedAlias
    <3>7. f = e
      BY <3>6 DEF Loadable
    <3> QED
      BY <3>3, <3>4, <3>7, <1>t
  <2> QED
    BY <2>1, <2>2 DEF AddOk, GenAlias
<1> QED
  BY <1>1, <1>2

\* It goes to the next slot.
LEMMA NextRecordLoaded ==
  ASSUME IInv, LoadedSoFar, Loadable(disk.recs), NEW e \in disk.recs, e.pos = qlen,
         Add(e.info.key, e.info.status, AsRequested(e.alias)), disk' = disk
  PROVE  LoadedSoFar'
<1>t. /\ slots \in Nat /\ slots = qlen /\ free_ids = <<>> /\ TypeOK
      /\ DOMAIN tokens = 0..slots-1 /\ DOMAIN id_to_alias = 0..slots-1
  BY DEF IInv, TypeOK, LoadedSoFar
<1>e. e.alias \in Alias /\ e.info \in TokenInfo
  BY DEF Loadable, Record
<1>0. PICK al : al = GenAlias(AsRequested(e.alias), slots)
  OBVIOUS
<1>1. NextId = slots
  BY <1>t DEF NextId
<1>2. /\ free_ids' = <<>> /\ slots' = slots + 1 /\ qlen' = qlen + 1
      /\ tokens' = Put(tokens, slots, [key |-> e.info.key, status |-> e.info.status])
      /\ id_to_alias' = Put(id_to_alias, slots, al)
  BY <1>0, <1>1, <1>t DEF Add, QueuePush
<1>3. [key |-> e.info.key, status |-> e.info.status] = e.info
  BY <1>e DEF TokenInfo
<1>4. /\ tokens'[slots] = e.info /\ id_to_alias'[slots] = al
      /\ \A i \in 0..slots-1 : tokens'[i] = tokens[i] /\ id_to_alias'[i] = id_to_alias[i]
  BY <1>2, <1>3, <1>t DEF Put
<1>5. e.info # None
  BY <1>e, ConstantsDiffer
<1>6. AsRequested(al) = AsRequested(e.alias)
  BY <1>0, <1>e, <1>t, RequestedAlias
<1>7. \A id \in 0..slots'-1 : id \in 0..slots-1 \/ id = slots
  BY <1>2, <1>t
<1>8. ASSUME NEW id \in 0..slots-1
      PROVE  /\ tokens'[id] # None
             /\ \E f \in disk.recs : /\ f.pos = id
                                     /\ f.info = tokens'[id]
                                     /\ AsRequested(f.alias) = AsRequested(id_to_alias'[id])
  BY <1>4 DEF LoadedSoFar
<1>9. /\ tokens'[slots] # None
      /\ \E f \in disk.recs : /\ f.pos = slots
                              /\ f.info = tokens'[slots]
                              /\ AsRequested(f.alias) = AsRequested(id_to_alias'[slots])
  BY <1>4, <1>5, <1>6, <1>t
<1>10. \A x : AsRequested(x)' = AsRequested(x)
  BY DEF AsRequested
<1>11. disk' = Whole(disk.recs)' /\ slots' = qlen'
  BY <1>2, <1>t DEF LoadedSoFar, Whole
<1> QED
  BY <1>2, <1>7, <1>8, <1>9, <1>10, <1>11 DEF LoadedSoFar

-----------------------------------------------------------------------------
(* The handlers *)

\* The process starts from an absent file.
LEMMA InitRoute == RouteInit => RouteInv
<1> SUFFICES ASSUME RouteInit PROVE RouteInv
  OBVIOUS
<1>1. IInv
  BY InitIInv DEF RouteInit
<1>2. /\ sel = [s \in Selector |-> None]
      /\ slots = 0 /\ qlen = 0 /\ free_ids = <<>>
      /\ lock = None /\ disk = Absent /\ behind = FALSE /\ renamed = {} /\ detached = {}
      /\ run = "down" /\ stop = "no"
  BY DEF RouteInit, Init
<1>3. LockOK /\ DiskOK /\ Idle /\ FileFollows
  BY <1>2 DEF LockOK, DiskOK, Idle, FileFollows
<1> QED
  BY <1>1, <1>2, <1>3 DEF RouteInv, Run, Stop

\* A step of the handler that holds the lock, or takes it: the file is left
\* alone, and a change of the store is noted in the lock.
LEMMA HandlerStep ==
  ASSUME RouteInv, IInv', sel' = sel, run = "up",
         UNCHANGED <<disk, behind, renamed, detached, run, stop>>,
         lock' = None \/ (lock' \in Holder /\ (lock'.phase = "net" => lock'.op \in Remote)),
         Clean(lock') => Clean(lock) /\ UNCHANGED <<tokens, slots, id_to_alias>>
  PROVE  RouteInv'
<1>1. \A s \in Selector : sel'[s] = None
  BY DEF RouteInv
<1>2. LockOK'
  BY DEF LockOK
<1>3. DiskOK'
  BY DEF RouteInv, DiskOK, Absent, Torn, Whole, Loadable
<1>4. Idle'
  BY DEF Idle
<1>5. FileFollows'
  <2> SUFFICES ASSUME ~behind, Clean(lock')
               PROVE  Contents(disk.recs, renamed) = Contents(Image', renamed)
    BY DEF FileFollows, Clean, Contents, AsRequested
  <2>1. Clean(lock) /\ Image' = Image
    BY ImageKept
  <2> QED
    BY <2>1 DEF RouteInv, FileFollows
<1> QED
  BY <1>1, <1>2, <1>3, <1>4, <1>5 DEF RouteInv

\* An item of a request that changes the store marks the lock.
LEMMA BatchItem ==
  ASSUME RouteInv, NEW ops, Holds(ops, "batch"), IInv', sel' = sel, Updated,
         UNCHANGED <<fileVars, procVars>>
  PROVE  RouteInv'
<1>1. lock \in Holder /\ lock.phase = "batch" /\ run = "up"
  BY DEF RouteInv, LockOK, Idle, Holds
<1>2. /\ lock' \in Holder /\ lock'.phase = "batch" /\ lock'.updated
  BY <1>1 DEF Updated, Holder
<1>3. ~Clean(lock')
  BY <1>2, HolderAssumption DEF Clean
<1>4. UNCHANGED <<disk, behind, renamed, detached, run, stop>>
  BY DEF fileVars, procVars
<1> QED
  BY <1>1, <1>2, <1>3, <1>4, HandlerStep

\* The store without a step of its own.
LEMMA StoreStill ==
  ASSUME IInv, UNCHANGED vars
  PROVE  IInv' /\ sel' = sel /\ UNCHANGED <<tokens, slots, id_to_alias, free_ids, qlen>>
<1>1. IInv'
  BY NextIInv
<1> QED
  BY <1>1 DEF vars, storeVars, queueVars, selVars

\* set, add, delete, status, alias, merge and the three routes that change a
\* field the model leaves out.
LEMMA ItemRoute ==
  ASSUME RouteInv, KeysDistinct',
         \/ \E k \in Key, st \in RequestStatus, a \in Name \cup {UNNAMED} : AddItem(k, st, a)
         \/ \E id \in LiveIds : DeleteItem(id)
         \/ \E id \in LiveIds, st \in RequestStatus : StatusItem(id, st)
         \/ \E id \in LiveIds, a \in Name \cup {UNNAMED} : AliasItem(id, a)
         \/ \E id \in LiveIds, k \in Key : MergeItem(id, k)
         \/ \E id \in LiveIds : FieldItem(id)
  PROVE  RouteInv'
<1>i. IInv /\ \A id \in LiveIds : id \in 0..slots-1
  BY DEF RouteInv, LiveIds
<1>s. \A st \in RequestStatus : st \in Status
  BY RequestStatusAssumption
<1>1. ASSUME NEW k \in Key, NEW st \in RequestStatus, NEW a \in Name \cup {UNNAMED},
             AddItem(k, st, a)
      PROVE  RouteInv'
  <2>1. Holds({"set", "add"}, "batch") /\ Updated /\ UNCHANGED <<fileVars, procVars>>
    BY <1>1 DEF AddItem
  <2>2. CASE Add(k, st, a)
    <3>1. IInv'
      BY <2>2, <1>i, <1>s, AddIInv
    <3>2. sel' = sel
      BY <2>2 DEF Add, selVars
    <3> QED
      BY <2>1, <3>1, <3>2, BatchItem
  <2>3. CASE UNCHANGED vars
    BY <2>1, <2>3, <1>i, StoreStill, BatchItem
  <2> QED
    BY <1>1, <2>2, <2>3 DEF AddItem
<1>2. ASSUME NEW id \in LiveIds, DeleteItem(id) PROVE RouteInv'
  <2>1. Holds({"delete"}, "batch") /\ Updated /\ UNCHANGED <<fileVars, procVars>> /\ Remove(id)
    BY <1>2 DEF DeleteItem
  <2>2. IInv'
    BY <2>1, <1>i, RemoveIInv
  <2>3. sel' = sel
    BY <2>1 DEF Remove, selVars
  <2> QED
    BY <2>1, <2>2, <2>3, BatchItem
<1>3. ASSUME NEW id \in LiveIds, NEW st \in RequestStatus, StatusItem(id, st) PROVE RouteInv'
  <2>1. Holds({"status"}, "batch") /\ Updated /\ UNCHANGED <<fileVars, procVars>>
        /\ SetStatus(id, st)
    BY <1>3 DEF StatusItem
  <2>2. IInv'
    BY <2>1, <1>i, <1>s, StatusIInv
  <2>3. sel' = sel
    BY <2>1 DEF SetStatus, selVars
  <2> QED
    BY <2>1, <2>2, <2>3, BatchItem
<1>4. ASSUME NEW id \in LiveIds, NEW a \in Name \cup {UNNAMED}, AliasItem(id, a) PROVE RouteInv'
  <2>1. Holds({"alias"}, "batch") /\ Updated /\ UNCHANGED <<fileVars, procVars>>
        /\ SetAlias(id, a)
    BY <1>4 DEF AliasItem
  <2>2. IInv'
    BY <2>1, <1>i, SetAliasIInv
  <2>3. sel' = sel
    BY <2>1 DEF SetAlias, selVars
  <2> QED
    BY <2>1, <2>2, <2>3, BatchItem
<1>5. ASSUME NEW id \in LiveIds, NEW k \in Key, MergeItem(id, k) PROVE RouteInv'
  <2>1. Holds({"merge"}, "batch") /\ Updated /\ UNCHANGED <<fileVars, procVars>>
        /\ WriteKey(id, k)
    BY <1>5 DEF MergeItem
  <2>2. IInv'
    BY <2>1, <1>i, WriteKeyIInv
  <2>3. sel' = sel
    BY <2>1 DEF WriteKey, selVars
  <2> QED
    BY <2>1, <2>2, <2>3, BatchItem
<1>6. ASSUME NEW id \in LiveIds, FieldItem(id) PROVE RouteInv'
  <2>1. Holds({"field"}, "batch") /\ Updated /\ UNCHANGED <<fileVars, procVars>>
        /\ UNCHANGED vars
    BY <1>6 DEF FieldItem
  <2> QED
    BY <2>1, <1>i, StoreStill, BatchItem
<1> QED
  BY <1>1, <1>2, <1>3, <1>4, <1>5, <1>6

\* The lock is taken by a request, or by the save at shutdown.
LEMMA HoldTyped ==
  ASSUME NEW op \in Route, NEW known \in SUBSET Key
  PROVE  /\ Hold(op, known) \in Holder
         /\ Hold(op, known) # None
         /\ Hold(op, known).op = op /\ Hold(op, known).phase = "batch"
         /\ ~Hold(op, known).updated
<1>1. <<>> \in Seq(Nat \X Name)
  OBVIOUS
<1>2. Hold(op, known) \in Holder
  BY <1>1 DEF Hold, Holder, Phase
<1> QED
  BY <1>2, HolderAssumption DEF Hold

LEMMA BeginRoute ==
  ASSUME RouteInv, NEW op \in Route \ {"shutdown"}, Begin(op)
  PROVE  RouteInv'
<1>i. IInv
  BY DEF RouteInv
<1>1. KnownKeys \subseteq Key
  BY <1>i, LiveSlots DEF KnownKeys, TokenInfo
<1>2. PICK known \in SUBSET Key : lock' = Hold(op, known)
  BY <1>1 DEF Begin
<1>3. /\ lock' \in Holder /\ lock' # None /\ lock'.op = op
      /\ lock'.phase = "batch"
  BY <1>2, HoldTyped
<1>4. run = "up" /\ lock = None /\ UNCHANGED <<disk, behind, renamed, detached, run, stop>>
  BY DEF Begin, fileVars, procVars
<1>5. CASE op = "set"
  <2>1. Reset
    BY <1>5 DEF Begin
  <2>2. IInv' /\ sel' = sel
    BY <2>1, <1>i, ResetIInv DEF Reset, selVars
  <2>3. ~Clean(lock')
    BY <1>3, <1>5 DEF Clean
  <2> QED
    BY <1>3, <1>4, <2>2, <2>3, HandlerStep
<1>6. CASE op # "set"
  <2>1. UNCHANGED vars
    BY <1>6 DEF Begin
  <2>2. Clean(lock)
    BY <1>4 DEF Clean
  <2> QED
    BY <1>3, <1>4, <2>1, <2>2, <1>i, StoreStill, HandlerStep
<1> QED
  BY <1>5, <1>6

\* The routes that ask the upstream server.
LEMMA RemoteRoute ==
  ASSUME RouteInv, KeysDistinct',
         \/ \E id \in LiveIds : NetItem(id)
         \/ \E k \in Key : Refreshed(k)
         \/ \E n \in Name \cup {None} : Profiled(n)
         \/ \E u \in BOOLEAN : NetEnds(u)
  PROVE  RouteInv'
<1>i. IInv /\ LockOK
  BY DEF RouteInv
<1>l. lock # None => lock \in Holder /\ run = "up"
  BY DEF RouteInv, LockOK, Idle
<1>1. ASSUME NEW id \in LiveIds, NetItem(id) PROVE RouteInv'
  <2>1. lock \in Holder /\ lock.op \in Remote /\ lock.phase = "batch" /\ run = "up"
    BY <1>1, <1>l DEF NetItem, Holds
  <2>2. lock' = [lock EXCEPT !.phase = "net", !.id = id, !.done = lock.done \cup {id}]
    BY <1>1 DEF NetItem
  <2>3. id \in Nat
    BY <1>i, LiveSlots
  <2>4. /\ lock' \in Holder /\ lock'.op = lock.op /\ lock'.phase = "net"
        /\ lock'.updated = lock.updated
    BY <2>1, <2>2, <2>3 DEF Holder, Phase
  <2>5. Clean(lock') => Clean(lock)
    BY <2>1, <2>4, HolderAssumption DEF Clean
  <2>6. UNCHANGED vars /\ UNCHANGED <<disk, behind, renamed, detached, run, stop>>
    BY <1>1 DEF NetItem, fileVars, procVars
  <2> QED
    BY <2>1, <2>4, <2>5, <2>6, <1>i, StoreStill, HandlerStep
<1>2. ASSUME NEW k \in Key, Refreshed(k) PROVE RouteInv'
  <2>1. lock \in Holder /\ run = "up"
    BY <1>2, <1>l DEF Refreshed, Holds
  <2>2. lock' \in Holder /\ lock'.phase = "batch" /\ lock'.updated
    BY <1>2, <2>1 DEF Refreshed, Holder, Phase
  <2>3. ~Clean(lock')
    BY <2>2, HolderAssumption DEF Clean
  <2>4. WriteKey(lock.id, k) /\ UNCHANGED <<disk, behind, renamed, detached, run, stop>>
    BY <1>2 DEF Refreshed, fileVars, procVars
  <2>5. lock.id \in 0..slots-1
    BY <2>4 DEF WriteKey, Live
  <2>6. IInv'
    BY <2>4, <2>5, <1>i, WriteKeyIInv
  <2>7. sel' = sel
    BY <2>4 DEF WriteKey, selVars
  <2> QED
    BY <2>1, <2>2, <2>3, <2>4, <2>6, <2>7, HandlerStep
<1>3. ASSUME NEW n \in Name \cup {None}, Profiled(n) PROVE RouteInv'
  <2>1. lock \in Holder /\ run = "up"
    BY <1>3, <1>l DEF Profiled, Holds
  <2>2. PICK rs : /\ rs = IF n # None /\ id_to_alias[lock.id] \in AutoAlias
                          THEN Append(lock.renames, <<lock.id, n>>) ELSE lock.renames
                  /\ lock' = [lock EXCEPT !.phase = "batch", !.updated = TRUE, !.renames = rs]
    BY <1>3 DEF Profiled
  <2>3. rs \in Seq(Nat \X Name)
    <3>1. lock.renames \in Seq(Nat \X Name) /\ lock.id \in Nat
      BY <2>1 DEF Holder
    <3>2. n # None => <<lock.id, n>> \in Nat \X Name
      BY <3>1
    <3> QED
      BY <2>2, <3>1, <3>2
  <2>4. lock' \in Holder /\ lock'.phase = "batch" /\ lock'.updated
    BY <2>1, <2>2, <2>3 DEF Holder, Phase
  <2>5. ~Clean(lock')
    BY <2>4, HolderAssumption DEF Clean
  <2>6. UNCHANGED vars /\ UNCHANGED <<disk, behind, renamed, detached, run, stop>>
    BY <1>3 DEF Profiled, fileVars, procVars
  <2> QED
    BY <2>1, <2>4, <2>5, <2>6, <1>i, StoreStill, HandlerStep
<1>4. ASSUME NEW u \in BOOLEAN, NetEnds(u) PROVE RouteInv'
  <2>1. /\ lock \in Holder /\ lock.op \in {"refresh", "config"} /\ lock.phase = "net"
        /\ run = "up" /\ lock # None
    BY <1>4, <1>l DEF NetEnds, Holds
  <2>2. lock' = [lock EXCEPT !.phase = "batch", !.updated = lock.updated \/ u]
    BY <1>4 DEF NetEnds
  <2>3. /\ lock' \in Holder /\ lock'.op = lock.op /\ lock'.phase = "batch"
        /\ lock'.updated <=> (lock.updated \/ u)
    BY <2>1, <2>2 DEF Holder, Phase
  <2>4. Clean(lock') => Clean(lock)
    BY <2>1, <2>3, HolderAssumption DEF Clean
  <2>5. UNCHANGED vars /\ UNCHANGED <<disk, behind, renamed, detached, run, stop>>
    BY <1>4 DEF NetEnds, fileVars, procVars
  <2> QED
    BY <2>1, <2>3, <2>4, <2>5, <1>i, StoreStill, HandlerStep
<1> QED
  BY <1>1, <1>2, <1>3, <1>4

\* The renames of a profile request, a request that has nothing to save, and
\* the beginning of a save.
LEMMA EndRoute ==
  ASSUME RouteInv, Rename \/ NothingToSave \/ SaveOpen
  PROVE  RouteInv'
<1>i. IInv
  BY DEF RouteInv
<1>l. lock # None => lock \in Holder /\ run = "up"
  BY DEF RouteInv, LockOK, Idle
<1>1. CASE Rename
  <2>1. lock \in Holder /\ run = "up" /\ lock.renames # <<>>
    BY <1>1, <1>l DEF Rename, Holds
  <2>2. lock.renames \in Seq(Nat \X Name)
    BY <2>1 DEF Holder
  <2>3. Head(lock.renames) \in Nat \X Name /\ Tail(lock.renames) \in Seq(Nat \X Name)
    BY <2>1, <2>2
  <2>4. PICK r \in Nat \X Name : r = Head(lock.renames)
    BY <2>3
  <2>5. lock' = [lock EXCEPT !.phase = "rename", !.renames = Tail(lock.renames)]
    BY <1>1 DEF Rename
  <2>6. lock' \in Holder /\ lock'.phase = "rename"
    BY <2>1, <2>3, <2>5 DEF Holder, Phase
  <2>7. ~Clean(lock')
    BY <2>6, HolderAssumption DEF Clean
  <2>8. SetAlias(r[1], r[2]) \/ UNCHANGED vars
    BY <1>1, <2>4 DEF Rename
  <2>9. IInv' /\ sel' = sel
    <3>1. CASE SetAlias(r[1], r[2])
      <4>1. r[1] \in 0..slots-1 /\ r[2] \in Name \cup {UNNAMED}
        BY <3>1 DEF SetAlias, SetAliasOk, Live
      <4>2. IInv'
        BY <3>1, <4>1, <1>i, SetAliasIInv
      <4> QED
        BY <3>1, <4>2 DEF SetAlias, selVars
    <3>2. CASE UNCHANGED vars
      BY <3>2, <1>i, StoreStill
    <3> QED
      BY <2>8, <3>1, <3>2
  <2>10. UNCHANGED <<disk, behind, renamed, detached, run, stop>>
    BY <1>1 DEF Rename, fileVars, procVars
  <2> QED
    BY <2>1, <2>6, <2>7, <2>9, <2>10, HandlerStep
<1>2. CASE NothingToSave
  <2>1. /\ lock \in Holder /\ run = "up" /\ lock.phase = "batch" /\ ~lock.updated
        /\ lock.op # "set" /\ lock' = None
    BY <1>2, <1>l DEF NothingToSave, Holds
  <2>2. Clean(lock)
    BY <2>1 DEF Clean
  <2>3. UNCHANGED vars /\ UNCHANGED <<disk, behind, renamed, detached, run, stop>>
    BY <1>2 DEF NothingToSave, fileVars, procVars
  <2> QED
    BY <2>1, <2>2, <2>3, <1>i, StoreStill, HandlerStep
<1>3. CASE SaveOpen
  <2>1. lock \in Holder /\ run = "up"
    BY <1>3, <1>l DEF SaveOpen, Holds
  <2>2. lock' \in Holder /\ lock'.phase = "open"
    BY <1>3, <2>1 DEF SaveOpen, Holder, Phase
  <2>3. ~Clean(lock')
    BY <2>2, HolderAssumption DEF Clean
  <2>4. UNCHANGED vars /\ UNCHANGED <<disk, behind, renamed, detached, run, stop>>
    BY <1>3 DEF SaveOpen, fileVars, procVars
  <2> QED
    BY <2>1, <2>2, <2>3, <2>4, <1>i, StoreStill, HandlerStep
<1> QED
  BY <1>1, <1>2, <1>3

-----------------------------------------------------------------------------
(* The usage check *)

\* It changes the record of its own slot only, and of that the alias.
LEMMA RenamedImage ==
  ASSUME IInv, NEW id \in LiveIds, NEW n \in Name, SetAlias(id, n), NEW ps, Rank(id) \in ps,
         IInv'
  PROVE  Contents(Image', ps) = Contents(Image, ps)
<1>u. UNCHANGED <<tokens, slots>>
  BY DEF SetAlias
<1>l. LiveIds' = LiveIds
  BY <1>u DEF LiveIds, Live
<1>k. \A j : Rank(j)' = Rank(j)
  BY <1>l DEF Rank
<1>t. TypeOK /\ DOMAIN id_to_alias = 0..slots-1
  BY DEF IInv, TypeOK
<1>a. \A j \in LiveIds : j # id => id_to_alias'[j] = id_to_alias[j]
  BY <1>t DEF SetAlias, LiveIds
<1>r. Image = {Rec(j) : j \in LiveIds} /\ Image \subseteq Record
  BY ImageLoadable DEF Image, Rec, Loadable
<1>1. PICK new : new = [j \in LiveIds |->
                          [pos |-> Rank(j), alias |-> id_to_alias'[j], info |-> tokens[j]]]
  OBVIOUS
<1>2. Image' = {new[j] : j \in LiveIds}
  BY <1>1, <1>u, <1>l, <1>k DEF Image
<1>3. Image' \subseteq Record
  <2>1. Loadable(Image)'
    BY ImageLoadable, PTL
  <2> QED
    BY <2>1 DEF Loadable, Record
<1>4. ASSUME NEW j \in LiveIds PROVE Masked(new[j], ps) = Masked(Rec(j), ps)
  <2>1. /\ new[j].pos = Rank(j) /\ new[j].alias = id_to_alias'[j] /\ new[j].info = tokens[j]
        /\ Rec(j).pos = Rank(j) /\ Rec(j).alias = id_to_alias[j] /\ Rec(j).info = tokens[j]
    BY <1>1 DEF Rec
  <2>2. j # id => new[j].alias = Rec(j).alias
    BY <2>1, <1>a
  <2>3. j = id => new[j].pos \in ps
    BY <2>1
  <2> QED
    BY <2>1, <2>2, <2>3 DEF Masked
<1>5. {Masked(e, ps) : e \in Image'} = {Masked(new[j], ps) : j \in LiveIds}
  BY <1>2
<1>6. {Masked(e, ps) : e \in Image} = {Masked(Rec(j), ps) : j \in LiveIds}
  BY <1>r
<1>7. {Masked(new[j], ps) : j \in LiveIds} = {Masked(Rec(j), ps) : j \in LiveIds}
  BY <1>4
<1> QED
  BY <1>3, <1>r, <1>5, <1>6, <1>7, MaskedContents

\* Its change of the store is not in the file, and noted.
LEMMA UsageRoute ==
  ASSUME RouteInv, NEW id \in LiveIds, NEW n \in Name, UsageRename(id, n)
  PROVE  RouteInv'
<1>i. IInv /\ DiskOK /\ LockOK /\ Idle /\ renamed \subseteq Nat /\ \A s \in Selector : sel[s] = None
  BY DEF RouteInv
<1>1. /\ run = "up" /\ lock = None /\ SetAlias(id, n)
      /\ renamed' = IF behind THEN {} ELSE renamed \cup {Rank(id)}
      /\ UNCHANGED <<lock, disk, behind, detached, run, stop>>
  BY DEF UsageRename, procVars
<1>2. id \in 0..slots-1 /\ Rank(id) \in Nat
  BY <1>i, LiveSlots, Ranks
<1>3. IInv'
  BY <1>1, <1>2, <1>i, SetAliasIInv
<1>4. \A s \in Selector : sel'[s] = None
  BY <1>1, <1>i DEF SetAlias, selVars
<1>5. DiskOK' /\ LockOK' /\ Idle' /\ renamed' \subseteq Nat
  BY <1>1, <1>2, <1>i DEF DiskOK, Absent, Torn, Whole, Loadable, LockOK, Idle
<1>6. FileFollows'
  <2> SUFFICES ASSUME ~behind
               PROVE  Contents(disk.recs, renamed') = Contents(Image', renamed')
    BY <1>1 DEF FileFollows, Contents, AsRequested
  <2>1. Contents(disk.recs, renamed) = Contents(Image, renamed)
    BY <1>1 DEF RouteInv, FileFollows, Clean
  <2>2. disk.recs \subseteq Record /\ Image \subseteq Record
    BY <1>i, ImageLoadable DEF DiskOK, Absent, Torn, Loadable
  <2>3. renamed \subseteq renamed' /\ Rank(id) \in renamed'
    BY <1>1
  <2>4. Contents(disk.recs, renamed') = Contents(Image, renamed')
    BY <2>1, <2>2, <2>3, MaskMore
  <2>5. Contents(Image', renamed') = Contents(Image, renamed')
    BY <1>1, <1>3, <1>i, <2>3, RenamedImage
  <2> QED
    BY <2>4, <2>5
<1> QED
  BY <1>1, <1>3, <1>4, <1>5, <1>6 DEF RouteInv

-----------------------------------------------------------------------------
(* Saving, losing clients, ending and starting again *)

\* The store stays as it is while the file, the lock or the process change.
LEMMA StillStep ==
  ASSUME RouteInv, UNCHANGED vars,
         LockOK', DiskOK', Idle', FileFollows',
         behind' \in BOOLEAN, renamed' \subseteq Nat, detached' \subseteq {"open", "len"},
         run' \in Run \ {"refused"}, stop' \in Stop, run' = "loading" => LoadedSoFar'
  PROVE  RouteInv'
<1>1. IInv' /\ sel' = sel
  BY StoreStill DEF RouteInv
<1> QED
  BY <1>1 DEF RouteInv

\* TokenManager::save after the file has been opened.
LEMMA SaveRoute ==
  ASSUME RouteInv, SaveLen \/ SaveCopy \/ SaveFails
  PROVE  RouteInv'
<1>i. IInv /\ DiskOK /\ behind \in BOOLEAN /\ renamed \subseteq Nat
      /\ detached \subseteq {"open", "len"} /\ stop \in Stop
  BY DEF RouteInv
<1>l. lock # None => lock \in Holder /\ run = "up"
  BY DEF RouteInv, LockOK, Idle
<1>1. CASE SaveLen
  <2>1. lock \in Holder /\ run = "up"
    BY <1>1, <1>l DEF SaveLen, Holds
  <2>2. lock' \in Holder /\ lock'.phase = "len"
    BY <1>1, <2>1 DEF SaveLen, Holder, Phase
  <2>3. UNCHANGED vars /\ UNCHANGED <<behind, renamed, detached, run, stop>> /\ disk' = Torn
    BY <1>1 DEF SaveLen, procVars
  <2>4. LockOK' /\ Idle' /\ DiskOK'
    BY <2>1, <2>2, <2>3 DEF LockOK, Idle, DiskOK, Torn
  <2>5. FileFollows'
    BY <2>2, HolderAssumption DEF FileFollows, Clean
  <2> QED
    BY <2>1, <2>3, <2>4, <2>5, <1>i, StillStep DEF Run
<1>2. CASE SaveCopy
  <2>1. run = "up"
    BY <1>2, <1>l DEF SaveCopy, Holds
  <2>2. /\ UNCHANGED vars /\ UNCHANGED <<detached, run>>
        /\ disk' = Whole(Image) /\ behind' = FALSE /\ renamed' = {} /\ lock' = None
    BY <1>2 DEF SaveCopy, Release
  <2>3. stop' \in Stop
    BY <1>2, <1>i DEF SaveCopy, Release, Stop
  <2>4. Image' = Image
    BY <2>2, <1>i, StoreStill, ImageKept
  <2>5. disk'.recs = Image
    BY <2>2 DEF Whole
  <2>6. DiskOK'
    <3>1. Loadable(Image)
      BY <1>i, ImageLoadable
    <3>2. disk' = Whole(disk'.recs) /\ Loadable(disk'.recs)
      BY <2>2, <2>5, <3>1
    <3>3. Whole(disk.recs)' = Whole(disk'.recs) /\ Loadable(disk.recs)' = Loadable(disk'.recs)
      BY DEF Whole, Loadable
    <3> QED
      BY <3>2, <3>3 DEF DiskOK
  <2>7. LockOK' /\ Idle'
    BY <2>1, <2>2 DEF LockOK, Idle
  <2>8. FileFollows'
    <3>1. /\ Contents(disk.recs, renamed)' = Contents(disk'.recs, renamed')
          /\ Contents(Image, renamed)' = Contents(Image', renamed')
      BY DEF Contents, AsRequested
    <3> QED
      BY <2>4, <2>5, <3>1 DEF FileFollows
  <2> QED
    BY <2>1, <2>2, <2>3, <2>6, <2>7, <2>8, <1>i, StillStep DEF Run
<1>3. CASE SaveFails
  <2>1. run = "up"
    BY <1>3, <1>l DEF SaveFails, Holds
  <2>2. /\ UNCHANGED vars /\ UNCHANGED <<detached, run, disk>>
        /\ behind' = TRUE /\ renamed' = {} /\ lock' = None
    BY <1>3 DEF SaveFails, FallsBehind, Release
  <2>3. stop' \in Stop
    BY <1>3, <1>i DEF SaveFails, Release, Stop
  <2>4. DiskOK'
    BY <2>2, <1>i DEF DiskOK, Absent, Torn, Whole, Loadable
  <2>5. LockOK' /\ Idle' /\ FileFollows'
    BY <2>1, <2>2 DEF LockOK, Idle, FileFollows
  <2> QED
    BY <2>1, <2>2, <2>3, <2>4, <2>5, <1>i, StillStep DEF Run
<1> QED
  BY <1>1, <1>2, <1>3

\* A lost client, a late file operation, the shutdown signal and its save.
LEMMA CancelRoute ==
  ASSUME RouteInv,
         Cancel \/ (\E op \in {"open", "len"} : Lands(op)) \/ Signal \/ ShutdownSave
  PROVE  RouteInv'
<1>i. IInv /\ DiskOK /\ behind \in BOOLEAN /\ renamed \subseteq Nat
      /\ detached \subseteq {"open", "len"} /\ stop \in Stop
      /\ LockOK /\ Idle /\ run \in Run \ {"refused"} /\ (run = "loading" => LoadedSoFar)
  BY DEF RouteInv
<1>l. lock # None => lock \in Holder /\ run = "up"
  BY DEF RouteInv, LockOK, Idle
<1>c. /\ Contents(disk.recs, renamed)' = Contents(disk'.recs, renamed')
      /\ Contents(Image, renamed)' = Contents(Image', renamed')
  BY DEF Contents, AsRequested
<1>1. CASE Cancel
  <2>1. lock \in Holder /\ run = "up" /\ lock # None
    BY <1>1, <1>l DEF Cancel
  <2>2. UNCHANGED vars /\ UNCHANGED <<disk, run, stop>> /\ lock' = None
    BY <1>1 DEF Cancel, procVars
  <2>3. lock.updated \in BOOLEAN /\ lock.phase \in {"net", "open", "len"}
    BY <1>1, <2>1 DEF Holder, Cancel
  <2>4. \/ behind' = TRUE /\ renamed' = {}
        \/ ~lock.updated /\ lock.phase = "net" /\ UNCHANGED <<behind, renamed>>
    BY <1>1 DEF Cancel, FallsBehind
  <2>5. behind' \in BOOLEAN /\ renamed' \subseteq Nat /\ detached' \subseteq {"open", "len"}
    BY <1>1, <2>3, <2>4, <1>i DEF Cancel
  <2>6. DiskOK'
    BY <2>2, <1>i DEF DiskOK, Absent, Torn, Whole, Loadable
  <2>7. LockOK' /\ Idle'
    BY <2>1, <2>2 DEF LockOK, Idle
  <2>8. FileFollows'
    <3> SUFFICES ASSUME ~behind'
                 PROVE  Contents(disk'.recs, renamed') = Contents(Image', renamed')
      BY <1>c DEF FileFollows
    <3>1. ~behind /\ ~lock.updated /\ lock.phase = "net" /\ renamed' = renamed
      BY <2>4
    <3>2. lock.op \in Remote
      BY <3>1, <2>1, <1>i DEF LockOK
    <3>3. Clean(lock)
      BY <3>1, <3>2 DEF Clean, Remote
    <3>4. Image' = Image
      BY <2>2, <1>i, StoreStill, ImageKept
    <3> QED
      BY <2>1, <2>2, <3>1, <3>3, <3>4 DEF RouteInv, FileFollows
  <2> QED
    BY <2>1, <2>2, <2>5, <2>6, <2>7, <2>8, <1>i, StillStep DEF Run
<1>2. ASSUME NEW op \in {"open", "len"}, Lands(op) PROVE RouteInv'
  <2>1. run = "up" /\ op \in detached
    BY <1>2, <1>i DEF Lands, Idle
  <2>2. UNCHANGED vars /\ UNCHANGED <<lock, run, stop>> /\ detached' \subseteq {"open", "len"}
    BY <1>2, <1>i DEF Lands, procVars
  <2>3. LockOK' /\ Idle'
    BY <2>1, <2>2, <1>i DEF LockOK, Idle
  <2>4. CASE disk' = Torn /\ behind' = TRUE /\ renamed' = {}
    <3>1. DiskOK' /\ FileFollows'
      BY <2>4 DEF DiskOK, FileFollows, Torn
    <3> QED
      BY <2>1, <2>2, <2>3, <2>4, <3>1, <1>i, StillStep DEF Run
  <2>5. CASE UNCHANGED <<disk, behind, renamed>>
    <3>1. DiskOK'
      BY <2>5, <1>i DEF DiskOK, Absent, Torn, Whole, Loadable
    <3>2. Image' = Image
      BY <2>2, <1>i, StoreStill, ImageKept
    <3>3. FileFollows'
      BY <2>2, <2>5, <3>2, <1>c DEF RouteInv, FileFollows, Clean
    <3> QED
      BY <2>1, <2>2, <2>3, <2>5, <3>1, <3>3, <1>i, StillStep DEF Run
  <2> QED
    BY <1>2, <2>4, <2>5 DEF Lands, FallsBehind
<1>3. CASE Signal
  <2>1. run = "up" /\ UNCHANGED vars /\ UNCHANGED <<lock, disk, behind, renamed, detached, run>>
        /\ stop' \in Stop
    BY <1>3 DEF Signal, fileVars, Stop
  <2>2. DiskOK' /\ LockOK' /\ Idle'
    BY <2>1, <1>i DEF DiskOK, Absent, Torn, Whole, Loadable, LockOK, Idle
  <2>3. Image' = Image
    BY <2>1, <1>i, StoreStill, ImageKept
  <2>4. FileFollows'
    BY <2>1, <2>3, <1>c DEF RouteInv, FileFollows, Clean
  <2> QED
    BY <2>1, <2>2, <2>4, <1>i, StillStep DEF Run
<1>4. CASE ShutdownSave
  <2>1. /\ run = "up" /\ lock = None /\ lock' = Hold("shutdown", {})
        /\ UNCHANGED vars /\ UNCHANGED <<disk, behind, renamed, detached, run, stop>>
    BY <1>4 DEF ShutdownSave, fileVars, procVars
  <2>2. lock' \in Holder /\ lock'.phase = "batch"
    BY <2>1, HoldTyped DEF Route
  <2>3. Clean(lock)
    BY <2>1 DEF Clean
  <2> QED
    BY <2>1, <2>2, <2>3, <1>i, StoreStill, HandlerStep
<1> QED
  BY <1>1, <1>2, <1>3, <1>4

\* The process ends, by itself or not.
LEMMA DiesRoute ==
  ASSUME RouteInv, Dies
  PROVE  RouteInv'
<1>i. IInv /\ DiskOK /\ behind \in BOOLEAN /\ renamed \subseteq Nat /\ \A s \in Selector : sel[s] = None
  BY DEF RouteInv
<1>1. /\ slots' = 0 /\ qlen' = 0 /\ free_ids' = <<>>
      /\ lock' = None /\ detached' = {} /\ stop' = "no" /\ run' = "down"
      /\ UNCHANGED <<disk, behind, renamed, sel, picked, fault>>
  BY DEF Dies, selVars
<1>2. IInv'
  <2>1. heads' \in [QueueType -> Nat]
    BY DEF Dies
  <2> QED
    BY <2>1, <1>1, <1>i, EmptiedIInv DEF Dies
<1>3. DiskOK'
  BY <1>1, <1>i DEF DiskOK, Absent, Torn, Whole, Loadable
<1>4. LockOK' /\ Idle' /\ FileFollows'
  BY <1>1 DEF LockOK, Idle, FileFollows
<1> QED
  BY <1>1, <1>2, <1>3, <1>4, <1>i DEF RouteInv, Run, Stop

\* A process starts, loads the records one by one and begins to serve.
LEMMA LoadRoute ==
  ASSUME RouteInv, KeysDistinct',
         Start \/ Loaded \/ (\E e \in disk.recs : LoadNext(e))
  PROVE  RouteInv'
<1>i. IInv /\ DiskOK /\ behind \in BOOLEAN /\ renamed \subseteq Nat
      /\ detached \subseteq {"open", "len"} /\ stop \in Stop
      /\ LockOK /\ Idle /\ run \in Run \ {"refused"} /\ (run = "loading" => LoadedSoFar)
  BY DEF RouteInv
<1>c. /\ Contents(disk.recs, renamed)' = Contents(disk'.recs, renamed')
      /\ Contents(Image, renamed)' = Contents(Image', renamed')
  BY DEF Contents, AsRequested
<1>d. run = "loading" => Loadable(disk.recs) /\ lock = None /\ detached = {}
  <2>1. Absent # Whole(disk.recs) /\ Torn # Whole(disk.recs)
    <3>1. Absent.state = "absent" /\ Torn.state = "torn" /\ Whole(disk.recs).state = "whole"
      BY DEF Absent, Torn, Whole
    <3> QED
      BY <3>1
  <2> QED
    BY <2>1, <1>i DEF DiskOK, LoadedSoFar, Idle
<1>1. CASE Start
  <2>1. /\ run = "down" /\ UNCHANGED vars /\ UNCHANGED <<lock, disk, detached, stop>>
        /\ behind' = FALSE /\ renamed' = {}
    BY <1>1 DEF Start
  <2>2. slots = 0 /\ qlen = 0 /\ free_ids = <<>> /\ lock = None /\ detached = {}
    BY <2>1, <1>i DEF Idle
  <2>3. run' = (CASE disk = Absent -> "up" [] disk = Torn -> "garbage" [] OTHER -> "loading")
    BY <1>1 DEF Start
  <2>4. run' \in {"up", "garbage", "loading"}
    BY <2>3
  <2>5. run' = "up" => disk = Absent
    BY <2>3
  <2>6. run' = "loading" => disk = Whole(disk.recs)
    BY <2>3, <1>i DEF DiskOK
  <2>7. DiskOK' /\ LockOK'
    BY <2>1, <1>i DEF DiskOK, Absent, Torn, Whole, Loadable, LockOK
  <2>8. Idle'
    BY <2>1, <2>2, <2>4 DEF Idle
  <2>9. UNCHANGED <<tokens, slots, id_to_alias, free_ids, qlen>>
    BY <2>1, <1>i, StoreStill
  <2>10. run' = "loading" => LoadedSoFar'
    BY <2>1, <2>2, <2>6, <2>9 DEF LoadedSoFar, Whole
  <2>11. FileFollows'
    <3> SUFFICES ASSUME run' = "up"
                 PROVE  Contents(disk'.recs, renamed') = Contents(Image', renamed')
      BY <1>c DEF FileFollows
    <3>1. disk'.recs = {}
      BY <2>1, <2>5 DEF Absent
    <3>2. LiveIds = {}
      BY <2>2 DEF LiveIds
    <3>3. Image' = {}
      BY <3>2, <2>9, ImageKept DEF Image
    <3> QED
      BY <3>1, <3>3
  <2> QED
    BY <2>1, <2>4, <2>7, <2>8, <2>10, <2>11, <1>i, StillStep DEF Run
<1>2. CASE Loaded
  <2>1. /\ run = "loading" /\ qlen = Cardinality(disk.recs) /\ run' = "up"
        /\ UNCHANGED vars /\ UNCHANGED <<lock, disk, behind, renamed, detached, stop>>
    BY <1>2 DEF Loaded, fileVars
  <2>2. Contents(Image, renamed) = Contents(disk.recs, renamed)
    BY <2>1, <1>i, <1>d, LoadedAll
  <2>3. Image' = Image
    BY <2>1, <1>i, StoreStill, ImageKept
  <2>4. FileFollows'
    BY <2>1, <2>2, <2>3, <1>c DEF FileFollows
  <2>5. DiskOK' /\ LockOK'
    BY <2>1, <1>i DEF DiskOK, Absent, Torn, Whole, Loadable, LockOK
  <2>6. Idle'
    BY <2>1 DEF Idle
  <2> QED
    BY <2>1, <2>4, <2>5, <2>6, <1>i, StillStep DEF Run
<1>3. ASSUME NEW e \in disk.recs, LoadNext(e) PROVE RouteInv'
  <2>1. run = "loading" /\ e.pos = qlen /\ UNCHANGED <<lock, disk, behind, renamed, detached, stop>>
    BY <1>3 DEF LoadNext, fileVars
  <2>2. AddOk(AsRequested(e.alias))
    BY <2>1, <1>i, <1>d, NextRecordFits
  <2>3. Add(e.info.key, e.info.status, AsRequested(e.alias)) /\ run' = run
    BY <1>3, <2>2 DEF LoadNext
  <2>4. /\ e.info.key \in Key /\ e.info.status \in Status
        /\ AsRequested(e.alias) \in Name \cup {UNNAMED}
    <3>1. e \in Record
      BY <2>1, <1>d DEF Loadable
    <3> QED
      BY <3>1, RequestedAlias DEF Record, TokenInfo
  <2>5. IInv'
    BY <2>3, <2>4, <1>i, AddIInv
  <2>6. LoadedSoFar'
    BY <2>1, <2>3, <1>i, <1>d, NextRecordLoaded
  <2>7. \A s \in Selector : sel'[s] = None
    BY <2>3 DEF Add, selVars, RouteInv
  <2>8. DiskOK' /\ LockOK'
    BY <2>1, <1>i DEF DiskOK, Absent, Torn, Whole, Loadable, LockOK
  <2>9. Idle' /\ FileFollows'
    BY <2>1, <2>3, <1>d DEF Idle, FileFollows
  <2> QED
    BY <2>1, <2>3, <2>5, <2>6, <2>7, <2>8, <2>9, <1>i DEF RouteInv
<1> QED
  BY <1>1, <1>2, <1>3

\* Every step keeps the invariant.
LEMMA NextRoute == RouteInv /\ [RouteNext /\ KeysDistinct']_routeVars => RouteInv'
<1> SUFFICES ASSUME RouteInv, [RouteNext /\ KeysDistinct']_routeVars
             PROVE  RouteInv'
  OBVIOUS
<1>1. CASE UNCHANGED routeVars
  <2>1. UNCHANGED vars /\ UNCHANGED <<lock, disk, behind, renamed, detached, run, stop>>
    BY <1>1 DEF routeVars, fileVars, procVars
  <2>2. Image' = Image /\ UNCHANGED <<tokens, slots, id_to_alias, free_ids, qlen>>
    BY <2>1, StoreStill, ImageKept DEF RouteInv
  <2>3. LockOK' /\ DiskOK'
    BY <2>1 DEF RouteInv, LockOK, DiskOK, Absent, Torn, Whole, Loadable
  <2>4. Idle'
    BY <2>1, <2>2 DEF RouteInv, Idle
  <2>5. FileFollows'
    BY <2>1, <2>2 DEF RouteInv, FileFollows, Clean, Contents, AsRequested
  <2>6. run' = "loading" => LoadedSoFar'
    BY <2>1, <2>2 DEF RouteInv, LoadedSoFar, Whole, AsRequested
  <2> QED
    BY <2>1, <2>3, <2>4, <2>5, <2>6, StillStep DEF RouteInv
<1>2. CASE Handler /\ KeysDistinct'
  <2>1. ASSUME NEW op \in Route \ {"shutdown"}, Begin(op) PROVE RouteInv'
    BY <2>1, BeginRoute
  <2>2. CASE \/ \E k \in Key, st \in RequestStatus, a \in Name \cup {UNNAMED} : AddItem(k, st, a)
             \/ \E id \in LiveIds : DeleteItem(id)
             \/ \E id \in LiveIds, st \in RequestStatus : StatusItem(id, st)
             \/ \E id \in LiveIds, a \in Name \cup {UNNAMED} : AliasItem(id, a)
             \/ \E id \in LiveIds, k \in Key : MergeItem(id, k)
             \/ \E id \in LiveIds : FieldItem(id)
    BY <1>2, <2>2, ItemRoute
  <2>3. CASE \/ \E id \in LiveIds : NetItem(id)
             \/ \E k \in Key : Refreshed(k)
             \/ \E n \in Name \cup {None} : Profiled(n)
             \/ \E u \in BOOLEAN : NetEnds(u)
    BY <1>2, <2>3, RemoteRoute
  <2>4. CASE Rename \/ NothingToSave
    BY <2>4, EndRoute
  <2> QED
    BY <1>2, <2>1, <2>2, <2>3, <2>4 DEF Handler
<1>3. CASE Save
  BY <1>3, EndRoute, SaveRoute DEF Save
<1>4. CASE Lifecycle /\ KeysDistinct'
  <2>1. CASE Cancel \/ (\E op \in {"open", "len"} : Lands(op)) \/ Signal \/ ShutdownSave
    BY <2>1, CancelRoute
  <2>2. CASE Exit \/ Crash
    BY <2>2, DiesRoute DEF Exit, Crash
  <2>3. CASE Start \/ Loaded \/ (\E e \in disk.recs : LoadNext(e))
    BY <1>4, <2>3, LoadRoute
  <2> QED
    BY <1>4, <2>1, <2>2, <2>3 DEF Lifecycle
<1>5. ASSUME NEW id \in LiveIds, NEW n \in Name, UsageRename(id, n) PROVE RouteInv'
  BY <1>5, UsageRoute
<1> QED
  BY <1>1, <1>2, <1>3, <1>4, <1>5 DEF RouteNext

-----------------------------------------------------------------------------
(* The results *)

\* The routes keep the types of their variables and leave the store's indexes
\* exact: the invariant of TokenManager holds with the file operations, lost
\* clients and restarts around it.
THEOREM RoutesKeepStore == RouteSpec => [](RouteTypeOK /\ IInv)
<1>1. RouteInv => RouteTypeOK /\ IInv
  <2> SUFFICES ASSUME RouteInv PROVE RouteTypeOK
    BY DEF RouteInv
  <2>1. /\ disk.state \in {"absent", "torn", "whole"}
        /\ disk.recs \subseteq [pos : Nat, alias : Alias, info : TokenInfo]
    <3>1. CASE disk = Absent \/ disk = Torn
      BY <3>1 DEF Absent, Torn
    <3>2. CASE disk = Whole(disk.recs) /\ Loadable(disk.recs)
      BY <3>2 DEF Whole, Loadable, Record
    <3> QED
      BY <3>1, <3>2 DEF RouteInv, DiskOK
  <2> QED
    BY <2>1 DEF RouteInv, RouteTypeOK, LockOK, IInv
<1> QED
  BY <1>1, InitRoute, NextRoute, PTL DEF RouteSpec

\* The aliases of list and save are exact after any requests and restarts.
THEOREM AliasesSurvive == RouteSpec => []AliasesExact
<1>1. IInv => AliasesExact
  BY DEF IInv
<1> QED
  BY <1>1, RoutesKeepStore, PTL

\* Between requests the file holds the store's tokens in their order, unless a
\* save failed or lost its handler, and their names but for those that usage
\* checks have given since the last save.
THEOREM FileIsCurrent == RouteSpec => []DiskCurrent
<1>1. RouteInv => DiskCurrent
  BY DEF RouteInv, FileFollows, Clean, DiskCurrent
<1> QED
  BY <1>1, InitRoute, NextRoute, PTL DEF RouteSpec

\* No file that a save has written makes the next start fail with AliasExists.
THEOREM StartNeverRefused == RouteSpec => []LoadNeverRefuses
<1>1. RouteInv => LoadNeverRefuses
  BY DEF RouteInv, LoadNeverRefuses
<1> QED
  BY <1>1, InitRoute, NextRoute, PTL DEF RouteSpec

\* A load that ends has restored every record of the file, in order, with its
\* name and state.
THEOREM LoadsWhole == RouteSpec => RestartRestores
<1>1. RouteInv /\ [RouteNext /\ KeysDistinct']_routeVars
        => [run = "loading" /\ run' = "up" => Contents(Image', {}) = Contents(disk.recs, {})]_routeVars
  <2> SUFFICES ASSUME RouteInv, RouteNext, run = "loading", run' = "up"
               PROVE  Contents(Image', {}) = Contents(disk.recs, {})
    OBVIOUS
  <2>0. lock = None /\ detached = {} /\ run' # run
    BY DEF RouteInv, Idle
  <2>1. ~Handler
    BY <2>0 DEF Handler, Begin, AddItem, DeleteItem, StatusItem, AliasItem, MergeItem,
                FieldItem, NetItem, Refreshed, Profiled, NetEnds, Rename, NothingToSave, Holds
  <2>2. ~Save
    BY <2>0 DEF Save, SaveOpen, SaveLen, SaveCopy, SaveFails, Holds
  <2>3. ~Cancel /\ ~Signal /\ ~ShutdownSave /\ ~Start /\ ~Exit /\ ~Crash
    BY <2>0 DEF Cancel, Signal, ShutdownSave, Start, Exit, Crash, Dies
  <2>4. /\ \A op \in {"open", "len"} : ~Lands(op)
        /\ \A e \in disk.recs : ~LoadNext(e)
    BY <2>0 DEF Lands, LoadNext
  <2>u. \A id \in LiveIds, n \in Name : ~UsageRename(id, n)
    BY DEF UsageRename
  <2>5. Loaded
    BY <2>1, <2>2, <2>3, <2>4, <2>u DEF RouteNext, Lifecycle
  <2>6. UNCHANGED vars /\ UNCHANGED <<lock, disk, behind, renamed, detached, stop>> /\ qlen = Cardinality(disk.recs)
    BY <2>5 DEF Loaded, fileVars
  <2>7. Image' = Image
    BY <2>6, StoreStill, ImageKept DEF RouteInv
  <2>8. Loadable(disk.recs)
    <3>1. disk = Whole(disk.recs)
      BY DEF RouteInv, LoadedSoFar
    <3>2. disk.state = "whole"
      BY <3>1 DEF Whole
    <3> QED
      BY <3>2 DEF RouteInv, DiskOK, Absent, Torn
  <2> QED
    BY <2>6, <2>7, <2>8, LoadedAll DEF RouteInv
<1> QED
  BY <1>1, InitRoute, NextRoute, PTL DEF RouteSpec, RestartRestores
=============================================================================
