-------------------------- MODULE InternPoolProofs --------------------------
(***************************************************************************)
(* The pools of InternPool are safe for any number of owners, values and   *)
(* addresses.  Counting alone is not inductive: IInv adds who may wait to  *)
(* free a cell, that a cell whose key is its own is the one in the map,    *)
(* and that without a revival nobody counts a waiting cell up again.       *)
(***************************************************************************)
EXTENDS InternPool, TLAPS, FiniteSetTheorems

Cell == [value : Value, count : Int]

\* Where a pointer or a value is used, there is one.
InUse ==
  \A o \in Owner :
    /\ pc[o] = "hold" => ptr[o] \in Addr /\ value[o] \in Value
    /\ pc[o] = "free" => ptr[o] \in Addr /\ heap[ptr[o]] # None
    /\ pc[o] = "create" => value[o] \in Value

\* A cell whose value shares its key with no other is the one in the map.
Canonical ==
  \A a \in Addr :
    heap[a] # None /\ ~Shares(heap[a].value) => pool[KeyOf(heap[a].value)] = a

\* Until a count is raised from 0, whoever waits to free a cell is alone with
\* it.
Unrevived ==
  ~revived =>
    /\ ~fault
    /\ \A o \in Owner : pc[o] # "dangling"
    /\ \A o \in Owner : pc[o] = "free" => heap[ptr[o]].count = 0
    /\ \A o, u \in Owner : pc[o] = "free" /\ pc[u] = "free" /\ ptr[o] = ptr[u] => o = u

IInv == TypeOK /\ InUse /\ PointersValid /\ NoLeak /\ Canonical /\ Unrevived

-----------------------------------------------------------------------------
(* The holders of a cell *)

\* Finite, so that a count says how many there are.
LEMMA HoldersFinite ==
  ASSUME NEW a
  PROVE  /\ IsFiniteSet(Holders(a))
         /\ Cardinality(Holders(a)) \in Nat
         /\ Cardinality(Holders(a)) = 0 <=> Holders(a) = {}
<1>1. Holders(a) \subseteq Owner
  BY DEF Holders
<1>2. IsFiniteSet(Holders(a))
  BY <1>1, PoolAssumption, FS_Subset
<1> QED
  BY <1>2, FS_CardinalityType, FS_EmptySet

\* A new handle of a cell adds one, whatever it is that its owner did before.
LEMMA OneMore ==
  ASSUME NEW a, NEW o \in Owner, o \notin Holders(a), Holders(a)' = Holders(a) \cup {o}
  PROVE  Cardinality(Holders(a))' = Cardinality(Holders(a)) + 1
<1>1. IsFiniteSet(Holders(a))
  BY HoldersFinite
<1> QED
  BY <1>1, FS_AddElement

\* A handle that is dropped takes one away.
LEMMA OneLess ==
  ASSUME NEW a, NEW o \in Owner, o \in Holders(a), Holders(a)' = Holders(a) \ {o}
  PROVE  Cardinality(Holders(a))' = Cardinality(Holders(a)) - 1
<1>1. IsFiniteSet(Holders(a))
  BY HoldersFinite
<1> QED
  BY <1>1, FS_RemoveElement

\* In the map of either pool a key is a key, and that of a string is its own.
LEMMA KeyFacts ==
  ASSUME NEW v \in Value
  PROVE  /\ KeyOf(v) \in MapKey
         /\ \A w \in Value : KeyOf(w) = KeyOf(v) /\ ~Shares(v) => w = v
BY PoolAssumption DEF KeyOf, MapKey, Value, Shares

\* What the map leads to is there: nobody reads freed memory in new.
LEMMA NeverReadsFreed ==
  ASSUME IInv, NEW v \in Value
  PROVE  ~ReadsFreed(v)
BY KeyFacts DEF ReadsFreed, InPool, IInv, PointersValid

LEMMA InitIInv == Init => IInv
<1> SUFFICES ASSUME Init PROVE IInv
  OBVIOUS
<1> USE DEF Init
<1>1. TypeOK
  BY DEF TypeOK, Pc
<1>2. InUse /\ NoLeak /\ Canonical /\ Unrevived
  BY DEF InUse, NoLeak, Canonical, Unrevived
<1>3. PointersValid
  BY DEF PointersValid
<1> QED
  BY <1>1, <1>2, <1>3 DEF IInv

-----------------------------------------------------------------------------
\* A handle is given out for a cell that is there: Reuse and Clone.
LEMMA CountUpIInv ==
  ASSUME IInv, NEW o \in Owner, NEW p \in Addr, heap[p] # None,
         pc[o] \in {"idle", "create"},
         heap' = Counted(p, 1),
         pc' = [pc EXCEPT ![o] = "hold"],
         ptr' = [ptr EXCEPT ![o] = p],
         value' = [value EXCEPT ![o] = heap[p].value],
         pool' = pool, fault' = fault,
         revived' = (revived \/ heap[p].count = 0)
  PROVE  IInv'
<1>t. TypeOK
  BY DEF IInv
<1>h. heap[p] \in Cell
  BY <1>t DEF TypeOK, Cell
<1>1. \A a \in Addr :
        /\ heap'[a] = None <=> heap[a] = None
        /\ heap'[a] # None => heap'[a].value = heap[a].value
        /\ heap'[a] # None =>
             heap'[a].count = IF a = p THEN heap[a].count + 1 ELSE heap[a].count
  BY <1>t, <1>h, PoolAssumption DEF TypeOK, Cell, Counted
<1>2. TypeOK'
  <2>1. heap' \in [Addr -> Cell \cup {None}]
    BY <1>t, <1>h DEF TypeOK, Cell, Counted
  <2> QED
    BY <2>1, <1>t, <1>h DEF TypeOK, Cell, Pc
<1>3. InUse'
  BY <1>t, <1>h, <1>1 DEF IInv, InUse, TypeOK, Cell
<1>4. \A a \in Addr : Holders(a)' = IF a = p THEN Holders(a) \cup {o} ELSE Holders(a)
  BY <1>t DEF Holders, TypeOK
<1>5. \A a \in Addr : o \notin Holders(a)
  BY DEF Holders
<1>6. Cardinality(Holders(p))' = Cardinality(Holders(p)) + 1
  BY <1>4, <1>5, OneMore
<1>7. PointersValid'
  <2>1. \A u \in Owner : pc'[u] = "hold" => heap'[ptr'[u]] # None /\ heap'[ptr'[u]].value = value'[u]
    BY <1>t, <1>1 DEF IInv, PointersValid, InUse, TypeOK
  <2>2. \A a \in Addr : heap'[a] # None => heap'[a].count = Cardinality(Holders(a))'
    BY <1>1, <1>4, <1>6 DEF IInv, PointersValid
  <2>3. \A k \in MapKey : pool'[k] # None =>
          heap'[pool'[k]] # None /\ KeyOf(heap'[pool'[k]].value) = k
    BY <1>t, <1>1 DEF IInv, PointersValid, TypeOK
  <2> QED
    BY <2>1, <2>2, <2>3 DEF PointersValid, KeyOf
<1>8. NoLeak'
  BY <1>t, <1>1, <1>4 DEF IInv, NoLeak, TypeOK
<1>9. Canonical'
  BY <1>1 DEF IInv, Canonical, KeyOf, Shares
<1>10. Unrevived'
  BY <1>t, <1>1 DEF IInv, Unrevived, InUse, TypeOK
<1> QED
  BY <1>2, <1>3, <1>7, <1>8, <1>9, <1>10 DEF IInv

\* Token::new and ArcStr::new find what they look for, in either of their two
\* looks.
LEMMA ReuseIInv ==
  ASSUME IInv, NEW o \in Owner, NEW v \in Value, Hit(v), Reuse(o, v),
         pc[o] \in {"idle", "create"},
         value' = [value EXCEPT ![o] = v], fault' = fault
  PROVE  IInv'
<1>1. pool[KeyOf(v)] \in Addr /\ heap[pool[KeyOf(v)]] # None /\ heap[pool[KeyOf(v)]].value = v
  BY KeyFacts DEF Hit, InPool, ReadsFreed, IInv, TypeOK
<1> QED
  BY <1>1, CountUpIInv DEF Reuse

LEMMA NewIInv ==
  ASSUME IInv, NEW o \in Owner, NEW v \in Value, New(o, v)
  PROVE  IInv'
<1>1. fault' = fault
  <2>1. ~ReadsFreed(v)
    BY NeverReadsFreed
  <2>2. fault = FALSE
    BY DEF New, IInv, TypeOK
  <2>3. ReadsFreed(v) = FALSE
    BY <2>1 DEF ReadsFreed
  <2> QED
    BY <2>2, <2>3 DEF New
<1>2. CASE Hit(v)
  BY <1>1, <1>2, ReuseIInv DEF New
<1>3. CASE ~Hit(v)
  <2>1. /\ pc[o] = "idle" /\ value' = [value EXCEPT ![o] = v]
        /\ pc' = [pc EXCEPT ![o] = "create"]
        /\ UNCHANGED <<heap, pool, ptr, revived, fault>>
    BY <1>1, <1>3 DEF New
  <2>t. TypeOK
    BY DEF IInv
  <2>2. TypeOK'
    BY <2>t, <2>1 DEF TypeOK, Pc
  <2>3. \A a : Holders(a)' = Holders(a)
    BY <2>t, <2>1 DEF Holders, TypeOK
  <2>4. InUse'
    BY <2>t, <2>1 DEF IInv, InUse, TypeOK
  <2>5. PointersValid'
    BY <2>t, <2>1, <2>3 DEF IInv, PointersValid, KeyOf, TypeOK
  <2>6. NoLeak'
    BY <2>t, <2>1, <2>3 DEF IInv, NoLeak, TypeOK
  <2>7. Canonical'
    BY <2>1 DEF IInv, Canonical, KeyOf, Shares
  <2>8. Unrevived'
    BY <2>t, <2>1 DEF IInv, Unrevived, TypeOK
  <2> QED
    BY <2>2, <2>4, <2>5, <2>6, <2>7, <2>8 DEF IInv
<1> QED
  BY <1>2, <1>3

\* A new cell, in the place of one with the same key if there is one.
LEMMA CreateIInv ==
  ASSUME IInv, NEW o \in Owner, Create(o)
  PROVE  IInv'
<1>t. TypeOK
  BY DEF IInv
<1>v. value[o] \in Value
  BY DEF Create, IInv, InUse
<1>1. fault' = fault /\ value' = value /\ pc[o] = "create"
  <2>1. ~ReadsFreed(value[o])
    BY <1>v, NeverReadsFreed
  <2>2. fault = FALSE
    BY <1>t DEF Create, TypeOK
  <2>3. ReadsFreed(value[o]) = FALSE
    BY <2>1 DEF ReadsFreed
  <2> QED
    BY <2>2, <2>3 DEF Create
<1>2. CASE Hit(value[o])
  <2>1. value' = [value EXCEPT ![o] = value[o]]
    BY <1>t, <1>1 DEF TypeOK
  <2> QED
    BY <1>v, <1>1, <1>2, <2>1, ReuseIInv DEF Create
<1>3. CASE ~Hit(value[o])
  <2> DEFINE v == value[o]
  <2>1. PICK p \in Addr :
          /\ heap[p] = None
          /\ heap' = [heap EXCEPT ![p] = [value |-> v, count |-> 1]]
          /\ pool' = [pool EXCEPT ![KeyOf(v)] = p]
          /\ pc' = [pc EXCEPT ![o] = "hold"]
          /\ ptr' = [ptr EXCEPT ![o] = p]
          /\ UNCHANGED revived
    BY <1>3 DEF Create, Insert
  <2>k. KeyOf(v) \in MapKey /\ v \in Value
    BY <1>v, KeyFacts
  <2>2. TypeOK'
    <3>1. heap' \in [Addr -> Cell \cup {None}]
      BY <1>t, <2>1, <2>k DEF TypeOK, Cell
    <3> QED
      BY <3>1, <1>t, <1>1, <2>1, <2>k DEF TypeOK, Cell, Pc
  <2>3. \A a \in Addr : /\ a # p => heap'[a] = heap[a]
                        /\ a = p => heap'[a] # None /\ heap'[a].value = v /\ heap'[a].count = 1
    BY <1>t, <2>1, <2>k, PoolAssumption DEF TypeOK, Cell
  <2>4. \A u \in Owner : pc[u] \in {"hold", "free"} => ptr[u] # p
    BY <2>1 DEF IInv, InUse, PointersValid
  <2>5. Holders(p) = {} /\ \A a \in Addr : Holders(a)' = IF a = p THEN {o} ELSE Holders(a)
    BY <1>t, <1>1, <2>1, <2>4 DEF Holders, TypeOK
  <2>6. Cardinality(Holders(p))' = 1
    BY <2>5, FS_Singleton
  <2>7. InUse'
    BY <1>t, <1>1, <2>1, <2>3, <2>4, <2>k DEF IInv, InUse, TypeOK
  <2>8. PointersValid'
    <3>1. \A u \in Owner : pc'[u] = "hold" => heap'[ptr'[u]] # None /\ heap'[ptr'[u]].value = value'[u]
      BY <1>t, <1>1, <2>1, <2>3, <2>4 DEF IInv, PointersValid, InUse, TypeOK
    <3>2. \A a \in Addr : heap'[a] # None => heap'[a].count = Cardinality(Holders(a))'
      BY <2>3, <2>5, <2>6 DEF IInv, PointersValid
    <3>3. \A k \in MapKey : pool'[k] # None =>
            heap'[pool'[k]] # None /\ KeyOf(heap'[pool'[k]].value) = k
      <4> SUFFICES ASSUME NEW k \in MapKey, pool'[k] # None
                   PROVE  heap'[pool'[k]] # None /\ KeyOf(heap'[pool'[k]].value) = k
        OBVIOUS
      <4>1. CASE k = KeyOf(v)
        BY <4>1, <1>t, <2>1, <2>3 DEF TypeOK
      <4>2. CASE k # KeyOf(v)
        <5>1. pool'[k] = pool[k] /\ pool[k] \in Addr
          BY <4>2, <1>t, <2>1 DEF TypeOK
        <5>2. heap[pool[k]] # None /\ KeyOf(heap[pool[k]].value) = k
          BY <5>1 DEF IInv, PointersValid
        <5> QED
          BY <5>1, <5>2, <2>1, <2>3
      <4> QED
        BY <4>1, <4>2
    <3> QED
      BY <3>1, <3>2, <3>3 DEF PointersValid, KeyOf
  <2>9. NoLeak'
    <3> SUFFICES ASSUME NEW a \in Addr, heap'[a] # None
                 PROVE  Holders(a)' # {} \/ \E u \in Owner : pc'[u] = "free" /\ ptr'[u] = a
      BY DEF NoLeak
    <3>1. CASE a = p
      BY <3>1, <2>5
    <3>2. CASE a # p
      <4>1. Holders(a) # {} \/ \E u \in Owner : pc[u] = "free" /\ ptr[u] = a
        BY <3>2, <2>3 DEF IInv, NoLeak
      <4>2. \A u \in Owner : pc[u] = "free" => pc'[u] = "free" /\ ptr'[u] = ptr[u]
        BY <1>t, <1>1, <2>1 DEF TypeOK
      <4> QED
        BY <3>2, <4>1, <4>2, <2>5
    <3> QED
      BY <3>1, <3>2
  <2>10. Canonical'
    <3> SUFFICES ASSUME NEW a \in Addr, heap'[a] # None, ~Shares(heap'[a].value)
                 PROVE  pool'[KeyOf(heap'[a].value)] = a
      BY DEF Canonical, KeyOf, Shares
    <3>1. CASE a = p
      BY <3>1, <1>t, <2>1, <2>3, <2>k DEF TypeOK
    <3>2. CASE a # p
      <4>1. heap[a] # None /\ ~Shares(heap[a].value) /\ heap'[a] = heap[a]
        BY <3>2, <2>3
      <4>2. heap[a].value \in Value
        BY <4>1, <1>t DEF TypeOK
      <4>3. pool[KeyOf(heap[a].value)] = a
        BY <4>1 DEF IInv, Canonical
      <4>4. KeyOf(heap[a].value) # KeyOf(v)
        <5> SUFFICES ASSUME KeyOf(heap[a].value) = KeyOf(v) PROVE FALSE
          OBVIOUS
        <5>1. v = heap[a].value
          BY <4>1, <4>2, <2>k, KeyFacts
        <5> QED
          BY <5>1, <4>1, <4>3, <1>3, PoolAssumption DEF Hit, InPool, ReadsFreed
      <4> QED
        BY <4>1, <4>2, <4>3, <4>4, <1>t, <2>1, KeyFacts DEF TypeOK
    <3> QED
      BY <3>1, <3>2
  <2>11. Unrevived'
    BY <1>t, <1>1, <2>1, <2>3, <2>4 DEF IInv, Unrevived, InUse, TypeOK
  <2> QED
    BY <2>2, <2>7, <2>8, <2>9, <2>10, <2>11 DEF IInv
<1> QED
  BY <1>2, <1>3

LEMMA CloneIInv ==
  ASSUME IInv, NEW o \in Owner, NEW u \in Owner, Clone(o, u)
  PROVE  IInv'
<1>1. /\ ptr[u] \in Addr /\ heap[ptr[u]] # None /\ heap[ptr[u]].value = value[u]
      /\ u \in Holders(ptr[u])
  BY DEF Clone, IInv, InUse, PointersValid, Holders
<1>2. heap[ptr[u]].count # 0
  BY <1>1, HoldersFinite DEF IInv, PointersValid
<1>3. revived' = (revived \/ heap[ptr[u]].count = 0)
  BY <1>2 DEF Clone, IInv, TypeOK
<1> QED
  BY <1>1, <1>3, CountUpIInv DEF Clone

-----------------------------------------------------------------------------
\* The last handle leaves its owner waiting to free the cell.
LEMMA DropIInv ==
  ASSUME IInv, NEW o \in Owner, Drop(o)
  PROVE  IInv'
<1>a. PICK p \in Addr : p = ptr[o]
  BY DEF Drop, IInv, InUse
<1>t. TypeOK
  BY DEF IInv
<1>p. p \in Addr /\ heap[p] # None /\ heap[p] \in Cell /\ o \in Holders(p)
  BY <1>t, <1>a DEF Drop, IInv, InUse, PointersValid, Holders, TypeOK, Cell
<1>0. /\ pc[o] = "hold" /\ heap' = Counted(p, -1)
      /\ pc' = [pc EXCEPT ![o] = IF Last(heap[p].count) THEN "free" ELSE "idle"]
      /\ ptr' = [ptr EXCEPT ![o] = IF Last(heap[p].count) THEN p ELSE None]
      /\ value' = [value EXCEPT ![o] = None]
      /\ UNCHANGED <<pool, revived, fault>>
  BY <1>a DEF Drop
<1>1. \A a \in Addr :
        /\ heap'[a] = None <=> heap[a] = None
        /\ heap'[a] # None => heap'[a].value = heap[a].value
        /\ heap'[a] # None =>
             heap'[a].count = IF a = p THEN heap[a].count - 1 ELSE heap[a].count
  BY <1>t, <1>p, <1>0, PoolAssumption DEF TypeOK, Cell, Counted
<1>2. TypeOK'
  <2>1. heap' \in [Addr -> Cell \cup {None}]
    BY <1>t, <1>p, <1>0 DEF TypeOK, Cell, Counted
  <2> QED
    BY <2>1, <1>t, <1>p, <1>0 DEF TypeOK, Cell, Pc
<1>3. InUse'
  BY <1>t, <1>p, <1>0, <1>1 DEF IInv, InUse, TypeOK
<1>4. \A a \in Addr : Holders(a)' = IF a = p THEN Holders(a) \ {o} ELSE Holders(a)
  BY <1>t, <1>a, <1>p, <1>0 DEF Holders, TypeOK
<1>5. Cardinality(Holders(p))' = Cardinality(Holders(p)) - 1
  BY <1>p, <1>4, OneLess
<1>6. PointersValid'
  <2>1. \A u \in Owner : pc'[u] = "hold" => heap'[ptr'[u]] # None /\ heap'[ptr'[u]].value = value'[u]
    BY <1>t, <1>0, <1>1 DEF IInv, PointersValid, InUse, TypeOK
  <2>2. \A a \in Addr : heap'[a] # None => heap'[a].count = Cardinality(Holders(a))'
    BY <1>1, <1>4, <1>5 DEF IInv, PointersValid
  <2>3. \A k \in MapKey : pool'[k] # None =>
          heap'[pool'[k]] # None /\ KeyOf(heap'[pool'[k]].value) = k
    BY <1>t, <1>0, <1>1 DEF IInv, PointersValid, TypeOK
  <2> QED
    BY <2>1, <2>2, <2>3 DEF PointersValid, KeyOf
<1>7. NoLeak'
  <2> SUFFICES ASSUME NEW a \in Addr, heap'[a] # None
               PROVE  Holders(a)' # {} \/ \E u \in Owner : pc'[u] = "free" /\ ptr'[u] = a
    BY DEF NoLeak
  <2>1. CASE a # p
    <3>1. Holders(a) # {} \/ \E u \in Owner : pc[u] = "free" /\ ptr[u] = a
      BY <1>1 DEF IInv, NoLeak
    <3>2. \A u \in Owner : pc[u] = "free" => pc'[u] = "free" /\ ptr'[u] = ptr[u]
      BY <1>t, <1>0 DEF TypeOK
    <3> QED
      BY <2>1, <3>1, <3>2, <1>4
  <2>2. CASE a = p /\ Last(heap[p].count)
    BY <2>2, <1>t, <1>0 DEF TypeOK
  <2>3. CASE a = p /\ ~Last(heap[p].count)
    <3>1. Cardinality(Holders(p)) # 1
      BY <2>3, <1>p DEF Last, IInv, PointersValid
    <3>2. Cardinality(Holders(p))' # 0
      BY <3>1, <1>5, HoldersFinite
    <3>3. Holders(p)' # {}
      BY <3>2, FS_EmptySet
    <3> QED
      BY <2>3, <3>3
  <2> QED
    BY <2>1, <2>2, <2>3
<1>8. Canonical'
  BY <1>0, <1>1 DEF IInv, Canonical, KeyOf, Shares
<1>9. Unrevived'
  <2> SUFFICES ASSUME ~revived PROVE Unrevived'
    BY <1>0 DEF Unrevived
  <2>1. heap[p].count # 0
    BY <1>p, HoldersFinite DEF IInv, PointersValid
  <2>2. \A u \in Owner : pc[u] = "free" => u # o /\ ptr[u] # p
    BY <2>1, <1>0 DEF IInv, Unrevived
  <2>3. \A u \in Owner : pc'[u] = "free" /\ u # o => pc[u] = "free" /\ ptr'[u] = ptr[u]
    BY <1>t, <1>0 DEF TypeOK
  <2>4. pc'[o] = "free" => ptr'[o] = p /\ heap[p].count = 1
    BY <1>t, <1>0 DEF TypeOK, Last
  <2>5. \A u \in Owner : pc'[u] # "dangling"
    BY <1>t, <1>0 DEF TypeOK, IInv, Unrevived
  <2>6. \A u \in Owner : pc'[u] = "free" => heap'[ptr'[u]].count = 0
    BY <1>p, <1>1, <2>2, <2>3, <2>4 DEF IInv, Unrevived, InUse
  <2>7. \A u, w \in Owner : pc'[u] = "free" /\ pc'[w] = "free" /\ ptr'[u] = ptr'[w] => u = w
    BY <2>2, <2>3, <2>4 DEF IInv, Unrevived
  <2> QED
    BY <2>5, <2>6, <2>7, <1>0 DEF Unrevived, IInv
<1> QED
  BY <1>2, <1>3, <1>6, <1>7, <1>8, <1>9 DEF IInv

\* A cell that nobody holds is removed from the map and freed.
LEMMA FreedIInv ==
  ASSUME IInv, NEW o \in Owner, Free(o), Dead(ptr[o])
  PROVE  IInv'
<1>a. PICK p \in Addr : p = ptr[o] /\ heap[p] # None
  BY DEF Free, IInv, InUse
<1>t. TypeOK
  BY DEF IInv
<1>0. /\ pc[o] = "free" /\ heap[p].count = 0
      /\ pool' = Removed(p)
      /\ heap' = [heap EXCEPT ![p] = None]
      /\ pc' = [u \in Owner |-> IF u = o THEN "idle"
                                ELSE IF pc[u] = "free" /\ ptr[u] = p THEN "dangling"
                                ELSE pc[u]]
      /\ ptr' = [ptr EXCEPT ![o] = None]
      /\ UNCHANGED <<value, revived, fault>>
  BY <1>a DEF Free, Dead
<1>v. heap[p].value \in Value /\ KeyOf(heap[p].value) \in MapKey
  BY <1>a, <1>t, KeyFacts DEF TypeOK
<1>1. \A a \in Addr : heap'[a] = IF a = p THEN None ELSE heap[a]
  BY <1>t, <1>0 DEF TypeOK
<1>2. Holders(p) = {}
  BY <1>a, <1>0, HoldersFinite DEF IInv, PointersValid
<1>3. \A u \in Owner : pc[u] = "hold" => ptr[u] # p
  BY <1>2 DEF Holders
<1>4. \A u \in Owner : /\ pc'[u] = "hold" <=> pc[u] = "hold"
                       /\ pc'[u] = "create" <=> pc[u] = "create"
                       /\ pc'[u] = "free" <=> pc[u] = "free" /\ ptr[u] # p
                       /\ u # o => ptr'[u] = ptr[u]
  BY <1>t, <1>a, <1>0 DEF TypeOK
<1>5. \A a : a \in Addr => Holders(a)' = Holders(a)
  <2> SUFFICES ASSUME NEW a \in Addr, NEW u \in Owner
               PROVE  pc'[u] = "hold" /\ ptr'[u] = a <=> pc[u] = "hold" /\ ptr[u] = a
    BY DEF Holders
  <2> QED
    BY <1>4, <1>0
<1>6. /\ pool' \in [MapKey -> Addr \cup {None}]
      /\ \A k \in MapKey : pool'[k] # None => pool'[k] = pool[k] /\ pool[k] # p
      /\ \A k \in MapKey : pool[k] # p /\ k # KeyOf(heap[p].value) => pool'[k] = pool[k]
  <2>1. \A k \in MapKey : pool[k] = p => k = KeyOf(heap[p].value)
    BY PoolAssumption DEF IInv, PointersValid
  <2>2. CASE heap[p].value \in Text
    BY <2>1, <2>2, <1>t, <1>0 DEF Removed, TypeOK
  <2>3. CASE heap[p].value \notin Text
    BY <2>1, <2>3, <1>t, <1>0, <1>v DEF Removed, TypeOK
  <2> QED
    BY <2>2, <2>3
<1>7. TypeOK'
  <2>1. heap' \in [Addr -> Cell \cup {None}]
    BY <1>t, <1>0 DEF TypeOK, Cell
  <2>2. pc' \in [Owner -> Pc]
    BY <1>t, <1>0 DEF TypeOK, Pc
  <2>3. ptr' \in [Owner -> Addr \cup {None}]
    BY <1>t, <1>0 DEF TypeOK
  <2> QED
    BY <2>1, <2>2, <2>3, <1>t, <1>0, <1>6 DEF TypeOK, Cell
<1>8. InUse'
  BY <1>0, <1>1, <1>3, <1>4 DEF IInv, InUse
<1>9. PointersValid'
  <2>1. \A u \in Owner : pc'[u] = "hold" => heap'[ptr'[u]] # None /\ heap'[ptr'[u]].value = value'[u]
    BY <1>0, <1>1, <1>3, <1>4 DEF IInv, PointersValid, InUse
  <2>2. \A a \in Addr : heap'[a] # None => heap'[a].count = Cardinality(Holders(a))'
    BY <1>1, <1>5 DEF IInv, PointersValid
  <2>3. \A k \in MapKey : pool'[k] # None =>
          heap'[pool'[k]] # None /\ KeyOf(heap'[pool'[k]].value) = k
    BY <1>t, <1>1, <1>6 DEF IInv, PointersValid, TypeOK
  <2> QED
    BY <2>1, <2>2, <2>3 DEF PointersValid, KeyOf
<1>10. NoLeak'
  <2> SUFFICES ASSUME NEW a \in Addr, heap'[a] # None
               PROVE  Holders(a)' # {} \/ \E u \in Owner : pc'[u] = "free" /\ ptr'[u] = a
    BY DEF NoLeak
  <2>1. a # p /\ heap[a] # None
    BY <1>1
  <2>2. Holders(a) # {} \/ \E u \in Owner : pc[u] = "free" /\ ptr[u] = a
    BY <2>1 DEF IInv, NoLeak
  <2> QED
    BY <2>1, <2>2, <1>a, <1>4, <1>5
<1>11. Canonical'
  <2> SUFFICES ASSUME NEW a \in Addr, heap'[a] # None, ~Shares(heap'[a].value)
               PROVE  pool'[KeyOf(heap'[a].value)] = a
    BY DEF Canonical, KeyOf, Shares
  <2>1. a # p /\ heap'[a] = heap[a]
    BY <1>1
  <2>2. heap[a].value \in Value
    BY <2>1, <1>t DEF TypeOK
  <2>3. pool[KeyOf(heap[a].value)] = a /\ KeyOf(heap[a].value) \in MapKey
    BY <2>1, <2>2, KeyFacts DEF IInv, Canonical
  <2>4. KeyOf(heap[a].value) # KeyOf(heap[p].value)
    <3> SUFFICES ASSUME KeyOf(heap[a].value) = KeyOf(heap[p].value) PROVE FALSE
      OBVIOUS
    <3>1. heap[p].value = heap[a].value
      BY <1>v, <2>1, <2>2, KeyFacts
    <3>2. pool[KeyOf(heap[p].value)] = p
      BY <3>1, <2>1, <1>a DEF IInv, Canonical
    <3> QED
      BY <3>2, <2>1, <2>3
  <2> QED
    BY <2>1, <2>3, <2>4, <1>6
<1>12. Unrevived'
  <2> SUFFICES ASSUME ~revived PROVE Unrevived'
    BY <1>0 DEF Unrevived
  <2>1. \A u \in Owner : pc[u] = "free" /\ ptr[u] = p => u = o
    BY <1>0, <1>a DEF IInv, Unrevived
  <2>2. \A u \in Owner : pc'[u] # "dangling"
    BY <2>1, <1>0 DEF IInv, Unrevived
  <2>3. \A u \in Owner : pc'[u] = "free" =>
          pc[u] = "free" /\ ptr[u] # p /\ ptr'[u] = ptr[u] /\ ptr[u] \in Addr
    BY <1>0, <1>4 DEF IInv, InUse
  <2>4. \A u \in Owner : pc'[u] = "free" => heap'[ptr'[u]].count = 0
    BY <2>3, <1>1 DEF IInv, Unrevived
  <2>5. \A u, w \in Owner : pc'[u] = "free" /\ pc'[w] = "free" /\ ptr'[u] = ptr'[w] => u = w
    BY <2>3 DEF IInv, Unrevived
  <2> QED
    BY <2>2, <2>4, <2>5, <1>0 DEF IInv, Unrevived
<1> QED
  BY <1>7, <1>8, <1>9, <1>10, <1>11, <1>12 DEF IInv

\* The second look finds the count raised: somebody holds the cell.
LEMMA SparedIInv ==
  ASSUME IInv, NEW o \in Owner, Free(o), ~Dead(ptr[o])
  PROVE  IInv'
<1>a. PICK p \in Addr : p = ptr[o] /\ heap[p] # None
  BY DEF Free, IInv, InUse
<1>t. TypeOK
  BY DEF IInv
<1>0. /\ pc[o] = "free" /\ heap[p].count # 0
      /\ pc' = [pc EXCEPT ![o] = "idle"] /\ ptr' = [ptr EXCEPT ![o] = None]
      /\ UNCHANGED <<heap, pool, value, revived, fault>>
  BY <1>a DEF Free, Dead
<1>1. TypeOK'
  BY <1>t, <1>0 DEF TypeOK, Pc
<1>2. \A a : Holders(a)' = Holders(a)
  BY <1>t, <1>0 DEF Holders, TypeOK
<1>3. InUse'
  BY <1>t, <1>0 DEF IInv, InUse, TypeOK
<1>4. PointersValid'
  BY <1>t, <1>0, <1>2 DEF IInv, PointersValid, KeyOf, TypeOK
<1>5. NoLeak'
  <2> SUFFICES ASSUME NEW a \in Addr, heap[a] # None
               PROVE  Holders(a) # {} \/ \E u \in Owner : pc'[u] = "free" /\ ptr'[u] = a
    BY <1>0, <1>2 DEF NoLeak
  <2>1. Holders(p) # {}
    BY <1>a, <1>0, HoldersFinite DEF IInv, PointersValid
  <2>2. Holders(a) # {} \/ \E u \in Owner : pc[u] = "free" /\ ptr[u] = a
    BY DEF IInv, NoLeak
  <2>3. \A u \in Owner : u # o => pc'[u] = pc[u] /\ ptr'[u] = ptr[u]
    BY <1>t, <1>0 DEF TypeOK
  <2> QED
    BY <2>1, <2>2, <2>3, <1>a
<1>6. Canonical'
  BY <1>0 DEF IInv, Canonical, KeyOf, Shares
<1>7. Unrevived'
  BY <1>a, <1>0 DEF IInv, Unrevived
<1> QED
  BY <1>1, <1>3, <1>4, <1>5, <1>6, <1>7 DEF IInv

\* Reading the count of a cell that is gone: there has been a revival.
LEMMA FreeAgainIInv ==
  ASSUME IInv, NEW o \in Owner, FreeAgain(o)
  PROVE  IInv'
<1>1. revived /\ fault' = TRUE /\ UNCHANGED <<heap, pool, pc, value, ptr, revived>>
  BY DEF FreeAgain, IInv, Unrevived
<1>2. TypeOK' /\ InUse' /\ Canonical' /\ Unrevived'
  BY <1>1 DEF IInv, TypeOK, InUse, Canonical, Unrevived, KeyOf, Shares
<1>3. \A a : Holders(a)' = Holders(a)
  BY <1>1 DEF Holders
<1>4. PointersValid' /\ NoLeak'
  BY <1>1, <1>3 DEF IInv, PointersValid, NoLeak, KeyOf
<1> QED
  BY <1>2, <1>4 DEF IInv

LEMMA NextIInv == IInv /\ [Next]_vars => IInv'
<1> SUFFICES ASSUME IInv, [Next]_vars PROVE IInv'
  OBVIOUS
<1>1. CASE UNCHANGED vars
  <2>1. \A a : Holders(a)' = Holders(a)
    BY <1>1 DEF Holders, vars
  <2>2. TypeOK' /\ InUse' /\ Canonical' /\ Unrevived'
    BY <1>1 DEF IInv, TypeOK, InUse, Canonical, Unrevived, KeyOf, Shares, vars
  <2>3. PointersValid' /\ NoLeak'
    BY <1>1, <2>1 DEF IInv, PointersValid, NoLeak, KeyOf, vars
  <2> QED
    BY <2>2, <2>3 DEF IInv
<1>2. ASSUME NEW o \in Owner, NEW v \in Value, New(o, v) PROVE IInv'
  BY <1>2, NewIInv
<1>3. ASSUME NEW o \in Owner, Create(o) PROVE IInv'
  BY <1>3, CreateIInv
<1>4. ASSUME NEW o \in Owner, NEW u \in Owner, Clone(o, u) PROVE IInv'
  BY <1>4, CloneIInv
<1>5. ASSUME NEW o \in Owner, Drop(o) PROVE IInv'
  BY <1>5, DropIInv
<1>6. ASSUME NEW o \in Owner, Free(o) PROVE IInv'
  BY <1>6, FreedIInv, SparedIInv
<1>7. ASSUME NEW o \in Owner, FreeAgain(o) PROVE IInv'
  BY <1>7, FreeAgainIInv
<1> QED
  BY <1>1, <1>2, <1>3, <1>4, <1>5, <1>6, <1>7 DEF Next

-----------------------------------------------------------------------------
\* The inductive invariant holds in every state of the pools.
THEOREM PoolInvariant == Spec => []IInv
BY InitIInv, NextIInv, PTL DEF Spec

\* Memory in use is never freed, its count is the number of its handles, and
\* the map of ArcStr::new and Token::new never leads to freed memory.
THEOREM MemoryInUse == Spec => []PointersValid
<1>1. IInv => PointersValid
  BY DEF IInv
<1> QED
  BY <1>1, PoolInvariant, PTL

\* Comparing handles by pointer, as PartialEq does, compares their values,
\* unless another raw token shares the key.
THEOREM SameValueSameCell == Spec => []OneInstance
<1>1. IInv => OneInstance
  BY DEF IInv, OneInstance, Canonical, PointersValid, InUse
<1> QED
  BY <1>1, PoolInvariant, PTL

\* Every cell has a handle or somebody who will free it.
THEOREM NothingLeaks == Spec => []NoLeak
<1>1. IInv => NoLeak
  BY DEF IInv
<1> QED
  BY <1>1, PoolInvariant, PTL

\* Freed memory is read only after new has raised a count from 0.
THEOREM OnlyRevivalFaults == Spec => []FaultNeedsRevival
<1>1. IInv => FaultNeedsRevival
  BY DEF IInv, FaultNeedsRevival, Unrevived
<1> QED
  BY <1>1, PoolInvariant, PTL
=============================================================================
