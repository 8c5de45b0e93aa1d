----------------------------- MODULE InternPool -----------------------------
(***************************************************************************)
(* The two pools of reference-counted values: interned strings             *)
(* (crates/interned/src/arc_str.rs) and tokens                             *)
(* (src/src/app/model/token/cache.rs).                                     *)
(*                                                                         *)
(* A handle is a pointer to a cell on the heap with the value and a count. *)
(* new looks the value up in a global map, first under the read lock and,  *)
(* if it is not there, once more under the write lock, where it creates    *)
(* it.  clone and drop count without a lock; the drop that counts to 0     *)
(* takes the write lock afterwards, looks at the count again, and removes  *)
(* and frees the cell.  Between the two the cell is in the map with a      *)
(* count of 0, and new may find it.                                        *)
(*                                                                         *)
(* A string is its own key in the map.  A token's key is only its user and *)
(* its randomness: two raw tokens may have the same, and the newer takes   *)
(* the place of the older in the map.                                      *)
(*                                                                         *)
(* The count is an atomic with the memory order of one location only; what *)
(* the orderings of the two locks add is not modelled.  The abort when the *)
(* count passes isize::MAX is left out.                                    *)
(***************************************************************************)
EXTENDS Integers, FiniteSets

CONSTANTS
  Owner,      \* owners of at most one handle each, on any thread
  Text,       \* strings
  Raw,        \* raw tokens
  TokenKey,   \* keys of raw tokens
  RawKey,     \* the key of a raw token
  Addr,       \* addresses that the allocator gives out
  None

Value == Text \cup Raw
MapKey == Text \cup TokenKey

ASSUME PoolAssumption ==
  /\ IsFiniteSet(Owner)
  /\ Text \cap Raw = {} /\ Text \cap TokenKey = {}
  /\ RawKey \in [Raw -> TokenKey]
  /\ None \notin Addr /\ None \notin Value
  /\ None \notin [value : Value, count : Int]

VARIABLES
  heap,      \* the allocated cells: value and count
  pool,      \* ARC_STR_POOL and TOKEN_MAP: key -> address
  pc,        \* what an owner is doing
  value,     \* the value it asked for
  ptr,       \* the pointer of its handle, or of the handle it is dropping
  revived,   \* history: new has found a cell whose count was 0
  fault      \* memory that had been freed was read

vars == <<heap, pool, pc, value, ptr, revived, fault>>

Pc == {"idle",       \* has no handle
       "create",     \* in new, between the read lock and the write lock
       "hold",       \* has a handle
       "free",       \* in drop, has counted to 0, waits for the write lock
       "dangling"}   \* the same, and the cell has been freed meanwhile

KeyOf(v) == IF v \in Text THEN v ELSE RawKey[v]

-----------------------------------------------------------------------------
(* ArcStr::new, Token::new *)

InPool(v) == pool[KeyOf(v)] # None

\* The entry's cell is read to compare the value.
ReadsFreed(v) == InPool(v) /\ heap[pool[KeyOf(v)]] = None

Hit(v) == InPool(v) /\ ~ReadsFreed(v) /\ heap[pool[KeyOf(v)]].value = v

\* An atomic addition to the count.
Counted(p, d) ==
  [heap EXCEPT ![p] = [value |-> heap[p].value, count |-> heap[p].count + d]]

\* try_find_existing: the count goes up, whatever it was.
Reuse(o, v) ==
  LET p == pool[KeyOf(v)]
  IN  /\ heap' = Counted(p, 1)
      /\ pc' = [pc EXCEPT ![o] = "hold"]
      /\ ptr' = [ptr EXCEPT ![o] = p]
      /\ revived' = (revived \/ heap[p].count = 0)
      /\ UNCHANGED pool

\* Under the read lock.
New(o, v) ==
  /\ ~fault
  /\ pc[o] = "idle"
  /\ value' = [value EXCEPT ![o] = v]
  /\ fault' = ReadsFreed(v)
  /\ IF Hit(v) THEN Reuse(o, v)
     ELSE pc' = [pc EXCEPT ![o] = "create"] /\ UNCHANGED <<heap, pool, ptr, revived>>

Insert(o, v) ==
  \E p \in Addr :
    /\ heap[p] = None
    /\ heap' = [heap EXCEPT ![p] = [value |-> v, count |-> 1]]
    /\ pool' = [pool EXCEPT ![KeyOf(v)] = p]
    /\ pc' = [pc EXCEPT ![o] = "hold"]
    /\ ptr' = [ptr EXCEPT ![o] = p]
    /\ UNCHANGED revived

CreateUnchecked(o) ==
  /\ ~fault /\ pc[o] = "create" /\ Insert(o, value[o])
  /\ UNCHANGED <<value, fault>>

\* Under the write lock: the lookup again, then a new cell, which takes the
\* key over from the cell of another raw token.
Create(o) ==
  /\ ~fault
  /\ pc[o] = "create"
  /\ fault' = ReadsFreed(value[o])
  /\ IF Hit(value[o]) THEN Reuse(o, value[o]) ELSE Insert(o, value[o])
  /\ UNCHANGED value

-----------------------------------------------------------------------------
(* Clone::clone, of the handle of u *)

Clone(o, u) ==
  /\ ~fault
  /\ pc[o] = "idle" /\ pc[u] = "hold"
  /\ heap' = Counted(ptr[u], 1)
  /\ pc' = [pc EXCEPT ![o] = "hold"]
  /\ value' = [value EXCEPT ![o] = value[u]]
  /\ ptr' = [ptr EXCEPT ![o] = ptr[u]]
  /\ UNCHANGED <<pool, revived, fault>>

-----------------------------------------------------------------------------
(* Drop::drop *)

LastIfZero(count) == count = 0

\* dec_strong: the count before the decrement tells the last handle.
Last(count) == count = 1

Drop(o) ==
  LET p == ptr[o]
  IN  /\ ~fault
      /\ pc[o] = "hold"
      /\ heap' = Counted(p, -1)
      /\ pc' = [pc EXCEPT ![o] = IF Last(heap[p].count) THEN "free" ELSE "idle"]
      /\ ptr' = [ptr EXCEPT ![o] = IF Last(heap[p].count) THEN p ELSE None]
      /\ value' = [value EXCEPT ![o] = None]
      /\ UNCHANGED <<pool, revived, fault>>

RemovedNever(p) == pool

\* A string's entry is found by its pointer, a token's by its key: the entry
\* may by then be that of another raw token.
Removed(p) ==
  LET v == heap[p].value
  IN  IF v \in Text
      THEN [k \in MapKey |-> IF pool[k] = p THEN None ELSE pool[k]]
      ELSE [pool EXCEPT ![KeyOf(v)] = None]

StillDead(p) == TRUE

\* The second look at the count.
Dead(p) == heap[p].count = 0

\* Under the write lock.  Whoever else has counted this cell to 0 is left with
\* a pointer to memory that is gone.
Free(o) ==
  LET p == ptr[o]
  IN  /\ ~fault
      /\ pc[o] = "free"
      /\ IF Dead(p)
         THEN /\ pool' = Removed(p)
              /\ heap' = [heap EXCEPT ![p] = None]
              /\ pc' = [u \in Owner |->
                          IF u = o THEN "idle"
                          ELSE IF pc[u] = "free" /\ ptr[u] = p THEN "dangling"
                          ELSE pc[u]]
         ELSE pc' = [pc EXCEPT ![o] = "idle"] /\ UNCHANGED <<heap, pool>>
      /\ ptr' = [ptr EXCEPT ![o] = None]
      /\ UNCHANGED <<value, revived, fault>>

\* The second look at a count that is no longer there.
FreeAgain(o) ==
  /\ ~fault
  /\ pc[o] = "dangling"
  /\ fault' = TRUE
  /\ UNCHANGED <<heap, pool, pc, value, ptr, revived>>

-----------------------------------------------------------------------------
Init ==
  /\ heap = [a \in Addr |-> None]
  /\ pool = [k \in MapKey |-> None]
  /\ pc = [o \in Owner |-> "idle"]
  /\ value = [o \in Owner |-> None]
  /\ ptr = [o \in Owner |-> None]
  /\ revived = FALSE
  /\ fault = FALSE

Next ==
  \/ \E o \in Owner, v \in Value : New(o, v)
  \/ \E o \in Owner : Create(o)
  \/ \E o, u \in Owner : Clone(o, u)
  \/ \E o \in Owner : Drop(o)
  \/ \E o \in Owner : Free(o)
  \/ \E o \in Owner : FreeAgain(o)

Spec == Init /\ [][Next]_vars

-----------------------------------------------------------------------------
(* Properties *)

Holders(a) == {o \in Owner : pc[o] = "hold" /\ ptr[o] = a}

\* Every variable has its type.
TypeOK ==
  /\ heap \in [Addr -> [value : Value, count : Int] \cup {None}]
  /\ pool \in [MapKey -> Addr \cup {None}]
  /\ pc \in [Owner -> Pc]
  /\ value \in [Owner -> Value \cup {None}]
  /\ ptr \in [Owner -> Addr \cup {None}]
  /\ revived \in BOOLEAN /\ fault \in BOOLEAN

\* "Otherwise memory that is in use would be freed" (cache.rs, drop): a cell
\* is there as long as it has a handle, still holds the value its handles were
\* asked for, and its count is their number.  "Pointers in the pool are always
\* valid" (arc_str.rs, try_find_existing): an entry leads to a cell that is
\* there and has the entry's key.
PointersValid ==
  /\ \A o \in Owner :
       pc[o] = "hold" => heap[ptr[o]] # None /\ heap[ptr[o]].value = value[o]
  /\ \A a \in Addr : heap[a] # None => heap[a].count = Cardinality(Holders(a))
  /\ \A k \in MapKey : pool[k] # None =>
       heap[pool[k]] # None /\ KeyOf(heap[pool[k]].value) = k

\* Handles are compared by pointer (PartialEq of ArcStr and of Token).  Equal
\* values do have the same pointer, unless another raw token shares the key.
Shares(v) == v \in Raw /\ \E w \in Raw \ {v} : RawKey[w] = RawKey[v]

OneInstance ==
  \A o, u \in Owner :
    pc[o] = "hold" /\ pc[u] = "hold" /\ value[o] = value[u] /\ ~Shares(value[o])
      => ptr[o] = ptr[u]

\* Nothing leaks, although two cells may claim one key and a drop may find the
\* count raised again: every cell has a handle or somebody about to free it.
NoLeak ==
  \A a \in Addr : heap[a] # None =>
    Holders(a) # {} \/ \E o \in Owner : pc[o] = "free" /\ ptr[o] = a

\* Freed memory is read only after new has raised a count from 0, which the
\* comments on inc_strong exclude ("the count must be at least 1"): two drops
\* then wait to free one cell.
FaultNeedsRevival == (fault \/ \E o \in Owner : pc[o] = "dangling") => revived
=============================================================================
