-------------------------- MODULE UsageCheckProofs --------------------------
(***************************************************************************)
(* Usage checks next to a store that changes in any way between their      *)
(* locks: the id that a check keeps is its token's until that token is     *)
(* removed, and what a check writes through an id that is no longer its    *)
(* token's never breaks the aliases, for any number of checks and tokens.  *)
(***************************************************************************)
EXTENDS UsageCheck, TokenManagerProofs

\* The id of one check.
Holding(t) ==
  HasId(t) =>
    /\ fate[t] # "removed" => Live(task[t].id)
    /\ fate[t] = "stored" => tokens[task[t].id].key = task[t].key

\* A check that is to rename has a name.
Renaming(t) == task[t] # None /\ task[t].pc = "rename" => task[t].name \in Name

\* An unchecked access that goes wrong leaves the store's indexes as they are,
\* and ends the run.
UInv ==
  /\ UsageTypeOK
  /\ AliasesExact
  /\ ~fault => IInv
  /\ \A t \in Task : Holding(t) /\ Renaming(t)

\* Nothing has been found at the start.
LEMMA InitUInv == UsageInit => UInv
<1> SUFFICES ASSUME UsageInit PROVE UInv
  OBVIOUS
<1>1. IInv
  BY InitIInv DEF UsageInit
<1>2. task = [t \in Task |-> None] /\ fate = [t \in Task |-> "stored"]
  BY DEF UsageInit
<1>3. slots = 0 /\ profile = [x \in {} |-> None]
  BY DEF UsageInit, Init, Empty
<1>4. profile \in [0..slots-1 -> Key \cup {None}]
  <2>1. 0..slots-1 = {}
    BY <1>3
  <2> QED
    BY <2>1, <1>3
<1>5. UsageTypeOK
  BY <1>1, <1>2, <1>4 DEF UsageTypeOK, IInv
<1> QED
  BY <1>1, <1>2, <1>5 DEF UInv, IInv, Holding, HasId, Renaming

\* A task goes on or ends, and the others stay where they are.
LEMMA Others ==
  ASSUME task \in [Task -> Check \cup {None}], NEW t \in Task, NEW c \in Check \cup {None},
         task' = [task EXCEPT ![t] = c]
  PROVE  /\ task' \in [Task -> Check \cup {None}]
         /\ task'[t] = c
         /\ \A u \in Task : u # t => task'[u] = task[u]
OBVIOUS

\* What a task's own step does to the store: nothing, or a fault.
LEMMA StoreOrFault ==
  ASSUME IInv, fault' \in BOOLEAN, UNCHANGED <<storeVars, queueVars, heads, selVars>>
  PROVE  /\ TypeOK' /\ AliasesExact' /\ (~fault' => IInv')
         /\ UNCHANGED <<tokens, slots, id_to_alias>>
<1>t. TypeOK /\ AliasesExact /\ ~fault
  BY DEF IInv, NoFault
<1>u. UNCHANGED <<tokens, slots, id_map, alias_map, id_to_alias, free_ids, vec, qlen, map,
                  heads, sel, picked>>
  BY DEF storeVars, queueVars, selVars
<1>1. TypeOK'
  BY <1>t, <1>u DEF TypeOK
<1>2. AliasesExact'
  BY <1>t, <1>u DEF AliasesExact, Live
<1>3. ASSUME ~fault' PROVE IInv'
  <2>1. fault' = fault
    BY <1>3, <1>t DEF TypeOK
  <2>2. UNCHANGED vars
    BY <2>1 DEF vars
  <2> QED
    BY <2>2, NextIInv
<1> QED
  BY <1>u, <1>1, <1>2, <1>3

\* A step of task t that leaves the slots and their tokens alone.
LEMMA TaskStep ==
  ASSUME UInv, UNCHANGED <<tokens, slots>>,
         TypeOK', AliasesExact', ~fault' => IInv',
         profile' \in [0..slots-1 -> Key \cup {None}],
         NEW t \in Task, NEW c \in Check \cup {None}, task' = [task EXCEPT ![t] = c],
         NEW ft \in {"stored", fate[t]}, fate' = [fate EXCEPT ![t] = ft],
         c # None /\ c.pc # "lookup" /\ ft # "removed" => Live(c.id),
         c # None /\ c.pc # "lookup" /\ ft = "stored" => tokens[c.id].key = c.key,
         c # None /\ c.pc = "rename" => c.name \in Name
  PROVE  UInv'
<1>t. /\ task \in [Task -> Check \cup {None}]
      /\ fate \in [Task -> {"stored", "rekeyed", "removed"}]
  BY DEF UInv, UsageTypeOK
<1>1. /\ task' \in [Task -> Check \cup {None}]
      /\ task'[t] = c
      /\ \A u \in Task : u # t => task'[u] = task[u]
  BY <1>t, Others
<1>2. /\ fate' \in [Task -> {"stored", "rekeyed", "removed"}]
      /\ fate'[t] = ft
      /\ \A u \in Task : u # t => fate'[u] = fate[u]
  BY <1>t
<1>3. UsageTypeOK'
  BY <1>1, <1>2 DEF UsageTypeOK
<1>4. Holding(t)' /\ Renaming(t)'
  BY <1>1, <1>2 DEF Holding, HasId, Renaming, Live
<1>5. ASSUME NEW u \in Task, u # t PROVE Holding(u)' /\ Renaming(u)'
  BY <1>1, <1>2, <1>5 DEF UInv, Holding, HasId, Renaming, Live
<1> QED
  BY <1>3, <1>4, <1>5 DEF UInv

\* The steps of a usage check up to the alias.
LEMMA FindUInv ==
  ASSUME UInv, NEW t \in Task,
         \/ \E id \in 0..slots-1 : Begin(t, id)
         \/ Lookup(t)
         \/ ReadAlias(t)
  PROVE  UInv'
<1>f. ~fault
  BY DEF Begin, Lookup, ReadAlias, At
<1>i. /\ IInv /\ TypeOK /\ AliasesExact
      /\ task \in [Task -> Check \cup {None}] /\ profile \in [0..slots-1 -> Key \cup {None}]
      /\ fate \in [Task -> {"stored", "rekeyed", "removed"}]
  BY <1>f DEF UInv, UsageTypeOK
<1>e. fate = [fate EXCEPT ![t] = fate[t]]
  BY <1>i
<1>v. UNCHANGED vars => /\ TypeOK' /\ AliasesExact' /\ IInv' /\ UNCHANGED <<tokens, slots>>
  <2> SUFFICES ASSUME UNCHANGED vars
               PROVE  TypeOK' /\ AliasesExact' /\ IInv' /\ UNCHANGED <<tokens, slots>>
    OBVIOUS
  <2>1. IInv'
    BY <1>i, NextIInv
  <2> QED
    BY <2>1 DEF IInv, vars, storeVars
<1>1. ASSUME NEW id \in 0..slots-1, Begin(t, id) PROVE UInv'
  <2>1. tokens[id].key \in Key
    BY <1>1, <1>i DEF Begin, Live, TypeOK, TokenInfo
  <2>2. PICK c : c = [pc |-> "lookup", key |-> tokens[id].key, id |-> 0,
                      unnamed |-> FALSE, name |-> None]
    OBVIOUS
  <2>3. c \in Check /\ c.pc = "lookup"
    BY <2>1, <2>2 DEF Check
  <2>4. /\ task' = [task EXCEPT ![t] = c] /\ fate' = [fate EXCEPT ![t] = "stored"]
        /\ UNCHANGED vars /\ profile' = profile
    BY <1>1, <2>2 DEF Begin
  <2> QED
    BY <2>3, <2>4, <1>i, <1>v, TaskStep
<1>2. CASE Lookup(t)
  <2>1. PICK old \in Check : old = task[t]
    BY <1>2, <1>i DEF Lookup, At
  <2>2. UNCHANGED vars /\ profile' = profile /\ fate' = [fate EXCEPT ![t] = fate[t]]
    BY <1>2, <1>e DEF Lookup
  <2>3. CASE old.key \notin DOMAIN id_map
    <3>1. task' = [task EXCEPT ![t] = None]
      BY <1>2, <2>1, <2>3 DEF Lookup
    <3> QED
      BY <3>1, <2>2, <1>i, <1>v, TaskStep
  <2>4. CASE old.key \in DOMAIN id_map
    <3>1. PICK c : c = [old EXCEPT !.pc = "alias", !.id = id_map[old.key]]
      OBVIOUS
    <3>2. task' = [task EXCEPT ![t] = c]
      BY <1>2, <2>1, <2>4, <3>1 DEF Lookup
    <3>3. id_map[old.key] \in Nat
      BY <2>4, <1>i DEF TypeOK
    <3>4. /\ c \in Check /\ c.pc = "alias"
          /\ c.key = old.key /\ c.id = id_map[old.key]
      BY <2>1, <3>1, <3>3 DEF Check
    <3>5. Live(c.id) /\ tokens[c.id].key = c.key
      BY <2>4, <3>4, <1>i DEF IInv, IdMapExact
    <3> QED
      BY <2>2, <3>2, <3>4, <3>5, <1>i, <1>v, TaskStep
  <2> QED
    BY <2>3, <2>4
<1>3. CASE ReadAlias(t)
  <2>1. PICK old \in Check : old = task[t] /\ old.pc = "alias" /\ task[t] # None
    BY <1>3, <1>i DEF ReadAlias, At
  <2>2. /\ fate[t] # "removed" => Live(old.id)
        /\ fate[t] = "stored" => tokens[old.id].key = old.key
    BY <2>1 DEF UInv, Holding, HasId
  <2>3. PICK un \in BOOLEAN : un = (Live(old.id) /\ id_to_alias[old.id] \in AutoAlias)
    OBVIOUS
  <2>4. PICK c : c = [old EXCEPT !.pc = "write", !.unnamed = un]
    OBVIOUS
  <2>5. task' = [task EXCEPT ![t].pc = "write", ![t].unnamed = un]
    BY <1>3, <2>1, <2>3 DEF ReadAlias
  <2>6. task' = [task EXCEPT ![t] = c]
    BY <2>1, <2>4, <2>5, <1>i
  <2>7. /\ c \in Check /\ c.pc = "write"
        /\ c.id = old.id /\ c.key = old.key
    BY <2>1, <2>4 DEF Check
  <2>8. /\ fault' \in BOOLEAN /\ UNCHANGED <<storeVars, queueVars, heads, selVars>>
        /\ profile' = profile /\ fate' = [fate EXCEPT ![t] = fate[t]]
    BY <1>3, <1>e DEF ReadAlias, Live
  <2>9. TypeOK' /\ AliasesExact' /\ (~fault' => IInv') /\ UNCHANGED <<tokens, slots>>
    BY <2>8, <1>i, StoreOrFault
  <2> QED
    BY <2>2, <2>6, <2>7, <2>8, <2>9, <1>i, TaskStep
<1> QED
  BY <1>1, <1>2, <1>3

\* The profile is written to whatever token has the id by now.
LEMMA WriteUInv ==
  ASSUME UInv, NEW t \in Task, NEW n \in Name \cup {None}, WriteProfile(t, n)
  PROVE  UInv'
<1>f. ~fault
  BY DEF WriteProfile, At
<1>i. /\ IInv /\ TypeOK
      /\ task \in [Task -> Check \cup {None}] /\ profile \in [0..slots-1 -> Key \cup {None}]
      /\ fate \in [Task -> {"stored", "rekeyed", "removed"}]
  BY <1>f DEF UInv, UsageTypeOK
<1>1. PICK old \in Check : old = task[t] /\ old.pc = "write" /\ task[t] # None
  BY <1>i DEF WriteProfile, At
<1>2. /\ fate[t] # "removed" => Live(old.id)
      /\ fate[t] = "stored" => tokens[old.id].key = old.key
  BY <1>1 DEF UInv, Holding, HasId
<1>3. profile' \in [0..slots-1 -> Key \cup {None}]
  <2>1. profile' = IF Live(old.id) THEN [profile EXCEPT ![old.id] = old.key] ELSE profile
    BY <1>1 DEF WriteProfile
  <2>2. old.key \in Key
    BY DEF Check
  <2> QED
    BY <2>1, <2>2, <1>i
<1>4. PICK c : c = IF old.unnamed /\ n # None
                   THEN [old EXCEPT !.pc = "rename", !.name = n] ELSE None
  OBVIOUS
<1>5. /\ c \in Check \cup {None}
      /\ c # None => /\ c.pc = "rename" /\ c.id = old.id /\ c.key = old.key
                     /\ c.name \in Name
  BY <1>1, <1>4 DEF Check
<1>6. task' = [task EXCEPT ![t] = c]
  BY <1>1, <1>4 DEF WriteProfile
<1>7. /\ fault' \in BOOLEAN /\ UNCHANGED <<storeVars, queueVars, heads, selVars>>
      /\ fate' = [fate EXCEPT ![t] = fate[t]]
  BY <1>i DEF WriteProfile, Live
<1>8. TypeOK' /\ AliasesExact' /\ (~fault' => IInv') /\ UNCHANGED <<tokens, slots>>
  BY <1>7, <1>i, StoreOrFault
<1> QED
  BY <1>2, <1>3, <1>5, <1>6, <1>7, <1>8, TaskStep

\* The renaming ends the check; set_alias looks at the slot itself, so that an
\* id that is stale does no harm to the aliases.
LEMMA RenameUInv ==
  ASSUME UInv, NEW t \in Task, RenameToken(t)
  PROVE  UInv'
<1>f. ~fault
  BY DEF RenameToken, At
<1>i. /\ IInv /\ TypeOK
      /\ task \in [Task -> Check \cup {None}] /\ profile \in [0..slots-1 -> Key \cup {None}]
      /\ fate \in [Task -> {"stored", "rekeyed", "removed"}]
  BY <1>f DEF UInv, UsageTypeOK
<1>1. PICK old \in Check : old = task[t] /\ old.pc = "rename" /\ task[t] # None
  BY <1>i DEF RenameToken, At
<1>2. old.name \in Name
  BY <1>1 DEF UInv, Renaming
<1>3. SetAlias(old.id, old.name) \/ UNCHANGED vars
  BY <1>1 DEF RenameToken
<1>4. IInv' /\ UNCHANGED <<tokens, slots>>
  <2>1. CASE SetAlias(old.id, old.name)
    <3>1. old.id \in 0..slots-1
      BY <2>1 DEF SetAlias, SetAliasOk, Live
    <3>2. IInv'
      BY <2>1, <3>1, <1>2, <1>i, SetAliasIInv
    <3> QED
      BY <3>2, <2>1 DEF SetAlias
  <2>2. CASE UNCHANGED vars
    BY <2>2, <1>i, NextIInv DEF vars, storeVars
  <2> QED
    BY <1>3, <2>1, <2>2
<1>5. /\ profile' = profile /\ task' = [task EXCEPT ![t] = None]
      /\ fate' = [fate EXCEPT ![t] = fate[t]]
  BY <1>i DEF RenameToken
<1>6. TypeOK' /\ AliasesExact'
  BY <1>4 DEF IInv
<1> QED
  BY <1>4, <1>5, <1>6, <1>i, TaskStep

\* A token that stays in its slot keeps its key as long as the key is stored:
\* no step moves a key from one slot to another.
LEMMA KeyStays ==
  ASSUME IInv, Next, NEW id, Live(id), id \in 0..slots'-1, tokens'[id] # None,
         NEW j \in 0..slots'-1, KeyOf(tokens', j) = tokens[id].key
  PROVE  tokens'[id].key = tokens[id].key
<1>t. /\ TypeOK /\ slots \in Nat /\ id \in 0..slots-1 /\ tokens[id] \in TokenInfo /\ tokens[id] # None
      /\ DOMAIN tokens = 0..slots-1
  BY DEF IInv, TypeOK, Live
<1>1. ASSUME NEW k \in Key, NEW st \in Status, NEW a \in Name \cup {UNNAMED}, Add(k, st, a)
      PROVE  tokens'[id] = tokens[id]
  <2>1. ~Live(NextId)
    BY <1>t DEF IInv, FreeIdsExact, NextId, Live, TypeOK
  <2>2. id # NextId
    BY <2>1
  <2> QED
    BY <1>1, <2>2, <1>t DEF Add, Put
<1>2. ASSUME NEW i \in 0..slots-1, Remove(i) PROVE tokens'[id] = tokens[id]
  BY <1>2, <1>t DEF Remove
<1>3. ASSUME NEW i \in 0..slots-1, NEW a \in Name \cup {UNNAMED}, SetAlias(i, a)
      PROVE  tokens'[id] = tokens[id]
  BY <1>3 DEF SetAlias
<1>4. ASSUME NEW i \in 0..slots-1, NEW k \in Key, WriteKey(i, k)
      PROVE  tokens'[id].key = tokens[id].key
  <2>1. tokens' = [tokens EXCEPT ![i].key = k] /\ slots' = slots
    BY <1>4 DEF WriteKey
  <2>2. CASE id # i
    BY <2>1, <2>2, <1>t
  <2>3. CASE id = i /\ j = id
    BY <2>3 DEF KeyOf
  <2>4. CASE id = i /\ j # id
    <3>1. tokens'[j] = tokens[j] /\ j \in 0..slots-1
      BY <2>1, <2>4, <1>t
    <3>2. tokens[id].key \in Key
      BY <1>t DEF TokenInfo
    <3>3. tokens[j] # None /\ tokens[j].key = tokens[id].key
      BY <3>1, <3>2, ConstantsDiffer DEF KeyOf
    <3>4. Live(j)
      BY <3>1, <3>3 DEF Live
    <3> QED
      BY <3>1, <3>3, <3>4, <2>4, <1>t DEF IInv, IdMapExact
  <2> QED
    BY <2>2, <2>3, <2>4
<1>5. ~Reset
  BY DEF Reset
<1>6. ASSUME NEW i \in 0..slots-1, NEW st \in Status, SetStatus(i, st)
      PROVE  tokens'[id].key = tokens[id].key
  BY <1>6, <1>t DEF SetStatus, TokenInfo
<1>7. ASSUME NEW i \in 0..slots-1, BackoffEnds(i) PROVE tokens'[id].key = tokens[id].key
  BY <1>7, <1>t DEF BackoffEnds, TokenInfo
<1>8. ASSUME NEW s \in Selector, NEW q \in QueueType, SelectLoad(s, q)
      PROVE  tokens'[id] = tokens[id]
  BY <1>8 DEF SelectLoad, storeVars
<1>9. ASSUME NEW s \in Selector, SelectStore(s) PROVE tokens'[id] = tokens[id]
  BY <1>9 DEF SelectStore, storeVars
<1> QED
  BY <1>1, <1>2, <1>3, <1>4, <1>5, <1>6, <1>7, <1>8, <1>9 DEF Next

\* No step is taken after a fault.
LEMMA NextRuns == ASSUME Next PROVE ~fault
BY DEF Next, Add, Remove, SetAlias, WriteKey, Reset, SetStatus, BackoffEnds,
       SelectLoad, SelectStore, Exclusive

\* The store's own steps leave the checks alone, and their fate is noted.
LEMMA StoreUInv ==
  ASSUME UInv, KeysDistinct', StoreStep
  PROVE  UInv'
<1>f. ~fault
  BY NextRuns DEF StoreStep
<1>i. /\ IInv /\ TypeOK
      /\ task \in [Task -> Check \cup {None}] /\ profile \in [0..slots-1 -> Key \cup {None}]
      /\ fate \in [Task -> {"stored", "rekeyed", "removed"}]
  BY <1>f DEF UInv, UsageTypeOK
<1>1. IInv'
  BY <1>i, NextIInv DEF StoreStep
<1>2. task' = task /\ fate' = [t \in Task |-> Fate(t)]
  BY DEF StoreStep
<1>3. profile' \in [0..slots'-1 -> Key \cup {None}]
  <2>1. \A id \in 0..slots'-1 :
          (IF Live(id) /\ tokens'[id] # None THEN profile[id] ELSE None) \in Key \cup {None}
    BY <1>i DEF Live
  <2>2. profile' = [id \in 0..slots'-1 |->
                      IF Live(id) /\ tokens'[id] # None THEN profile[id] ELSE None]
    BY DEF StoreStep
  <2> QED
    BY <2>1, <2>2
<1>4. \A t \in Task : Fate(t) \in {"stored", "rekeyed", "removed"}
  BY <1>i DEF Fate
<1>5. UsageTypeOK'
  BY <1>i, <1>1, <1>2, <1>3, <1>4 DEF UsageTypeOK, IInv
<1>6. ASSUME NEW t \in Task PROVE Holding(t)' /\ Renaming(t)'
  <2>r. Renaming(t)'
    BY <1>2 DEF UInv, Renaming
  <2>f. fate'[t] = Fate(t) /\ task'[t] = task[t]
    BY <1>2
  <2>1. CASE ~HasId(t)
    BY <2>1, <2>r, <2>f DEF Holding, HasId
  <2>2. CASE HasId(t) /\ fate[t] = "removed"
    <3>1. fate'[t] = "removed"
      BY <2>2, <2>f DEF Fate
    <3> QED
      BY <3>1, <2>r DEF Holding
  <2>3. CASE /\ HasId(t) /\ fate[t] # "removed"
             /\ task[t].id \notin 0..slots'-1 \/ tokens'[task[t].id] = None
    <3>1. fate'[t] = "removed"
      BY <2>3, <2>f DEF Fate
    <3> QED
      BY <3>1, <2>r DEF Holding
  <2>4. CASE /\ HasId(t) /\ fate[t] # "removed"
             /\ task[t].id \in 0..slots'-1 /\ tokens'[task[t].id] # None
    <3>0. PICK id : id = task[t].id
      OBVIOUS
    <3>1. Live(id)'
      BY <3>0, <2>4 DEF Live
    <3>2. Live(id) /\ (fate[t] = "stored" => tokens[id].key = task[t].key)
      BY <3>0, <2>4 DEF UInv, Holding
    <3>3. ASSUME fate'[t] = "stored" PROVE tokens'[id].key = task[t].key
      <4>1. ~(\A i \in 0..slots'-1 : KeyOf(tokens', i) # task[t].key) /\ fate[t] = "stored"
        BY <3>3, <2>f, <2>4 DEF Fate
      <4>2. PICK j \in 0..slots'-1 : KeyOf(tokens', j) = task[t].key
        BY <4>1
      <4>3. tokens[id].key = task[t].key
        BY <4>1, <3>2
      <4>4. tokens'[id].key = tokens[id].key
        BY <4>2, <4>3, <3>0, <3>2, <2>4, <1>i, KeyStays DEF StoreStep
      <4> QED
        BY <4>3, <4>4
    <3> QED
      BY <3>0, <3>1, <3>3, <2>r, <2>f DEF Holding
  <2> QED
    BY <2>1, <2>2, <2>3, <2>4
<1> QED
  BY <1>1, <1>5, <1>6 DEF UInv, IInv

\* Every step keeps the invariant.
LEMMA NextUInv == UInv /\ [UsageNext /\ KeysDistinct']_usageVars => UInv'
<1> SUFFICES ASSUME UInv, [UsageNext /\ KeysDistinct']_usageVars
             PROVE  UInv'
  OBVIOUS
<1>1. CASE UNCHANGED usageVars
  <2>1. /\ UNCHANGED vars /\ UNCHANGED <<task, profile, fate>>
        /\ UNCHANGED <<tokens, slots, id_map, alias_map, id_to_alias, free_ids, vec, qlen, map,
                       heads, sel, picked, fault>>
    BY <1>1 DEF usageVars, vars, storeVars, queueVars, selVars
  <2>2. ~fault' => IInv'
    BY <2>1, NextIInv DEF UInv
  <2>3. TypeOK'
    BY <2>1 DEF UInv, UsageTypeOK, TypeOK
  <2>4. AliasesExact'
    BY <2>1 DEF UInv, AliasesExact, Live
  <2>5. UsageTypeOK'
    BY <2>1, <2>3 DEF UInv, UsageTypeOK
  <2>6. \A t \in Task : Holding(t)' /\ Renaming(t)'
    BY <2>1 DEF UInv, Holding, HasId, Renaming, Live
  <2> QED
    BY <2>2, <2>4, <2>5, <2>6 DEF UInv
<1>2. CASE UsageNext /\ KeysDistinct'
  <2>1. ASSUME NEW t \in Task, NEW id \in 0..slots-1, Begin(t, id) PROVE UInv'
    BY <2>1, FindUInv
  <2>2. ASSUME NEW t \in Task, Lookup(t) \/ ReadAlias(t) PROVE UInv'
    BY <2>2, FindUInv
  <2>3. ASSUME NEW t \in Task, NEW n \in Name \cup {None}, WriteProfile(t, n) PROVE UInv'
    BY <2>3, WriteUInv
  <2>4. ASSUME NEW t \in Task, RenameToken(t) PROVE UInv'
    BY <2>4, RenameUInv
  <2>5. CASE StoreStep
    BY <2>5, <1>2, StoreUInv
  <2> QED
    BY <1>2, <2>1, <2>2, <2>3, <2>4, <2>5 DEF UsageNext
<1> QED
  BY <1>1, <1>2

\* The checks and the store keep their types, whatever the store does between
\* a check's locks.
THEOREM ChecksTyped == UsageSpec => []UsageTypeOK
<1>1. UInv => UsageTypeOK
  BY DEF UInv
<1> QED
  BY <1>1, InitUInv, NextUInv, PTL DEF UsageSpec

\* The id that a check found under one lock is its token's under the later
\* ones until that token is removed, and the token there has the check's key
\* as long as the key is stored at all.
THEOREM IdsHold == UsageSpec => []IdHolds
<1>1. UInv => IdHolds
  BY DEF UInv, Holding, IdHolds
<1> QED
  BY <1>1, InitUInv, NextUInv, PTL DEF UsageSpec

\* set_alias through an id that may be stale, and profiles written to slots
\* that have another token or none, leave the two alias indexes exact.
THEOREM AliasesKept == UsageSpec => []AliasesExact
<1>1. UInv => AliasesExact
  BY DEF UInv
<1> QED
  BY <1>1, InitUInv, NextUInv, PTL DEF UsageSpec
=============================================================================
