------------------------------ MODULE UsageCheck ------------------------------
(***************************************************************************)
(* The background task that a chat request starts for a model with usage   *)
(* checking (service.rs): it asks the upstream server for the profile of   *)
(* the request's token, finds the token in the store of module             *)
(* TokenManager and stores the profile there.  It takes the store's lock   *)
(* four times and keeps the id it found between them, while the            *)
(* administrator's requests remove tokens and reuse their ids.             *)
(***************************************************************************)
EXTENDS TokenManager

CONSTANT Task   \* usage checks that may be under way at the same time

VARIABLES
  task,     \* where a usage check is, and what it has read; None: not started
  profile,  \* slot -> the key of the token whose profile is stored there
  fate      \* history: what has become of the token since a check found it

usageVars == <<vars, task, profile, fate>>

Check == [pc : {"lookup", "alias", "write", "rename"}, key : Key, id : Nat,
          unnamed : BOOLEAN, name : Name \cup {None}]

-----------------------------------------------------------------------------
(* The task *)

\* The token of the request is one that select handed out.
Begin(t, id) ==
  /\ ~fault
  /\ task[t] = None
  /\ Live(id)
  /\ task' = [task EXCEPT ![t] = [pc |-> "lookup", key |-> tokens[id].key, id |-> 0,
                                  unnamed |-> FALSE, name |-> None]]
  /\ fate' = [fate EXCEPT ![t] = "stored"]
  /\ UNCHANGED <<vars, profile>>

At(t, pc) == ~fault /\ task[t] # None /\ task[t].pc = pc

\* The check has found its token and keeps the id.
HasId(t) == task[t] # None /\ task[t].pc # "lookup"

\* The profile has arrived; id_map is read under a lock of its own.
Lookup(t) ==
  /\ At(t, "lookup")
  /\ task' = [task EXCEPT ![t] =
                IF task[t].key \in DOMAIN id_map
                THEN [@ EXCEPT !.pc = "alias", !.id = id_map[task[t].key]] ELSE None]
  /\ UNCHANGED <<vars, profile, fate>>

\* id_to_alias is read, without a check, under the next lock.
ReadAlias(t) ==
  LET id == task[t].id
  IN  /\ At(t, "alias")
      /\ fault' = ~Live(id)
      /\ task' = [task EXCEPT
                    ![t].pc = "write",
                    ![t].unnamed = Live(id) /\ id_to_alias[id] \in AutoAlias]
      /\ UNCHANGED <<storeVars, queueVars, heads, selVars, profile, fate>>

\* The profile is stored, without a check, under the write lock; n is the
\* user's name in it.
WriteProfile(t, n) ==
  LET id == task[t].id
  IN  /\ At(t, "write") /\ Exclusive
      /\ fault' = ~Live(id)
      /\ profile' = IF Live(id) THEN [profile EXCEPT ![id] = task[t].key] ELSE profile
      /\ task' = [task EXCEPT ![t] =
                    IF task[t].unnamed /\ n # None
                    THEN [@ EXCEPT !.pc = "rename", !.name = n] ELSE None]
      /\ UNCHANGED <<storeVars, queueVars, heads, selVars, fate>>

\* set_alias, under the lock once more; its errors are ignored.
RenameToken(t) ==
  /\ At(t, "rename")
  /\ IF SetAliasOk(task[t].id, task[t].name)
     THEN SetAlias(task[t].id, task[t].name)
     ELSE Exclusive /\ UNCHANGED vars
  /\ task' = [task EXCEPT ![t] = None]
  /\ UNCHANGED <<profile, fate>>

-----------------------------------------------------------------------------
(* The store meanwhile: a token comes without a profile, and takes it along *)
(* when it is removed.                                                      *)

\* "removed": the token has left its slot, and the next one there is another.
\* "rekeyed": a merge or a refresh has given it another key.
Fate(t) ==
  IF ~HasId(t) \/ fate[t] = "removed" THEN fate[t]
  ELSE IF task[t].id \notin 0..slots'-1 \/ tokens'[task[t].id] = None THEN "removed"
  ELSE IF \A id \in 0..slots'-1 : KeyOf(tokens', id) # task[t].key THEN "rekeyed"
  ELSE fate[t]

StoreStep ==
  /\ Next
  /\ profile' = [id \in 0..slots'-1 |->
                   IF Live(id) /\ tokens'[id] # None THEN profile[id] ELSE None]
  /\ fate' = [t \in Task |-> Fate(t)]
  /\ UNCHANGED task

UsageInit ==
  /\ Init
  /\ task = [t \in Task |-> None]
  /\ profile = Empty
  /\ fate = [t \in Task |-> "stored"]

UsageNext ==
  \/ \E t \in Task, id \in 0..slots-1 : Begin(t, id)
  \/ \E t \in Task : Lookup(t)
  \/ \E t \in Task : ReadAlias(t)
  \/ \E t \in Task, n \in Name \cup {None} : WriteProfile(t, n)
  \/ \E t \in Task : RenameToken(t)
  \/ StoreStep

UsageSpec == UsageInit /\ [][UsageNext /\ KeysDistinct']_usageVars

-----------------------------------------------------------------------------
(* Properties *)

\* Every variable has its type; there is a profile, or none, for every slot.
UsageTypeOK ==
  /\ TypeOK
  /\ task \in [Task -> Check \cup {None}]
  /\ profile \in [0..slots-1 -> Key \cup {None}]
  /\ fate \in [Task -> {"stored", "rekeyed", "removed"}]

\* The id that a check found under one lock is its token's under the next ones
\* until that very token is removed: no other token's removal, the reuse of
\* other ids, a merge, a refresh or a renaming moves it; and the token at the
\* id is the one with the check's key for as long as that key is stored.
IdHolds ==
  \A t \in Task : HasId(t) =>
    /\ fate[t] # "removed" => Live(task[t].id)
    /\ fate[t] = "stored" => tokens[task[t].id].key = task[t].key

\* A profile is stored with the token that was found for it, never with
\* another one that has got its id since.
ProfileOfOwnToken ==
  [][\A t \in Task : At(t, "write") /\ task'[t] # task[t] /\ Live(task[t].id) =>
       fate[t] # "removed" \/ tokens[task[t].id].key = task[t].key]_usageVars
=============================================================================
