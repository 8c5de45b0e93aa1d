----------------------------- MODULE TokenRoutes -----------------------------
(***************************************************************************)
(* The administrator's token routes (src/src/core/route/tokens.rs) over    *)
(* the store of module TokenManager, with the file they keep: save and     *)
(* load of state/token.rs, the save at shutdown (state.rs, main.rs), lost  *)
(* clients and crashes, and with the one other writer of what the file     *)
(* holds: the usage check of a chat request, which renames a token.        *)
(*                                                                         *)
(* A handler takes the write lock, works through the items of its request, *)
(* saves if an item changed something, and replies.  It gives the          *)
(* processor away at its awaits only: while it asks the upstream server    *)
(* about a token, and twice in save.  There the connection may be lost,    *)
(* and the handler is then dropped with the lock; a file operation it has  *)
(* already handed to the blocking pool still runs, at any later time.      *)
(*                                                                         *)
(* Selects only need the read lock and do not touch the file: module       *)
(* TokenManager has them.  Profiles and client keys are not part of the    *)
(* model's TokenInfo; module UsageCheck has the usage check lock by lock.  *)
(***************************************************************************)
EXTENDS TokenManager, FiniteSets

CONSTANTS
  RequestStatus,  \* the token states that requests carry
  MaxDetached     \* bound on file operations left behind

ASSUME RequestStatusAssumption == RequestStatus \subseteq Status

VARIABLES
  lock,      \* the holder of the lock: its route and how far it is, or None
  disk,      \* the token file: what it is, and the records of a whole save
  behind,    \* the file may differ from the store: a save did not come about
  renamed,   \* positions renamed by usage checks since a save, unless behind
  detached,  \* file operations of dropped handlers that are still to run
  run,       \* the process: see Run
  stop       \* shutdown: see Stop

fileVars  == <<disk, behind, renamed, detached>>
procVars  == <<run, stop>>
routeVars == <<vars, lock, fileVars, procVars>>

Absent     == [state |-> "absent", recs |-> {}]
Torn       == [state |-> "torn", recs |-> {}]
Whole(rs)  == [state |-> "whole", recs |-> rs]

\* "refused": load returned an error, and main does not start the server.
\* "garbage": load took the bytes of a torn file for an archive.
Run  == {"down", "loading", "up", "refused", "garbage"}

\* "saved" and "unsaved": the tokens' part of AppState::save is over.
Stop == {"no", "asked", "saved", "unsaved"}

\* What handle_update_tokens_config_version, handle_set_tokens_proxy and
\* handle_set_tokens_timezone change is not part of the model's TokenInfo:
\* "field" and "config" stand for them.
Route  == {"set", "add", "delete", "status", "alias", "merge", "field",
           "refresh", "profile", "config", "shutdown"}
Remote == {"refresh", "profile", "config"}
Phase  == {"batch", "net", "rename", "open", "len"}

\* known: the tokens handle_add_tokens found; done, id: the ids that a remote
\* route has been through, and is at (its request is a set of aliases).
Holder == [op : Route, phase : Phase, updated : BOOLEAN, known : SUBSET Key,
           done : SUBSET Nat, id : Nat, renames : Seq(Nat \X Name)]

ASSUME HolderAssumption == None \notin Holder

\* TokenManager::save: the live tokens with their aliases, in the order of
\* their ids.
LiveIds == {id \in 0..slots-1 : Live(id)}
Rank(id) == Cardinality({j \in LiveIds : j < id})
Image == {[pos |-> Rank(id), alias |-> id_to_alias[id], info |-> tokens[id]] :
             id \in LiveIds}

-----------------------------------------------------------------------------
(* The handlers *)

Holds(ops, phase) == lock # None /\ lock.op \in ops /\ lock.phase = phase

Hold(op, known) == [op |-> op, phase |-> "batch", updated |-> FALSE,
                    known |-> known, done |-> {}, id |-> 0, renames |-> <<>>]

Updated == lock' = [lock EXCEPT !.updated = TRUE]

KnownKeys == {tokens[id].key : id \in LiveIds}

\* The write lock is taken.  handle_set_tokens installs an empty manager,
\* handle_add_tokens collects the tokens that are there already.
Begin(op) ==
  /\ run = "up" /\ lock = None
  /\ lock' = Hold(op, IF op = "add" THEN KnownKeys ELSE {})
  /\ IF op = "set" THEN Reset ELSE UNCHANGED vars
  /\ UNCHANGED <<fileVars, procVars>>

\* One token of a set or an add request.  An alias that is taken drops the
\* token and is not reported.  New tokens of an add request are healthy.
AddItem(k, st, a) ==
  /\ Holds({"set", "add"}, "batch")
  /\ k \notin lock.known
  /\ lock.op = "add" => st # "backoff"
  /\ IF AddOk(a) THEN Add(k, st, a) ELSE UNCHANGED vars
  /\ Updated
  /\ UNCHANGED <<fileVars, procVars>>

DeleteItemSilently(id) ==
  /\ Holds({"delete"}, "batch")
  /\ Remove(id)
  /\ UNCHANGED <<lock, fileVars, procVars>>

\* The other routes find a token by its alias; an alias that is unknown
\* changes nothing.
DeleteItem(id) ==
  /\ Holds({"delete"}, "batch")
  /\ Remove(id)
  /\ Updated
  /\ UNCHANGED <<fileVars, procVars>>

StatusItem(id, st) ==
  /\ Holds({"status"}, "batch")
  /\ SetStatus(id, st)
  /\ Updated
  /\ UNCHANGED <<fileVars, procVars>>

AliasItem(id, a) ==
  /\ Holds({"alias"}, "batch")
  /\ SetAlias(id, a)
  /\ Updated
  /\ UNCHANGED <<fileVars, procVars>>

MergeItem(id, k) ==
  /\ Holds({"merge"}, "batch")
  /\ WriteKey(id, k)
  /\ Updated
  /\ UNCHANGED <<fileVars, procVars>>

FieldItem(id) ==
  /\ Holds({"field"}, "batch")
  /\ Live(id)
  /\ Updated
  /\ UNCHANGED <<vars, fileVars, procVars>>

\* The upstream server is asked about a token, with the write lock held.
NetItem(id) ==
  /\ Holds(Remote, "batch")
  /\ Live(id) /\ id \notin lock.done
  /\ lock' = [lock EXCEPT !.phase = "net", !.id = id, !.done = @ \cup {id}]
  /\ UNCHANGED <<vars, fileVars, procVars>>

\* get_new_token gave a new primary token; the writer's Drop moves the key.
Refreshed(k) ==
  /\ Holds({"refresh"}, "net")
  /\ WriteKey(lock.id, k)
  /\ lock' = [lock EXCEPT !.phase = "batch", !.updated = TRUE]
  /\ UNCHANGED <<fileVars, procVars>>

\* The profile is stored; a token that has no name of its own is to be called
\* by the user's, once all profiles are there.
Profiled(n) ==
  /\ Holds({"profile"}, "net")
  /\ lock' = [lock EXCEPT
                !.phase = "batch", !.updated = TRUE,
                !.renames = IF n # None /\ id_to_alias[lock.id] \in AutoAlias
                            THEN Append(@, <<lock.id, n>>) ELSE @]
  /\ UNCHANGED <<vars, fileVars, procVars>>

NetEnds(updated) ==
  /\ Holds({"refresh", "config"}, "net")
  /\ updated => lock.op = "config"
  /\ lock' = [lock EXCEPT !.phase = "batch", !.updated = @ \/ updated]
  /\ UNCHANGED <<vars, fileVars, procVars>>

\* The renames of handle_update_tokens_profile, in order; a name that is
\* taken by now is passed over.
Rename ==
  LET r == Head(lock.renames)
  IN  /\ Holds({"profile"}, "batch") \/ Holds({"profile"}, "rename")
      /\ lock.renames # <<>>
      /\ lock' = [lock EXCEPT !.phase = "rename", !.renames = Tail(@)]
      /\ IF SetAliasOk(r[1], r[2]) THEN SetAlias(r[1], r[2]) ELSE UNCHANGED vars
      /\ UNCHANGED <<fileVars, procVars>>

NothingToSave ==
  /\ Holds(Route \ {"set", "shutdown"}, "batch")
  /\ ~lock.updated
  /\ lock' = None
  /\ UNCHANGED <<vars, fileVars, procVars>>

-----------------------------------------------------------------------------
(* The usage check *)

\* set_alias by the task of a chat request, under a write lock of its own and
\* without a save.  The id was found under an earlier lock, so the slot may
\* have any token by now.
UsageRename(id, n) ==
  /\ run = "up" /\ lock = None
  /\ SetAlias(id, n)
  /\ renamed' = IF behind THEN {} ELSE renamed \cup {Rank(id)}
  /\ UNCHANGED <<lock, disk, behind, detached, procVars>>

-----------------------------------------------------------------------------
(* TokenManager::save *)

SaveOpen ==
  /\ Holds(Route, "batch") \/ Holds(Route, "rename")
  /\ lock.op \in {"set", "shutdown"} \/ lock.updated
  /\ lock.renames = <<>>
  /\ lock' = [lock EXCEPT !.phase = "open"]
  /\ UNCHANGED <<vars, fileVars, procVars>>

\* The file is opened and truncated.
SaveLen ==
  /\ Holds(Route, "open")
  /\ disk' = Torn
  /\ lock' = [lock EXCEPT !.phase = "len"]
  /\ UNCHANGED <<vars, behind, renamed, detached, procVars>>

\* The lock is released; at shutdown the tokens' part of the save is over.
Release(result) ==
  /\ lock' = None
  /\ stop' = IF lock.op = "shutdown" THEN result ELSE stop
  /\ UNCHANGED <<vars, detached, run>>

\* The file has its length; it is mapped and written without another await.
SaveCopy ==
  /\ Holds(Route, "len")
  /\ disk' = Whole(Image)
  /\ behind' = FALSE /\ renamed' = {}
  /\ Release("saved")

\* The file is not what the store is until a save succeeds.
FallsBehind == behind' = TRUE /\ renamed' = {}

\* Opening, sizing or mapping fails: the handler replies with an error and
\* keeps its changes in memory.
SaveFails ==
  /\ Holds(Route, "open") \/ Holds(Route, "len")
  /\ FallsBehind
  /\ Release("unsaved")
  /\ UNCHANGED disk

-----------------------------------------------------------------------------
(* Lost clients, shutdown, crashes *)

\* The connection is lost while the handler waits.
Cancel ==
  /\ lock # None /\ lock.op # "shutdown" /\ lock.phase \in {"net", "open", "len"}
  /\ Cardinality(detached) < MaxDetached \/ lock.phase = "net"
  /\ IF lock.updated \/ lock.phase # "net" THEN FallsBehind
     ELSE UNCHANGED <<behind, renamed>>
  /\ detached' = IF lock.phase = "net" THEN detached
                 ELSE detached \cup {lock.phase}
  /\ lock' = None
  /\ UNCHANGED <<vars, disk, procVars>>

\* A file operation of a dropped handler: the truncation, or set_len with the
\* size of that handler's data, which may or may not be the size of the file.
Lands(op) ==
  /\ op \in detached
  /\ detached' = detached \ {op}
  /\ \/ disk' = Torn /\ FallsBehind
     \/ op = "len" /\ UNCHANGED <<disk, behind, renamed>>
  /\ UNCHANGED <<vars, lock, procVars>>

\* The shutdown signal: AppState::save takes the read lock; the server goes
\* on serving meanwhile, and after it until the logs and proxies are saved.
Signal ==
  /\ run = "up" /\ stop = "no"
  /\ stop' = "asked"
  /\ UNCHANGED <<vars, lock, fileVars, run>>

ShutdownSave ==
  /\ run = "up" /\ stop = "asked" /\ lock = None
  /\ lock' = Hold("shutdown", {})
  /\ UNCHANGED <<vars, fileVars, procVars>>

\* The memory of the process is gone, statics included.
Dies ==
  /\ tokens' = Empty /\ slots' = 0
  /\ id_map' = Empty /\ alias_map' = Empty /\ id_to_alias' = Empty
  /\ free_ids' = <<>>
  /\ vec' = Empty /\ qlen' = 0 /\ map' = Empty
  /\ heads' = [q \in QueueType |-> 0]
  /\ UNCHANGED <<selVars, fault>>
  /\ lock' = None /\ detached' = {} /\ stop' = "no" /\ run' = "down"
  /\ UNCHANGED <<disk, behind, renamed>>

Exit  == run = "up" /\ stop \in {"saved", "unsaved"} /\ Dies
Crash == run \in {"up", "loading"} /\ Dies

-----------------------------------------------------------------------------
(* TokenManager::load *)

\* No file gives an empty store.  The bytes of a torn one are taken for an
\* archive without validation, and nothing is known of what follows.
Start ==
  /\ run = "down"
  /\ run' = CASE disk = Absent -> "up"
              [] disk = Torn   -> "garbage"
              [] OTHER         -> "loading"
  /\ behind' = FALSE /\ renamed' = {}
  /\ UNCHANGED <<vars, lock, disk, detached, stop>>

AsRequested(al) == IF al \in AutoAlias THEN UNNAMED ELSE al

LoadNextEnabled(e) ==
  /\ run = "loading"
  /\ e.pos = qlen
  /\ AddOk(AsRequested(e.alias))
  /\ Add(e.info.key, "enabled", AsRequested(e.alias))
  /\ UNCHANGED <<lock, fileVars, procVars>>

\* The next record is added under its alias; a generated one is generated
\* again, from the id the token has now.  Any error ends the load.
LoadNext(e) ==
  /\ run = "loading"
  /\ e.pos = qlen
  /\ IF AddOk(AsRequested(e.alias))
     THEN Add(e.info.key, e.info.status, AsRequested(e.alias)) /\ UNCHANGED run
     ELSE run' = "refused" /\ UNCHANGED vars
  /\ UNCHANGED <<lock, fileVars, stop>>

Loaded ==
  /\ run = "loading"
  /\ qlen = Cardinality(disk.recs)
  /\ run' = "up"
  /\ UNCHANGED <<vars, lock, fileVars, stop>>

-----------------------------------------------------------------------------
RouteInit ==
  /\ Init
  /\ lock = None
  /\ disk = Absent /\ behind = FALSE /\ renamed = {} /\ detached = {}
  /\ run = "down" /\ stop = "no"

Handler ==
  \/ \E op \in Route \ {"shutdown"} : Begin(op)
  \/ \E k \in Key, st \in RequestStatus, a \in Name \cup {UNNAMED} : AddItem(k, st, a)
  \/ \E id \in LiveIds : DeleteItem(id)
  \/ \E id \in LiveIds, st \in RequestStatus : StatusItem(id, st)
  \/ \E id \in LiveIds, a \in Name \cup {UNNAMED} : AliasItem(id, a)
  \/ \E id \in LiveIds, k \in Key : MergeItem(id, k)
  \/ \E id \in LiveIds : FieldItem(id)
  \/ \E id \in LiveIds : NetItem(id)
  \/ \E k \in Key : Refreshed(k)
  \/ \E n \in Name \cup {None} : Profiled(n)
  \/ \E u \in BOOLEAN : NetEnds(u)
  \/ Rename
  \/ NothingToSave

Save == SaveOpen \/ SaveLen \/ SaveCopy \/ SaveFails

Lifecycle ==
  \/ Cancel
  \/ \E op \in {"open", "len"} : Lands(op)
  \/ Signal \/ ShutdownSave \/ Exit \/ Crash
  \/ Start \/ Loaded
  \/ \E e \in disk.recs : LoadNext(e)

RouteNext ==
  \/ Handler
  \/ \E id \in LiveIds, n \in Name : UsageRename(id, n)
  \/ Save
  \/ Lifecycle

RouteSpec == RouteInit /\ [][RouteNext /\ KeysDistinct']_routeVars
-----------------------------------------------------------------------------
(* Properties *)

\* Every variable has its type; the store's are those of TokenManager.
RouteTypeOK ==
  /\ TypeOK
  /\ lock = None \/ lock \in Holder
  /\ disk.state \in {"absent", "torn", "whole"}
  /\ disk.recs \subseteq [pos : Nat, alias : Alias, info : TokenInfo]
  /\ behind \in BOOLEAN
  /\ renamed \subseteq Nat
  /\ detached \subseteq {"open", "len"}
  /\ run \in Run
  /\ stop \in Stop

\* The tokens of a file or of the store in their order, without the names at
\* the positions ps.  Generated aliases count as one: load numbers them anew.
Contents(recs, ps) ==
  {[e EXCEPT !.alias = IF e.pos \in ps THEN UNNAMED ELSE AsRequested(@)] : e \in recs}

\* Between requests the file has what the store has, whatever requests came
\* before and in whichever order, unless a save failed or its handler was
\* dropped, and but for the names that usage checks gave since: nothing saves
\* those.  The next save that succeeds makes up for all of it.
DiskCurrent ==
  run = "up" /\ lock = None /\ ~behind =>
    Contents(disk.recs, renamed) = Contents(Image, renamed)

\* What a save has written can be loaded: no alias in it is taken by the time
\* its record is reached, although ids, and with them the generated aliases,
\* are handed out anew from 0 on.
LoadNeverRefuses == run # "refused"

\* A store that has been loaded has the tokens of the file, in their order,
\* with their names and states.
RestartRestores ==
  [][run = "loading" /\ run' = "up" => Contents(Image', {}) = Contents(disk.recs, {})]_routeVars
=============================================================================
