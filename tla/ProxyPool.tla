------------------------------ MODULE ProxyPool ------------------------------
(***************************************************************************)
(* The proxy pool of src/src/app/model/proxy_pool.rs, the administrator's  *)
(* proxy routes over it (src/src/core/route/proxies.rs) and its file.      *)
(*                                                                         *)
(* The pool is four statics, each of them an ArcSwap: a load and a store   *)
(* of one of them is atomic, and there is no lock around several.  A       *)
(* handler loads and stores them one after the other, on a thread of its   *)
(* own, and each load and store of a shared map or name is a step here.    *)
(* Handlers overlap when there are several in Handler.                     *)
(*                                                                         *)
(* A handler waits only while it saves; a lost connection drops it there,  *)
(* and the file operation it has started still runs.                       *)
(***************************************************************************)
EXTENDS Naturals, Functions

CONSTANTS
  Handler,    \* administrator's requests that may be under way together
  Name,       \* names of proxies
  SYS_PROXY,  \* the name "sys"
  Proxy,      \* SingleProxy values
  Sys,        \* SingleProxy::Sys
  Maps        \* the maps of proxies that requests carry


VARIABLES
  proxies,        \* PROXIES: name -> proxy
  general_name,   \* GENERAL_NAME
  clients,        \* CLIENTS: the proxies that have a client
  general_client, \* GENERAL_CLIENT: the proxy its client goes through
  h,              \* how far each handler is, and what it has loaded
  file,           \* the proxies' file
  behind,         \* the file may differ from the pool: a save did not come about
  detached,       \* file operations of dropped handlers that are still to run
  fault           \* set_general unwrapped nothing

poolVars == <<proxies, general_name, clients, general_client>>
fileVars == <<file, behind, detached>>
vars == <<poolVars, h, fileVars, fault>>

MapOf(S) == [S -> Proxy]
Map == UNION {MapOf(S) : S \in SUBSET Name}

ASSUME PoolAssumption == SYS_PROXY \in Name /\ Sys \in Proxy /\ Maps \subseteq Map

default_proxies == [n \in {SYS_PROXY} |-> Sys]

Absent      == [state |-> "absent", map |-> default_proxies, general |-> SYS_PROXY]
Torn        == [state |-> "torn", map |-> default_proxies, general |-> SYS_PROXY]
Whole(m, g) == [state |-> "whole", map |-> m, general |-> g]

Pc == {"idle", "added", "removed", "name", "pool", "poolName", "default", "publish",
       "publishName", "setClients", "setMap", "setName", "setGeneral",
       "save", "saveName", "open", "len"}

Idle == [pc |-> "idle", map |-> default_proxies, general |-> SYS_PROXY, clients |-> {}]

At(r, pc) == ~fault /\ h[r].pc = pc
Goto(r, pc) == h' = [h EXCEPT ![r].pc = pc]
Reply(r) == h' = [h EXCEPT ![r] = Idle]

-----------------------------------------------------------------------------
(* Up to the update of the pool, the routes differ. *)

\* handle_set_proxies, update_global: the map is stored, then the name.
SetProxies(r, m, g) ==
  /\ At(r, "idle")
  /\ proxies' = m
  /\ h' = [h EXCEPT ![r].pc = "name", ![r].general = g]
  /\ UNCHANGED <<general_name, clients, general_client, fileVars, fault>>

\* Names that are there keep their proxy.
Merged(cur, m) ==
  [n \in DOMAIN cur \cup DOMAIN m |-> IF n \in DOMAIN cur THEN cur[n] ELSE m[n]]

\* handle_add_proxy; without a new name it replies at once.
AddProxy(r, m) ==
  /\ At(r, "idle")
  /\ ~(DOMAIN m \subseteq DOMAIN proxies)
  /\ h' = [h EXCEPT ![r].pc = "added", ![r].map = Merged(proxies, m)]
  /\ UNCHANGED <<poolVars, fileVars, fault>>

Remaining(cur, S) ==
  IF DOMAIN cur \subseteq S THEN default_proxies ELSE Restrict(cur, DOMAIN cur \ S)

\* handle_delete_proxies; without a known name the pool is updated all the same.
DeleteProxies(r, S) ==
  /\ At(r, "idle")
  /\ h' = [h EXCEPT ![r].pc = IF S \cap DOMAIN proxies = {} THEN "pool" ELSE "removed",
                    ![r].map = Remaining(proxies, S)]
  /\ UNCHANGED <<poolVars, fileVars, fault>>

StoreMap(r) ==
  /\ At(r, "added") \/ At(r, "removed")
  /\ proxies' = h[r].map
  /\ Goto(r, "pool")
  /\ UNCHANGED <<general_name, clients, general_client, fileVars, fault>>

\* handle_set_general_proxy; an unknown name is refused.
SetGeneralProxy(r, n) ==
  /\ At(r, "idle")
  /\ n \in DOMAIN proxies
  /\ h' = [h EXCEPT ![r].pc = "name", ![r].general = n]
  /\ UNCHANGED <<poolVars, fileVars, fault>>

StoreName(r) ==
  /\ At(r, "name")
  /\ general_name' = h[r].general
  /\ Goto(r, "pool")
  /\ UNCHANGED <<proxies, clients, general_client, fileVars, fault>>

-----------------------------------------------------------------------------
(* update_global_pool *)

PoolLoadMap(r) ==
  /\ At(r, "pool")
  /\ h' = [h EXCEPT ![r].pc = "poolName", ![r].map = proxies]
  /\ UNCHANGED <<poolVars, fileVars, fault>>

Unrevised(m, g) == {g}

\* The general name that goes with a map: "sys" for none, any name of the map
\* if the one there is does not occur in it.
Revised(m, g) ==
  IF DOMAIN m = {} THEN {SYS_PROXY}
  ELSE IF g \in DOMAIN m THEN {g} ELSE DOMAIN m

PoolLoadName(r) ==
  /\ At(r, "poolName")
  /\ \E g \in Revised(h[r].map, general_name) :
       h' = [h EXCEPT ![r].pc = IF DOMAIN h[r].map = {} THEN "default" ELSE "publish",
                      ![r].general = g]
  /\ UNCHANGED <<poolVars, fileVars, fault>>

\* An empty map is replaced in PROXIES; the handler goes on with the empty one.
PoolDefault(r) ==
  /\ At(r, "default")
  /\ proxies' = default_proxies
  /\ Goto(r, "publish")
  /\ UNCHANGED <<general_name, clients, general_client, fileVars, fault>>

NewClientsOnly(m) == Range(m) \ clients

\* Clients of proxies that do not occur any more are dropped, missing ones
\* made: whichever there were, those of the map remain.
ClientsOf(m) == Range(m)

PublishClients(r) ==
  /\ At(r, "publish")
  /\ clients' = ClientsOf(h[r].map)
  /\ Goto(r, "publishName")
  /\ UNCHANGED <<proxies, general_name, general_client, fileVars, fault>>

PublishNameOnly(r) ==
  /\ At(r, "publishName")
  /\ general_name' = h[r].general
  /\ Goto(r, "save")
  /\ UNCHANGED <<proxies, clients, general_client, fileVars, fault>>

PublishName(r) ==
  /\ At(r, "publishName")
  /\ general_name' = h[r].general
  /\ Goto(r, "setClients")
  /\ UNCHANGED <<proxies, clients, general_client, fileVars, fault>>

\* set_general loads the clients, the map and the name, in this order.
SetLoads(r) ==
  /\ \/ At(r, "setClients") /\ h' = [h EXCEPT ![r].pc = "setMap", ![r].clients = clients]
     \/ At(r, "setMap") /\ h' = [h EXCEPT ![r].pc = "setName", ![r].map = proxies]
     \/ At(r, "setName") /\ h' = [h EXCEPT ![r].pc = "setGeneral", ![r].general = general_name]
  /\ UNCHANGED <<poolVars, fileVars, fault>>

SetGeneralUnsaved(r) ==
  /\ At(r, "setGeneral")
  /\ general_client' = h[r].map[h[r].general]
  /\ Reply(r)
  /\ UNCHANGED <<proxies, general_name, clients, fileVars, fault>>

\* Both lookups are unwrapped unchecked.
SetGeneral(r) ==
  LET v == h[r]
  IN  /\ At(r, "setGeneral")
      /\ IF v.general \in DOMAIN v.map /\ v.map[v.general] \in v.clients
         THEN general_client' = v.map[v.general] /\ UNCHANGED fault
         ELSE general_client' \in Proxy /\ fault' = TRUE
      /\ Goto(r, "save")
      /\ UNCHANGED <<proxies, general_name, clients, fileVars>>

-----------------------------------------------------------------------------
(* save, of a handler or of AppState::save at shutdown *)

ShutdownSave(r) ==
  /\ At(r, "idle")
  /\ Goto(r, "save")
  /\ UNCHANGED <<poolVars, fileVars, fault>>

SaveLoads(r) ==
  /\ \/ At(r, "save") /\ h' = [h EXCEPT ![r].pc = "saveName", ![r].map = proxies]
     \/ At(r, "saveName") /\ h' = [h EXCEPT ![r].pc = "open", ![r].general = general_name]
  /\ UNCHANGED <<poolVars, fileVars, fault>>

SaveOpen(r) ==
  /\ At(r, "open")
  /\ file' = Torn
  /\ Goto(r, "len")
  /\ UNCHANGED <<poolVars, behind, detached, fault>>

SaveCopy(r) ==
  /\ At(r, "len")
  /\ file' = Whole(h[r].map, h[r].general)
  /\ behind' = FALSE
  /\ Reply(r)
  /\ UNCHANGED <<poolVars, detached, fault>>

SaveFails(r) ==
  /\ At(r, "open") \/ At(r, "len")
  /\ behind' = TRUE
  /\ Reply(r)
  /\ UNCHANGED <<poolVars, file, detached, fault>>

CancelAnywhere(r) ==
  /\ ~fault /\ h[r].pc # "idle"
  /\ behind' = TRUE /\ detached' = detached \cup {h[r].pc}
  /\ Reply(r)
  /\ UNCHANGED <<poolVars, file, fault>>

\* The connection is lost.
Cancel(r) ==
  /\ At(r, "open") \/ At(r, "len")
  /\ behind' = TRUE /\ detached' = detached \cup {h[r].pc}
  /\ Reply(r)
  /\ UNCHANGED <<poolVars, file, fault>>

\* The truncation of a dropped handler, or its set_len, which may or may not
\* change the size that the file has.
Lands(op) ==
  /\ op \in detached /\ ~fault
  /\ detached' = detached \ {op}
  /\ \/ file' = Torn /\ behind' = TRUE
     \/ op = "len" /\ UNCHANGED <<file, behind>>
  /\ UNCHANGED <<poolVars, h, fault>>

-----------------------------------------------------------------------------
(* load and init.  Nobody is served before they are over, and they are one *)
(* step.  Nothing is known of what follows the load of a torn file.        *)

Installed(f) ==
  /\ proxies' = IF DOMAIN f.map = {} THEN default_proxies ELSE f.map
  /\ general_name' \in Revised(f.map, f.general)
  /\ clients' = Range(proxies')
  /\ general_client' = proxies'[general_name']

Restart ==
  /\ ~fault
  /\ file # Torn
  /\ Installed(file)
  /\ h' = [r \in Handler |-> Idle]
  /\ behind' = (file = Absent) /\ detached' = {}
  /\ UNCHANGED <<file, fault>>

Init ==
  /\ proxies = default_proxies /\ general_name = SYS_PROXY
  /\ clients = {Sys} /\ general_client = Sys
  /\ h = [r \in Handler |-> Idle]
  /\ file = Absent /\ behind = TRUE /\ detached = {}
  /\ fault = FALSE

Route(r) ==
  \/ \E m \in Maps, g \in Name : SetProxies(r, m, g)
  \/ \E m \in Maps : AddProxy(r, m)
  \/ \E S \in SUBSET Name : DeleteProxies(r, S)
  \/ \E n \in Name : SetGeneralProxy(r, n)
  \/ StoreMap(r) \/ StoreName(r)

UpdatePool(r) ==
  \/ PoolLoadMap(r) \/ PoolLoadName(r) \/ PoolDefault(r)
  \/ PublishClients(r) \/ PublishName(r)
  \/ SetLoads(r) \/ SetGeneral(r)

Save(r) ==
  \/ ShutdownSave(r) \/ SaveLoads(r)
  \/ SaveOpen(r) \/ SaveCopy(r) \/ SaveFails(r) \/ Cancel(r)

Next ==
  \/ \E r \in Handler : Route(r) \/ UpdatePool(r) \/ Save(r)
  \/ \E op \in {"open", "len"} : Lands(op)
  \/ Restart

Spec == Init /\ [][Next]_vars

\* The administrator's requests do not overlap.  Nothing in the code sees to
\* it; the file operations of dropped handlers overlap with them all the same.
Serial ==
  \A r, q \in Handler : h[r].pc # "idle" /\ h[q].pc # "idle" => r = q

SerialSpec == Init /\ [][Next /\ Serial']_vars

-----------------------------------------------------------------------------
(* Properties *)

\* Every variable has its type.
TypeOK ==
  /\ proxies \in Map
  /\ general_name \in Name
  /\ clients \subseteq Proxy
  /\ general_client \in Proxy
  /\ h \in [Handler -> [pc : Pc, map : Map, general : Name, clients : SUBSET Proxy]]
  /\ file \in [state : {"absent", "torn", "whole"}, map : Map, general : Name]
  /\ behind \in BOOLEAN /\ detached \subseteq {"open", "len"} /\ fault \in BOOLEAN

AtRest == \A r \in Handler : h[r].pc = "idle"

\* Between requests, the general name is that of a proxy (there is always one:
\* "make sure there is at least the default proxy"), the general client goes
\* through that proxy, and there is a client for each proxy of the map and for
\* no other.
PoolExact ==
  AtRest =>
    /\ general_name \in DOMAIN proxies
    /\ general_client = proxies[general_name]
    /\ clients = Range(proxies)

\* The precondition of set_general: "general_name must exist in proxies, and
\* the proxy it stands for in clients".
NoFault == ~fault

\* With requests that do not overlap, nothing but an empty map, for which
\* update_global_pool publishes no client at all, leaves set_general without
\* its precondition: neither a deleted nor an unknown general name does.
FaultNeedsEmptyMap == fault => clients = {}

\* get_client: the client that a name gets, the general one if it has none.
\* Its loads of the map, the clients and the general client are three moments
\* of the code; for a name whose proxy stays the same over them, which is what
\* is said of it below, the first always finds that proxy.
get_client(n) ==
  IF n \in DOMAIN proxies /\ proxies[n] \in clients THEN proxies[n] ELSE general_client

\* Chat requests go on while the pool is updated: a name whose proxy stays
\* the same gets a client of that proxy at every moment in between, as long as
\* there are clients.
ClientsKept ==
  [][\A n \in DOMAIN proxies \cap DOMAIN proxies' :
       /\ proxies'[n] = proxies[n] /\ get_client(n) = proxies[n]
       /\ clients' # {}
       => get_client(n)' = proxies[n]]_vars

\* Between requests the file has what the pool has, unless a save failed or
\* its handler was dropped.
SavedIsCurrent ==
  AtRest /\ ~behind => file = Whole(proxies, general_name)
=============================================================================
