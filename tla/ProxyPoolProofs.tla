--------------------------- MODULE ProxyPoolProofs ---------------------------
(***************************************************************************)
(* The proxy pool's statics agree between requests, for any handlers,      *)
(* names, proxies and maps, in behaviours in which the administrator's     *)
(* requests do not overlap (SerialSpec).  In between they do not agree;    *)
(* the inductive invariant says, for each place where the one handler that *)
(* is under way may be, how far the statics and what it has loaded do.     *)
(***************************************************************************)
EXTENDS ProxyPool, TLAPS

\* No other handler than r is under way.
Alone(r) == \A q \in Handler \ {r} : h[q].pc = "idle"

\* The statics agree.
Exact ==
  /\ general_name \in DOMAIN proxies
  /\ general_client = proxies[general_name]
  /\ clients = Range(proxies)

\* What update_global_pool leaves to set_general: there is a proxy of the
\* general name, and a client for each proxy unless the map was empty.
Publishable(m, g) ==
  /\ g \in DOMAIN proxies
  /\ m = proxies \/ DOMAIN m = {}

Published ==
  /\ general_name \in DOMAIN proxies
  /\ clients = Range(proxies) \/ clients = {}

\* How far things are when the handler's next step is pc.
Stage(v) ==
  /\ v.pc \in {"idle", "added", "removed", "save", "saveName", "open", "len"} => Exact
  /\ v.pc \in {"added", "removed"} => DOMAIN v.map # {}
  /\ v.pc \in {"poolName", "default", "setName", "setGeneral", "saveName", "open", "len"} =>
       v.map = proxies
  /\ v.pc = "default" => DOMAIN proxies = {} /\ v.general = SYS_PROXY
  /\ v.pc = "publish" => Publishable(v.map, v.general)
  /\ v.pc = "publishName" =>
       v.general \in DOMAIN proxies /\ (clients = Range(proxies) \/ clients = {})
  /\ v.pc \in {"setClients", "setMap", "setName", "setGeneral"} => Published
  /\ v.pc \in {"setMap", "setName", "setGeneral"} => v.clients = clients
  /\ v.pc \in {"setGeneral", "open", "len"} => v.general = general_name

\* The file is absent, torn or that of a pool whose statics agreed.
FileOK ==
  \/ file = Absent
  \/ file = Torn
  \/ \E m \in Map : \E g \in DOMAIN m : file = Whole(m, g)

\* The statics agree unless somebody is under way, who is at some stage then.
Underway ==
  /\ \A r \in Handler : h[r].pc # "idle" => Stage(h[r])
  /\ AtRest => Exact

IInv ==
  /\ TypeOK
  /\ Serial
  /\ ~fault => Underway
  /\ fault => clients = {} /\ ~AtRest
  /\ FileOK
  /\ SavedIsCurrent

-----------------------------------------------------------------------------
(* Maps of proxies, and the records of handlers *)

HState == [pc : Pc, map : Map, general : Name, clients : SUBSET Proxy]

\* A map is a function from some of the names to proxies.
LEMMA MapFacts ==
  ASSUME NEW m \in Map
  PROVE  /\ DOMAIN m \subseteq Name
         /\ \A n \in DOMAIN m : m[n] \in Proxy
         /\ Range(m) \subseteq Proxy
<1>1. PICK S \in SUBSET Name : m \in [S -> Proxy]
  BY DEF Map, MapOf
<1> QED
  BY <1>1 DEF Range

LEMMA MapIntro ==
  ASSUME NEW S \in SUBSET Name, NEW m \in [S -> Proxy]
  PROVE  m \in Map
BY DEF Map, MapOf

LEMMA DefaultMap ==
  /\ default_proxies \in Map
  /\ DOMAIN default_proxies = {SYS_PROXY}
<1>1. default_proxies \in [{SYS_PROXY} -> Proxy] /\ {SYS_PROXY} \in SUBSET Name
  BY PoolAssumption DEF default_proxies
<1> QED
  BY <1>1, MapIntro

LEMMA MergedMap ==
  ASSUME NEW a \in Map, NEW b \in Map
  PROVE  /\ Merged(a, b) \in Map
         /\ DOMAIN Merged(a, b) = DOMAIN a \cup DOMAIN b
<1>1. /\ DOMAIN a \cup DOMAIN b \in SUBSET Name
      /\ Merged(a, b) \in [DOMAIN a \cup DOMAIN b -> Proxy]
  BY MapFacts DEF Merged
<1> QED
  BY <1>1, MapIntro DEF Merged

\* A deletion leaves at least the default proxy.
LEMMA RemainingMap ==
  ASSUME NEW a \in Map, NEW S
  PROVE  Remaining(a, S) \in Map /\ DOMAIN Remaining(a, S) # {}
<1>1. CASE DOMAIN a \subseteq S
  BY <1>1, DefaultMap DEF Remaining
<1>2. CASE ~(DOMAIN a \subseteq S)
  <2>1. /\ DOMAIN a \ S \in SUBSET Name
        /\ Restrict(a, DOMAIN a \ S) \in [DOMAIN a \ S -> Proxy]
    BY MapFacts DEF Restrict
  <2> QED
    BY <2>1, <1>2, MapIntro DEF Remaining, Restrict
<1> QED
  BY <1>1, <1>2

\* A handler moves on and keeps what it has loaded.
LEMMA Moves ==
  ASSUME h \in [Handler -> HState], NEW r \in Handler, NEW p \in Pc,
         h' = [h EXCEPT ![r].pc = p]
  PROVE  /\ h' \in [Handler -> HState]
         /\ h'[r] = [pc |-> p, map |-> h[r].map, general |-> h[r].general, clients |-> h[r].clients]
BY DEF HState

LEMMA LoadsMap ==
  ASSUME h \in [Handler -> HState], NEW r \in Handler, NEW p \in Pc, NEW m \in Map,
         h' = [h EXCEPT ![r].pc = p, ![r].map = m]
  PROVE  /\ h' \in [Handler -> HState]
         /\ h'[r] = [pc |-> p, map |-> m, general |-> h[r].general, clients |-> h[r].clients]
BY DEF HState

LEMMA LoadsName ==
  ASSUME h \in [Handler -> HState], NEW r \in Handler, NEW p \in Pc, NEW g \in Name,
         h' = [h EXCEPT ![r].pc = p, ![r].general = g]
  PROVE  /\ h' \in [Handler -> HState]
         /\ h'[r] = [pc |-> p, map |-> h[r].map, general |-> g, clients |-> h[r].clients]
BY DEF HState

LEMMA LoadsClients ==
  ASSUME h \in [Handler -> HState], NEW r \in Handler, NEW p \in Pc, NEW c \in SUBSET Proxy,
         h' = [h EXCEPT ![r].pc = p, ![r].clients = c]
  PROVE  /\ h' \in [Handler -> HState]
         /\ h'[r] = [pc |-> p, map |-> h[r].map, general |-> h[r].general, clients |-> c]
BY DEF HState

LEMMA Replies ==
  ASSUME h \in [Handler -> HState], NEW r \in Handler, Reply(r)
  PROVE  h' \in [Handler -> HState] /\ h'[r] = Idle
<1>1. Idle \in HState
  BY DefaultMap, PoolAssumption DEF Idle, HState, Pc
<1> QED
  BY <1>1 DEF Reply

-----------------------------------------------------------------------------
(* Steps *)

\* A step that is not a reply: what is to be shown is the handler's stage.
LEMMA GoesOn ==
  ASSUME IInv, NEW r \in Handler, Alone(r)', ~fault,
         h' \in [Handler -> HState], h'[r].pc # "idle",
         proxies' \in Map, general_name' \in Name,
         clients' \subseteq Proxy, general_client' \in Proxy,
         UNCHANGED fileVars, fault' = FALSE, Stage(h[r])'
  PROVE  IInv'
<1>1. TypeOK'
  BY DEF IInv, TypeOK, HState, fileVars
<1>2. FileOK' /\ SavedIsCurrent'
  BY DEF IInv, FileOK, SavedIsCurrent, AtRest, fileVars
<1>3. Serial' /\ ~AtRest'
  BY DEF Alone, Serial, AtRest
<1>4. \A q \in Handler : h'[q].pc # "idle" => Stage(h[q])'
  BY DEF Alone
<1> QED
  BY <1>1, <1>2, <1>3, <1>4 DEF IInv, Underway

\* A handler replies: nobody is under way any more.
LEMMA EndsAt ==
  ASSUME NEW r \in Handler, Alone(r)', h'[r] = Idle, fault' = FALSE, Exact'
  PROVE  Serial' /\ Underway' /\ AtRest'
<1>1. \A q \in Handler : h'[q].pc = "idle"
  BY DEF Alone, Idle
<1> QED
  BY <1>1 DEF Serial, Underway, AtRest

\* What every step of a handler starts from.
LEMMA Before ==
  ASSUME IInv, NEW r \in Handler, Alone(r), ~fault
  PROVE  /\ fault = FALSE /\ r \in Handler /\ h \in [Handler -> HState] /\ Stage(h[r])
         /\ h[r].map \in Map /\ h[r].general \in Name /\ h[r].clients \subseteq Proxy
         /\ proxies \in Map /\ general_name \in Name
         /\ clients \subseteq Proxy /\ general_client \in Proxy
<1>1. Stage(h[r])
  <2>1. CASE h[r].pc # "idle"
    BY <2>1 DEF IInv, Underway
  <2>2. CASE h[r].pc = "idle"
    <3>1. Exact
      BY <2>2 DEF IInv, Underway, Alone, AtRest
    <3> QED
      BY <3>1, <2>2 DEF Stage
  <2> QED
    BY <2>1, <2>2
<1> QED
  BY <1>1 DEF IInv, TypeOK, HState

\* A step of a handler starts or goes on with its request, and touches no
\* other handler.
LEMMA OthersStay ==
  ASSUME TypeOK, NEW r \in Handler, Route(r) \/ UpdatePool(r) \/ Save(r)
  PROVE  /\ \A q \in Handler \ {r} : h'[q] = h[q]
         /\ h[r].pc # "idle" \/ h'[r].pc # "idle"
<1>0. h \in [Handler -> HState]
  BY DEF TypeOK, HState
<1>1. CASE Route(r)
  BY <1>0, <1>1 DEF Route, SetProxies, AddProxy, DeleteProxies, SetGeneralProxy, StoreMap, StoreName,
                    At, Goto, HState
<1>2. CASE UpdatePool(r)
  BY <1>0, <1>2 DEF UpdatePool, PoolLoadMap, PoolLoadName, PoolDefault, PublishClients, PublishName,
                    SetLoads, SetGeneral, At, Goto, HState
<1>3. CASE Save(r)
  BY <1>0, <1>3 DEF Save, ShutdownSave, SaveLoads, SaveOpen, SaveCopy, SaveFails, Cancel,
                    At, Goto, Reply, HState
<1> QED
  BY <1>1, <1>2, <1>3

\* So it is alone, before and after.
LEMMA StepsAlone ==
  ASSUME IInv, Serial', NEW r \in Handler, Route(r) \/ UpdatePool(r) \/ Save(r)
  PROVE  Alone(r) /\ Alone(r)'
<1>1. /\ \A q \in Handler \ {r} : h'[q] = h[q]
      /\ h[r].pc # "idle" \/ h'[r].pc # "idle"
  BY OthersStay DEF IInv
<1> QED
  BY <1>1 DEF IInv, Serial, Alone

\* The routes, up to the update of the pool.
LEMMA RouteIInv ==
  ASSUME IInv, NEW r \in Handler, Alone(r), Alone(r)', Route(r)
  PROVE  IInv'
<1>0. ~fault
  BY DEF Route, SetProxies, AddProxy, DeleteProxies, SetGeneralProxy, StoreMap, StoreName, At
<1>b. /\ fault = FALSE /\ r \in Handler /\ h \in [Handler -> HState] /\ Stage(h[r])
      /\ h[r].map \in Map /\ h[r].general \in Name /\ h[r].clients \subseteq Proxy
      /\ proxies \in Map /\ general_name \in Name
      /\ clients \subseteq Proxy /\ general_client \in Proxy
  BY <1>0, Before
<1>pc. /\ "name" \in Pc /\ "added" \in Pc /\ "removed" \in Pc /\ "pool" \in Pc
  BY DEF Pc
<1>1. ASSUME NEW m \in Maps, NEW g \in Name, SetProxies(r, m, g) PROVE IInv'
  <2>1. m \in Map
    BY <1>1, PoolAssumption
  <2>2. /\ h' \in [Handler -> HState] /\ h'[r].pc = "name"
    <3>1. h' = [h EXCEPT ![r].pc = "name", ![r].general = g]
      BY <1>1 DEF SetProxies
    <3>2. /\ h' \in [Handler -> HState]
          /\ h'[r] = [pc |-> "name", map |-> h[r].map, general |-> g,
                     clients |-> h[r].clients]
      BY <3>1, <1>b, <1>pc, LoadsName
    <3> QED
      BY <3>2
  <2>3. Stage(h[r])'
    BY <2>2 DEF Stage
  <2> QED
    BY <1>1, <1>0, <1>b, <2>1, <2>2, <2>3, GoesOn DEF SetProxies
<1>2. ASSUME NEW m \in Maps, AddProxy(r, m) PROVE IInv'
  <2>1. m \in Map
    BY <1>2, PoolAssumption
  <2>2. /\ Merged(proxies, m) \in Map
        /\ DOMAIN Merged(proxies, m) # {}
    <3>1. DOMAIN m # {}
      BY <1>2 DEF AddProxy
    <3>2. /\ Merged(proxies, m) \in Map
          /\ DOMAIN Merged(proxies, m) = DOMAIN proxies \cup DOMAIN m
      BY <1>b, <2>1, MergedMap
    <3> QED
      BY <3>1, <3>2
  <2>3. /\ h' \in [Handler -> HState]
        /\ h'[r].pc = "added" /\ h'[r].map = Merged(proxies, m)
    <3>1. h' = [h EXCEPT ![r].pc = "added", ![r].map = Merged(proxies, m)]
      BY <1>2 DEF AddProxy
    <3>2. /\ h' \in [Handler -> HState]
          /\ h'[r] = [pc |-> "added", map |-> Merged(proxies, m), general |-> h[r].general,
                     clients |-> h[r].clients]
      BY <3>1, <1>b, <1>pc, <2>2, LoadsMap
    <3> QED
      BY <3>2
  <2>4. UNCHANGED poolVars /\ Exact /\ Exact'
    BY <1>2, <1>b DEF AddProxy, At, Stage, poolVars, Exact
  <2>5. Stage(h[r])'
    BY <2>2, <2>3, <2>4 DEF Stage, poolVars
  <2> QED
    BY <1>2, <1>0, <1>b, <2>3, <2>4, <2>5, GoesOn DEF AddProxy, poolVars
<1>3. ASSUME NEW S \in SUBSET Name, DeleteProxies(r, S) PROVE IInv'
  <2>1. Remaining(proxies, S) \in Map /\ DOMAIN Remaining(proxies, S) # {}
    BY <1>b, RemainingMap
  <2>2. /\ h' \in [Handler -> HState]
        /\ h'[r].pc \in {"pool", "removed"} /\ h'[r].map = Remaining(proxies, S)
    <3>1. PICK p : p = IF S \cap DOMAIN proxies = {} THEN "pool" ELSE "removed"
      OBVIOUS
    <3>2. h' = [h EXCEPT ![r].pc = p, ![r].map = Remaining(proxies, S)]
      BY <1>3, <3>1 DEF DeleteProxies
    <3>3. p \in Pc /\ p \in {"pool", "removed"}
      BY <3>1, <1>pc
    <3>4. /\ h' \in [Handler -> HState]
          /\ h'[r] = [pc |-> p, map |-> Remaining(proxies, S), general |-> h[r].general,
                     clients |-> h[r].clients]
      BY <3>2, <3>3, <1>b, <2>1, LoadsMap
    <3> QED
      BY <3>4, <3>3
  <2>3. UNCHANGED poolVars /\ Exact /\ Exact'
    BY <1>3, <1>b DEF DeleteProxies, At, Stage, poolVars, Exact
  <2>4. Stage(h[r])'
    BY <2>1, <2>2, <2>3 DEF Stage, poolVars
  <2> QED
    BY <1>3, <1>0, <1>b, <2>2, <2>3, <2>4, GoesOn DEF DeleteProxies, poolVars
<1>4. ASSUME NEW n \in Name, SetGeneralProxy(r, n) PROVE IInv'
  <2>1. h' \in [Handler -> HState] /\ h'[r].pc = "name"
    <3>1. h' = [h EXCEPT ![r].pc = "name", ![r].general = n]
      BY <1>4 DEF SetGeneralProxy
    <3>2. /\ h' \in [Handler -> HState]
          /\ h'[r] = [pc |-> "name", map |-> h[r].map, general |-> n,
                     clients |-> h[r].clients]
      BY <3>1, <1>b, <1>pc, LoadsName
    <3> QED
      BY <3>2
  <2>2. Stage(h[r])'
    BY <2>1 DEF Stage
  <2> QED
    BY <1>4, <1>0, <1>b, <2>1, <2>2, GoesOn DEF SetGeneralProxy, poolVars
<1>5. ASSUME StoreMap(r) \/ StoreName(r) PROVE IInv'
  <2>1. h' \in [Handler -> HState] /\ h'[r].pc = "pool"
    <3>1. h' = [h EXCEPT ![r].pc = "pool"]
      BY <1>5 DEF StoreMap, StoreName, Goto
    <3>2. /\ h' \in [Handler -> HState]
          /\ h'[r] = [pc |-> "pool", map |-> h[r].map, general |-> h[r].general,
                     clients |-> h[r].clients]
      BY <3>1, <1>b, <1>pc, Moves
    <3> QED
      BY <3>2
  <2>2. Stage(h[r])'
    BY <2>1 DEF Stage
  <2> QED
    BY <1>5, <1>0, <1>b, <2>1, <2>2, GoesOn DEF StoreMap, StoreName
<1> QED
  BY <1>1, <1>2, <1>3, <1>4, <1>5 DEF Route

\* update_global_pool: the statics are brought into agreement one by one.
LEMMA UpdateIInv ==
  ASSUME IInv, NEW r \in Handler, Alone(r), Alone(r)', UpdatePool(r)
  PROVE  IInv'
<1>0. ~fault
  BY DEF UpdatePool, PoolLoadMap, PoolLoadName, PoolDefault, PublishClients, PublishName,
         SetLoads, SetGeneral, At
<1>b. /\ fault = FALSE /\ r \in Handler /\ h \in [Handler -> HState] /\ Stage(h[r])
      /\ h[r].map \in Map /\ h[r].general \in Name /\ h[r].clients \subseteq Proxy
      /\ proxies \in Map /\ general_name \in Name
      /\ clients \subseteq Proxy /\ general_client \in Proxy
  BY <1>0, Before
<1>pc. /\ "poolName" \in Pc /\ "default" \in Pc /\ "publish" \in Pc /\ "publishName" \in Pc
       /\ "setClients" \in Pc /\ "setMap" \in Pc /\ "setName" \in Pc /\ "setGeneral" \in Pc
       /\ "save" \in Pc
  BY DEF Pc
<1>1. ASSUME PoolLoadMap(r) PROVE IInv'
  <2>1. h' \in [Handler -> HState] /\ h'[r].pc = "poolName" /\ h'[r].map = proxies
    <3>1. h' = [h EXCEPT ![r].pc = "poolName", ![r].map = proxies]
      BY <1>1 DEF PoolLoadMap
    <3>2. /\ h' \in [Handler -> HState]
          /\ h'[r] = [pc |-> "poolName", map |-> proxies, general |-> h[r].general,
                     clients |-> h[r].clients]
      BY <3>1, <1>b, <1>pc, LoadsMap
    <3> QED
      BY <3>2
  <2>2. Stage(h[r])'
    BY <1>1, <2>1 DEF Stage, PoolLoadMap, poolVars
  <2> QED
    BY <1>1, <1>0, <1>b, <2>1, <2>2, GoesOn DEF PoolLoadMap, poolVars
<1>2. ASSUME PoolLoadName(r) PROVE IInv'
  <2>1. PICK g \in Revised(h[r].map, general_name) :
          h' = [h EXCEPT ![r].pc = IF DOMAIN h[r].map = {} THEN "default" ELSE "publish",
                         ![r].general = g]
    BY <1>2 DEF PoolLoadName
  <2>2. h[r].map = proxies /\ UNCHANGED poolVars
    BY <1>2, <1>b DEF PoolLoadName, At, Stage
  <2>3. g \in Name /\ (IF DOMAIN proxies = {} THEN g = SYS_PROXY ELSE g \in DOMAIN proxies)
    BY <2>1, <2>2, <1>b, MapFacts, PoolAssumption DEF Revised
  <2>4. /\ h' \in [Handler -> HState] /\ h'[r].map = proxies /\ h'[r].general = g
        /\ h'[r].pc = IF DOMAIN proxies = {} THEN "default" ELSE "publish"
    <3>1. PICK p : p = IF DOMAIN h[r].map = {} THEN "default" ELSE "publish"
      OBVIOUS
    <3>2. h' = [h EXCEPT ![r].pc = p, ![r].general = g]
      BY <2>1, <3>1
    <3>3. p \in Pc
      BY <3>1, <1>pc
    <3>4. /\ h' \in [Handler -> HState]
          /\ h'[r] = [pc |-> p, map |-> h[r].map, general |-> g, clients |-> h[r].clients]
      BY <3>2, <3>3, <2>3, <1>b, LoadsName
    <3> QED
      BY <3>1, <3>4, <2>2
  <2>5. Stage(h[r])'
    BY <2>2, <2>3, <2>4 DEF Stage, Publishable, poolVars
  <2> QED
    BY <1>2, <1>0, <1>b, <2>2, <2>4, <2>5, GoesOn DEF PoolLoadName, poolVars
<1>3. ASSUME PoolDefault(r) PROVE IInv'
  <2>1. /\ h' \in [Handler -> HState] /\ h'[r].pc = "publish"
        /\ h'[r].map = h[r].map /\ h'[r].general = h[r].general
    <3>1. h' = [h EXCEPT ![r].pc = "publish"]
      BY <1>3 DEF PoolDefault, Goto
    <3>2. /\ h' \in [Handler -> HState]
          /\ h'[r] = [pc |-> "publish", map |-> h[r].map, general |-> h[r].general,
                     clients |-> h[r].clients]
      BY <3>1, <1>b, <1>pc, Moves
    <3> QED
      BY <3>2
  <2>2. DOMAIN h[r].map = {} /\ h[r].general = SYS_PROXY /\ proxies' = default_proxies
    BY <1>3, <1>b DEF PoolDefault, At, Stage
  <2>3. Stage(h[r])'
    BY <2>1, <2>2, DefaultMap DEF Stage, Publishable
  <2> QED
    BY <1>3, <1>0, <1>b, <2>1, <2>2, <2>3, DefaultMap, GoesOn DEF PoolDefault
<1>4. ASSUME PublishClients(r) PROVE IInv'
  <2>1. /\ h' \in [Handler -> HState] /\ h'[r].pc = "publishName"
        /\ h'[r].general = h[r].general
    <3>1. h' = [h EXCEPT ![r].pc = "publishName"]
      BY <1>4 DEF PublishClients, Goto
    <3>2. /\ h' \in [Handler -> HState]
          /\ h'[r] = [pc |-> "publishName", map |-> h[r].map, general |-> h[r].general,
                     clients |-> h[r].clients]
      BY <3>1, <1>b, <1>pc, Moves
    <3> QED
      BY <3>2
  <2>2. Publishable(h[r].map, h[r].general) /\ clients' = Range(h[r].map) /\ proxies' = proxies
    BY <1>4, <1>b DEF PublishClients, At, Stage, ClientsOf
  <2>3. clients' = Range(proxies) \/ clients' = {}
    BY <2>2 DEF Publishable, Range
  <2>4. Stage(h[r])'
    BY <2>1, <2>2, <2>3 DEF Stage, Publishable
  <2>5. clients' \subseteq Proxy
    BY <2>2, <1>b, MapFacts
  <2> QED
    BY <1>4, <1>0, <1>b, <2>1, <2>4, <2>5, GoesOn DEF PublishClients
<1>5. ASSUME PublishName(r) PROVE IInv'
  <2>1. h' \in [Handler -> HState] /\ h'[r].pc = "setClients"
    <3>1. h' = [h EXCEPT ![r].pc = "setClients"]
      BY <1>5 DEF PublishName, Goto
    <3>2. /\ h' \in [Handler -> HState]
          /\ h'[r] = [pc |-> "setClients", map |-> h[r].map, general |-> h[r].general,
                     clients |-> h[r].clients]
      BY <3>1, <1>b, <1>pc, Moves
    <3> QED
      BY <3>2
  <2>2. Published'
    BY <1>5, <1>b DEF PublishName, At, Stage, Published
  <2>3. Stage(h[r])'
    BY <2>1, <2>2 DEF Stage
  <2> QED
    BY <1>5, <1>0, <1>b, <2>1, <2>3, GoesOn DEF PublishName
<1>6. ASSUME SetLoads(r) PROVE IInv'
  <2>1. Published /\ Published' /\ UNCHANGED poolVars
    BY <1>6, <1>b DEF SetLoads, At, Stage, Published, poolVars
  <2>2. CASE At(r, "setClients")
    <3>1. h' \in [Handler -> HState] /\ h'[r].pc = "setMap" /\ h'[r].clients = clients
      <4>1. h' = [h EXCEPT ![r].pc = "setMap", ![r].clients = clients]
        BY <1>6, <2>2 DEF SetLoads, At
      <4>2. /\ h' \in [Handler -> HState]
            /\ h'[r] = [pc |-> "setMap", map |-> h[r].map, general |-> h[r].general,
                       clients |-> clients]
        BY <4>1, <1>b, <1>pc, LoadsClients
      <4> QED
        BY <4>2, <2>2, <1>b DEF At, Stage
    <3>2. Stage(h[r])'
      BY <3>1, <2>1 DEF Stage, poolVars
    <3> QED
      BY <1>6, <1>0, <1>b, <2>1, <3>1, <3>2, GoesOn DEF SetLoads, poolVars
  <2>3. CASE At(r, "setMap")
    <3>1. /\ h' \in [Handler -> HState] /\ h'[r].pc = "setName"
          /\ h'[r].clients = clients /\ h'[r].map = proxies
      <4>1. h' = [h EXCEPT ![r].pc = "setName", ![r].map = proxies]
        BY <1>6, <2>3 DEF SetLoads, At
      <4>2. /\ h' \in [Handler -> HState]
            /\ h'[r] = [pc |-> "setName", map |-> proxies, general |-> h[r].general,
                       clients |-> h[r].clients]
        BY <4>1, <1>b, <1>pc, LoadsMap
      <4> QED
        BY <4>2, <2>3, <1>b DEF At, Stage
    <3>2. Stage(h[r])'
      BY <3>1, <2>1 DEF Stage, poolVars
    <3> QED
      BY <1>6, <1>0, <1>b, <2>1, <3>1, <3>2, GoesOn DEF SetLoads, poolVars
  <2>4. CASE At(r, "setName")
    <3>1. /\ h' \in [Handler -> HState] /\ h'[r].pc = "setGeneral"
          /\ h'[r].clients = clients /\ h'[r].map = proxies /\ h'[r].general = general_name
      <4>1. h' = [h EXCEPT ![r].pc = "setGeneral", ![r].general = general_name]
        BY <1>6, <2>4 DEF SetLoads, At
      <4>2. /\ h' \in [Handler -> HState]
            /\ h'[r] = [pc |-> "setGeneral", map |-> h[r].map, general |-> general_name,
                       clients |-> h[r].clients]
        BY <4>1, <1>b, <1>pc, LoadsName
      <4> QED
        BY <4>2, <2>4, <1>b DEF At, Stage
    <3>2. Stage(h[r])'
      BY <3>1, <2>1 DEF Stage, poolVars
    <3> QED
      BY <1>6, <1>0, <1>b, <2>1, <3>1, <3>2, GoesOn DEF SetLoads, poolVars
  <2> QED
    BY <1>6, <2>2, <2>3, <2>4 DEF SetLoads
<1>7. ASSUME SetGeneral(r) PROVE IInv'
  <2>1. h' \in [Handler -> HState] /\ h'[r].pc = "save"
    <3>1. h' = [h EXCEPT ![r].pc = "save"]
      BY <1>7 DEF SetGeneral, Goto
    <3>2. /\ h' \in [Handler -> HState]
          /\ h'[r] = [pc |-> "save", map |-> h[r].map, general |-> h[r].general,
                     clients |-> h[r].clients]
      BY <3>1, <1>b, <1>pc, Moves
    <3> QED
      BY <3>2
  <2>2. /\ Published /\ h[r].map = proxies /\ h[r].general = general_name /\ h[r].clients = clients
        /\ UNCHANGED <<proxies, general_name, clients, fileVars>>
    BY <1>7, <1>b DEF SetGeneral, At, Stage
  <2>3. CASE clients = Range(proxies)
    <3>1. proxies[general_name] \in clients
      BY <2>2, <2>3 DEF Published, Range
    <3>2. general_client' = proxies[general_name] /\ fault' = fault
      BY <1>7, <2>2, <3>1 DEF SetGeneral, Published
    <3>3. Exact'
      BY <2>2, <2>3, <3>2 DEF Exact, Published
    <3>4. Stage(h[r])'
      BY <2>1, <3>3 DEF Stage
    <3> QED
      BY <1>0, <1>b, <2>1, <2>2, <3>1, <3>2, <3>4, GoesOn
  <2>4. CASE clients = {}
    <3>1. fault' = TRUE /\ general_client' \in Proxy
      BY <1>7, <2>2, <2>4 DEF SetGeneral
    <3>2. TypeOK'
      BY <1>b, <2>1, <2>2, <3>1 DEF IInv, TypeOK, HState, fileVars
    <3>3. FileOK' /\ SavedIsCurrent'
      BY <2>1, <2>2 DEF IInv, FileOK, SavedIsCurrent, AtRest, fileVars
    <3>4. Serial' /\ ~AtRest'
      BY <2>1 DEF Alone, Serial, AtRest
    <3> QED
      BY <2>1, <2>2, <2>4, <3>1, <3>2, <3>3, <3>4 DEF IInv
  <2> QED
    BY <2>2, <2>3, <2>4 DEF Published
<1> QED
  BY <1>1, <1>2, <1>3, <1>4, <1>5, <1>6, <1>7 DEF UpdatePool

\* save: what is written is what was loaded, and that is the pool.
LEMMA SaveIInv ==
  ASSUME IInv, NEW r \in Handler, Alone(r), Alone(r)', Save(r)
  PROVE  IInv'
<1>0. ~fault
  BY DEF Save, ShutdownSave, SaveLoads, SaveOpen, SaveCopy, SaveFails, Cancel, At
<1>b. /\ fault = FALSE /\ r \in Handler /\ h \in [Handler -> HState] /\ Stage(h[r])
      /\ h[r].map \in Map /\ h[r].general \in Name /\ h[r].clients \subseteq Proxy
      /\ proxies \in Map /\ general_name \in Name
      /\ clients \subseteq Proxy /\ general_client \in Proxy
  BY <1>0, Before
<1>pc. "save" \in Pc /\ "saveName" \in Pc /\ "open" \in Pc /\ "len" \in Pc
  BY DEF Pc
<1>x. Exact /\ Exact' /\ UNCHANGED poolVars /\ fault' = FALSE
  <2>1. h[r].pc \in {"idle", "save", "saveName", "open", "len"}
    BY DEF Save, ShutdownSave, SaveLoads, SaveOpen, SaveCopy, SaveFails, Cancel, At
  <2>2. UNCHANGED poolVars /\ fault' = FALSE
    BY <1>b DEF Save, ShutdownSave, SaveLoads, SaveOpen, SaveCopy, SaveFails, Cancel
  <2>3. Exact
    BY <2>1, <1>b DEF Stage
  <2> QED
    BY <2>2, <2>3 DEF Exact, poolVars
<1>1. ASSUME ShutdownSave(r) PROVE IInv'
  <2>1. h' \in [Handler -> HState] /\ h'[r].pc = "save"
    <3>1. h' = [h EXCEPT ![r].pc = "save"]
      BY <1>1 DEF ShutdownSave, Goto
    <3>2. /\ h' \in [Handler -> HState]
          /\ h'[r] = [pc |-> "save", map |-> h[r].map, general |-> h[r].general,
                     clients |-> h[r].clients]
      BY <3>1, <1>b, <1>pc, Moves
    <3> QED
      BY <3>2
  <2>2. Stage(h[r])'
    BY <2>1, <1>x DEF Stage
  <2> QED
    BY <1>1, <1>0, <1>b, <1>x, <2>1, <2>2, GoesOn DEF ShutdownSave, poolVars
<1>2. ASSUME SaveLoads(r) PROVE IInv'
  <2>1. CASE At(r, "save")
    <3>1. h' = [h EXCEPT ![r].pc = "saveName", ![r].map = proxies]
      BY <1>2, <2>1 DEF SaveLoads, At
    <3>2. /\ h' \in [Handler -> HState]
          /\ h'[r] = [pc |-> "saveName", map |-> proxies, general |-> h[r].general,
                     clients |-> h[r].clients]
      BY <3>1, <1>b, <1>pc, LoadsMap
    <3>3. Stage(h[r])'
      BY <3>2, <1>x DEF Stage, poolVars
    <3> QED
      BY <1>2, <1>0, <1>b, <1>x, <3>2, <3>3, GoesOn DEF SaveLoads, poolVars
  <2>2. CASE At(r, "saveName")
    <3>1. h' = [h EXCEPT ![r].pc = "open", ![r].general = general_name]
      BY <1>2, <2>2 DEF SaveLoads, At
    <3>2. /\ h' \in [Handler -> HState]
          /\ h'[r] = [pc |-> "open", map |-> h[r].map, general |-> general_name,
                     clients |-> h[r].clients]
      BY <3>1, <1>b, <1>pc, LoadsName
    <3>3. h[r].map = proxies
      BY <2>2, <1>b DEF At, Stage
    <3>4. Stage(h[r])'
      BY <3>2, <3>3, <1>x DEF Stage, poolVars
    <3> QED
      BY <1>2, <1>0, <1>b, <1>x, <3>2, <3>4, GoesOn DEF SaveLoads, poolVars
  <2> QED
    BY <1>2, <2>1, <2>2 DEF SaveLoads
<1>3. ASSUME SaveOpen(r) PROVE IInv'
  <2>1. h' = [h EXCEPT ![r].pc = "len"]
    BY <1>3 DEF SaveOpen, Goto
  <2>2. /\ h' \in [Handler -> HState]
        /\ h'[r] = [pc |-> "len", map |-> h[r].map, general |-> h[r].general,
                   clients |-> h[r].clients]
    BY <2>1, <1>b, <1>pc, Moves
  <2>3. h[r].map = proxies /\ h[r].general = general_name
    BY <1>3, <1>b DEF SaveOpen, At, Stage
  <2>4. Stage(h[r])'
    BY <2>2, <2>3, <1>x DEF Stage, poolVars
  <2>5. file' = Torn /\ UNCHANGED <<behind, detached>>
    BY <1>3 DEF SaveOpen
  <2>6. TypeOK'
    BY <1>b, <1>x, <2>2, <2>5, DefaultMap, PoolAssumption DEF IInv, TypeOK, HState, Torn, poolVars
  <2>7. FileOK' /\ SavedIsCurrent'
    BY <2>2, <2>5 DEF FileOK, SavedIsCurrent, AtRest
  <2>8. Serial' /\ ~AtRest' /\ \A q \in Handler : h'[q].pc # "idle" => Stage(h[q])'
    BY <2>2, <2>4 DEF Alone, Serial, AtRest
  <2> QED
    BY <1>x, <2>6, <2>7, <2>8 DEF IInv, Underway
<1>4. ASSUME SaveCopy(r) PROVE IInv'
  <2>1. h' \in [Handler -> HState] /\ h'[r] = Idle
    BY <1>4, <1>b, Replies DEF SaveCopy
  <2>2. h[r].map = proxies /\ h[r].general = general_name
    BY <1>4, <1>b DEF SaveCopy, At, Stage
  <2>3. file' = Whole(proxies, general_name) /\ behind' = FALSE /\ detached' = detached
    BY <1>4, <2>2 DEF SaveCopy
  <2>4. Serial' /\ Underway' /\ AtRest'
    BY <2>1, <1>x, EndsAt
  <2>5. TypeOK'
    BY <1>b, <1>x, <2>1, <2>3 DEF IInv, TypeOK, HState, Whole, poolVars
  <2>6. FileOK' /\ SavedIsCurrent'
    BY <2>3, <1>b, <1>x DEF FileOK, SavedIsCurrent, Exact, poolVars
  <2> QED
    BY <1>x, <2>4, <2>5, <2>6 DEF IInv
<1>5. ASSUME SaveFails(r) \/ Cancel(r) PROVE IInv'
  <2>1. h' \in [Handler -> HState] /\ h'[r] = Idle
    BY <1>5, <1>b, Replies DEF SaveFails, Cancel
  <2>2. file' = file /\ behind' = TRUE
    BY <1>5 DEF SaveFails, Cancel
  <2>3. detached' \subseteq {"open", "len"}
    BY <1>5 DEF SaveFails, Cancel, At, IInv, TypeOK
  <2>4. Serial' /\ Underway' /\ AtRest'
    BY <2>1, <1>x, EndsAt
  <2>5. TypeOK'
    BY <1>b, <1>x, <2>1, <2>2, <2>3 DEF IInv, TypeOK, HState, poolVars
  <2>6. FileOK' /\ SavedIsCurrent'
    BY <2>2 DEF IInv, FileOK, SavedIsCurrent
  <2> QED
    BY <1>x, <2>4, <2>5, <2>6 DEF IInv
<1> QED
  BY <1>1, <1>2, <1>3, <1>4, <1>5 DEF Save

\* A late file operation tears the file or leaves it.
LEMMA LandsIInv ==
  ASSUME IInv, NEW op, Lands(op)
  PROVE  IInv'
<1>1. /\ UNCHANGED <<proxies, general_name, clients, general_client, h, fault>>
      /\ detached' \subseteq detached
      /\ (file' = Torn /\ behind' = TRUE) \/ UNCHANGED <<file, behind>>
  BY DEF Lands, poolVars
<1>2. TypeOK'
  <2>1. file' \in [state : {"absent", "torn", "whole"}, map : Map, general : Name]
    BY <1>1, DefaultMap, PoolAssumption DEF IInv, TypeOK, Torn
  <2>2. behind' \in BOOLEAN
    BY <1>1 DEF IInv, TypeOK
  <2>3. detached' \subseteq {"open", "len"}
    BY <1>1 DEF IInv, TypeOK
  <2> QED
    BY <1>1, <2>1, <2>2, <2>3 DEF IInv, TypeOK
<1>3. FileOK' /\ SavedIsCurrent'
  BY <1>1 DEF IInv, FileOK, SavedIsCurrent, AtRest
<1>4. /\ Serial'
      /\ ~fault' => Underway'
      /\ fault' => clients' = {} /\ ~AtRest'
  BY <1>1 DEF IInv, Serial, AtRest, Underway, Stage, Exact, Publishable, Published
<1> QED
  BY <1>2, <1>3, <1>4 DEF IInv

\* init: whatever the file has, the statics agree afterwards.
LEMMA RestartIInv ==
  ASSUME IInv, Restart
  PROVE  IInv'
<1>1. /\ h' = [r \in Handler |-> Idle] /\ file' = file /\ fault' = fault /\ ~fault
      /\ detached' = {} /\ behind' = (file = Absent) /\ Installed(file) /\ file # Torn
  BY DEF Restart
<1>2. file.map \in Map /\ file.general \in DOMAIN file.map
  <2>1. CASE file = Absent
    BY <2>1, DefaultMap DEF Absent
  <2>2. CASE file # Absent
    <3>1. PICK m \in Map : \E g \in DOMAIN m : file = Whole(m, g)
      BY <1>1, <2>2 DEF IInv, FileOK
    <3> QED
      BY <3>1 DEF Whole
  <2> QED
    BY <2>1, <2>2
<1>3. proxies' = file.map /\ general_name' = file.general
  BY <1>1, <1>2 DEF Installed, Revised
<1>4. Exact'
  BY <1>1, <1>2, <1>3 DEF Installed, Exact
<1>5. clients' \subseteq Proxy /\ general_client' \in Proxy /\ general_name' \in Name
  BY <1>2, <1>3, <1>4, MapFacts DEF Exact
<1>6. Idle \in HState
  BY DefaultMap, PoolAssumption DEF Idle, HState, Pc
<1>7. TypeOK'
  <2>1. h' \in [Handler -> HState]
    BY <1>1, <1>6
  <2>2. behind' \in BOOLEAN
    BY <1>1
  <2> QED
    BY <1>1, <1>2, <1>3, <1>5, <2>1, <2>2 DEF IInv, TypeOK, HState
<1>8. Serial' /\ Underway'
  <2>1. \A r \in Handler : h'[r].pc = "idle"
    BY <1>1 DEF Idle
  <2> QED
    BY <1>4, <2>1 DEF Serial, Underway
<1>9. FileOK' /\ SavedIsCurrent'
  <2>1. FileOK'
    BY <1>1 DEF IInv, FileOK
  <2>2. ASSUME ~behind' PROVE file' = Whole(proxies, general_name)'
    <3>1. PICK m \in Map : \E g \in DOMAIN m : file = Whole(m, g)
      BY <2>2, <1>1 DEF IInv, FileOK
    <3> QED
      BY <3>1, <1>1, <1>3 DEF Whole
  <2> QED
    BY <2>1, <2>2 DEF SavedIsCurrent
<1> QED
  BY <1>1, <1>7, <1>8, <1>9 DEF IInv

LEMMA InitIInv == Init => IInv
<1> SUFFICES ASSUME Init PROVE IInv
  OBVIOUS
<1>1. Idle \in HState
  BY DefaultMap, PoolAssumption DEF Idle, HState, Pc
<1>2. h \in [Handler -> HState] /\ \A r \in Handler : h[r] = Idle
  BY <1>1 DEF Init
<1>3. TypeOK
  <2>1. file \in [state : {"absent", "torn", "whole"}, map : Map, general : Name]
    BY DefaultMap, PoolAssumption DEF Init, Absent
  <2> QED
    BY <1>2, <2>1, DefaultMap, PoolAssumption DEF Init, TypeOK, HState
<1>4. Exact
  BY DefaultMap DEF Init, Exact, Range, default_proxies
<1>5. Serial /\ Underway
  <2>1. \A r \in Handler : h[r].pc = "idle"
    BY <1>2 DEF Idle
  <2> QED
    BY <1>4, <2>1 DEF Serial, Underway
<1>6. FileOK /\ SavedIsCurrent /\ ~fault
  BY DEF Init, FileOK, SavedIsCurrent
<1> QED
  BY <1>3, <1>5, <1>6 DEF IInv

\* Needed by all of the theorems.
LEMMA NextIInv == IInv /\ [Next /\ Serial']_vars => IInv'
<1> SUFFICES ASSUME IInv, [Next /\ Serial']_vars PROVE IInv'
  OBVIOUS
<1>2. ASSUME NEW r \in Handler, Route(r), Serial' PROVE IInv'
  BY <1>2, StepsAlone, RouteIInv
<1>3. ASSUME NEW r \in Handler, UpdatePool(r), Serial' PROVE IInv'
  BY <1>3, StepsAlone, UpdateIInv
<1>4. ASSUME NEW r \in Handler, Save(r), Serial' PROVE IInv'
  BY <1>4, StepsAlone, SaveIInv
<1>5. ASSUME NEW op, Lands(op) PROVE IInv'
  BY <1>5, LandsIInv
<1>6. CASE Restart
  BY <1>6, RestartIInv
<1>7. CASE UNCHANGED vars
  <2>1. UNCHANGED <<proxies, general_name, clients, general_client, h, file, behind, detached, fault>>
    BY <1>7 DEF vars, poolVars, fileVars
  <2>2. TypeOK'
    BY <2>1 DEF IInv, TypeOK
  <2>3. FileOK' /\ SavedIsCurrent'
    BY <2>1 DEF IInv, FileOK, SavedIsCurrent, AtRest
  <2>4. /\ Serial'
        /\ ~fault' => Underway'
        /\ fault' => clients' = {} /\ ~AtRest'
    BY <2>1 DEF IInv, Serial, AtRest, Underway, Stage, Exact, Publishable, Published
  <2> QED
    BY <2>2, <2>3, <2>4 DEF IInv
<1> QED
  BY <1>2, <1>3, <1>4, <1>5, <1>6, <1>7 DEF Next

-----------------------------------------------------------------------------
(* Theorems *)

\* With requests that do not overlap, every static and everything a handler
\* has loaded is of its type at every load and store.
THEOREM TypeCorrect == SerialSpec => []TypeOK
<1>1. IInv => TypeOK
  BY DEF IInv
<1> QED
  BY <1>1, InitIInv, NextIInv, PTL DEF SerialSpec

\* If requests do not overlap, then between them the map, the general name, the
\* clients and the general client agree, whatever maps and names the requests
\* have carried, and after every restart.
THEOREM StaticsAgree == SerialSpec => []PoolExact
<1>1. IInv => PoolExact
  BY DEF IInv, PoolExact, Underway, Exact
<1> QED
  BY <1>1, InitIInv, NextIInv, PTL DEF SerialSpec

\* If requests do not overlap, set_general's unchecked lookups go wrong after an
\* empty map only.
THEOREM OnlyEmptyMapFaults == SerialSpec => []FaultNeedsEmptyMap
<1>1. IInv => FaultNeedsEmptyMap
  BY DEF IInv, FaultNeedsEmptyMap
<1> QED
  BY <1>1, InitIInv, NextIInv, PTL DEF SerialSpec

\* If requests do not overlap, the proxies' file follows the pool, over lost
\* connections, the late file operations of handlers that are gone, which do
\* overlap with the requests that follow, and restarts.
THEOREM FileFollows == SerialSpec => []SavedIsCurrent
<1>1. IInv => SavedIsCurrent
  BY DEF IInv
<1> QED
  BY <1>1, InitIInv, NextIInv, PTL DEF SerialSpec

\* If the administrator's requests do not overlap with one another, a chat
\* request, which overlaps with them, gets a client of its proxy at each step
\* of an update of the pool if that proxy stays: clients are stored before
\* names, and only dropped when the map that was stored before has no use for
\* them.
THEOREM ChatsKeepClients == SerialSpec => ClientsKept
<1> DEFINE Kept ==
      \A n \in DOMAIN proxies \cap DOMAIN proxies' :
        /\ proxies'[n] = proxies[n] /\ get_client(n) = proxies[n]
        /\ clients' # {}
        => get_client(n)' = proxies[n]
<1>1. ASSUME IInv, [Next /\ Serial']_vars PROVE [Kept]_vars
  <2> SUFFICES ASSUME NEW n \in DOMAIN proxies \cap DOMAIN proxies', Next,
                      proxies'[n] = proxies[n], get_client(n) = proxies[n], clients' # {}
               PROVE  get_client(n)' = proxies[n]
    BY <1>1
  <2>2. CASE UNCHANGED <<clients, general_client>>
    BY <2>2 DEF get_client
  <2>3. ASSUME NEW r \in Handler, PublishClients(r) PROVE get_client(n)' = proxies[n]
    <3>1. ~fault /\ Stage(h[r]) /\ h[r].pc = "publish"
      BY <1>1, <2>3 DEF PublishClients, At, IInv, Underway
    <3>2. clients' = Range(h[r].map) /\ proxies' = proxies
      BY <2>3 DEF PublishClients, ClientsOf
    <3>3. h[r].map = proxies
      BY <3>1, <3>2 DEF Stage, Publishable, Range
    <3>4. n \in DOMAIN proxies' /\ proxies'[n] \in clients'
      BY <3>2, <3>3 DEF Range
    <3> QED
      BY <3>4 DEF get_client
  <2>4. ASSUME NEW r \in Handler, SetGeneral(r) PROVE get_client(n)' = proxies[n]
    <3>1. ~fault /\ Stage(h[r]) /\ h[r].pc = "setGeneral"
      BY <1>1, <2>4 DEF SetGeneral, At, IInv, Underway
    <3>2. clients' = clients /\ proxies' = proxies
      BY <2>4 DEF SetGeneral
    <3>3. clients = Range(proxies)
      BY <3>1, <3>2 DEF Stage, Published
    <3>4. n \in DOMAIN proxies' /\ proxies'[n] \in clients'
      BY <3>2, <3>3 DEF Range
    <3> QED
      BY <3>4 DEF get_client
  <2>5. CASE Restart
    BY <2>5 DEF Restart, Installed, get_client, Range
  <2>6. ASSUME NEW r \in Handler, Route(r) \/ UpdatePool(r) \/ Save(r)
        PROVE  UNCHANGED <<clients, general_client>> \/ PublishClients(r) \/ SetGeneral(r)
    <3>1. CASE Route(r)
      BY <3>1 DEF Route, SetProxies, AddProxy, DeleteProxies, SetGeneralProxy, StoreMap,
                  StoreName, poolVars
    <3>2. CASE Save(r)
      BY <3>2 DEF Save, ShutdownSave, SaveLoads, SaveOpen, SaveCopy, SaveFails, Cancel, poolVars
    <3>3. CASE UpdatePool(r)
      BY <3>3 DEF UpdatePool, PoolLoadMap, PoolLoadName, PoolDefault, PublishName, SetLoads, poolVars
    <3> QED
      BY <2>6, <3>1, <3>2, <3>3
  <2>7. ASSUME NEW op, Lands(op) PROVE UNCHANGED <<clients, general_client>>
    BY <2>7 DEF Lands, poolVars
  <2> QED
    BY <2>2, <2>3, <2>4, <2>5, <2>6, <2>7 DEF Next
<1> QED
  BY <1>1, InitIInv, NextIInv, PTL DEF SerialSpec, ClientsKept
=============================================================================
