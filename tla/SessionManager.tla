--------------------------- MODULE SessionManager ---------------------------
(***************************************************************************)
(* The sessions of upstream clients and the downstream MCP clients opened  *)
(* for them (session.go, client_manager.go), with everything that touches  *)
(* them concurrently: the callbacks of the MCP SDK (server.go), the lazy   *)
(* discovery of tools/list and the on-demand discovery of discover_tools   *)
(* (server.go, gateway.go), the idle cleanup and the shutdown.             *)
(*                                                                         *)
(* A session ID is a key of the manager's map; the Session behind it is an *)
(* object that goroutines keep using after the map has dropped it, so the  *)
(* model tells the two apart.  Downstream clients are numbered             *)
(* connections.  A lookup and the TouchActivity that follows it are one    *)
(* step: a late touch can only land on a session that is already removed,  *)
(* where nothing reads it.  Session.connected, which only the report of    *)
(* list_sessions reads, is left out.                                       *)
(***************************************************************************)
EXTENDS Naturals, FiniteSets

CONSTANTS Ids,          \* session IDs
          Names,        \* configured downstream clients
          PassThrough,  \* those with pass-through credentials
          Kinds,        \* the discoveries that happen: "lazy", "all", a name
          MaxSessions,  \* bound: session objects ever created
          MaxConns,     \* bound: downstream connections ever opened
          NoName        \* "no client name"

ASSUME NamesAssumption ==
    /\ PassThrough \subseteq Names /\ NoName \notin Names
    /\ Kinds \subseteq {"lazy", "all"} \cup PassThrough
ASSUME BoundsAssumption == MaxSessions \in Nat /\ MaxConns \in Nat

VARIABLES
    sessions,   \* sm.sessions: the object of an ID, or None
    objects,    \* session objects created so far
    closing,    \* closing[o]: Session.closing
    idle,       \* idle[o]: the timeout has passed since lastActivity
    clients,    \* clients[o][n]: the stored connection, or None
    removed,    \* removed[o]: who took o off the map and still has to close it
    opened,     \* connections opened so far
    conn,       \* conn[c]: "unused", "open" or "closed"
    displaced,  \* history: connections overwritten in a session
    flight,     \* flight[k]: the discovery running under a singleflight key
    gateway     \* progress of ClientManager.Close

sessionVars == <<sessions, objects, closing, idle, clients, removed>>
connVars == <<opened, conn, displaced>>
vars == <<sessionVars, connVars, flight, gateway>>

None == 0
Objects == 1 .. MaxSessions
Conns == 1 .. MaxConns
Keys == Ids \X Kinds  \* the keys of the two singleflight groups

NoClients == [n \in Names |-> None]
\* todo: clients still to visit; name: the one being created for session
\* object obj over connection conn.
Flight(pc, todo, name, obj, c) ==
    [pc |-> pc, todo |-> todo, name |-> name, obj |-> obj, conn |-> c]
NoFlight == Flight("none", {}, NoName, None, None)

Init ==
    /\ sessions = [id \in Ids |-> None]
    /\ objects = 0
    /\ closing = [o \in Objects |-> FALSE]
    /\ idle = [o \in Objects |-> FALSE]
    /\ clients = [o \in Objects |-> NoClients]
    /\ removed = [o \in Objects |-> "no"]
    /\ opened = 0
    /\ conn = [c \in Conns |-> "unused"]
    /\ displaced = {}
    /\ flight = [k \in Keys |-> NoFlight]
    /\ gateway = "up"

Mapped(o) == \E id \in Ids : sessions[id] = o
StoredIn(o) == {clients[o][n] : n \in Names} \ {None}
-----------------------------------------------------------------------------
(* Operations of Session and SessionManager. *)

TouchActivity(o) == idle' = [idle EXCEPT ![o] = FALSE]

\* Succeeds only when the ID has no session.
CreateSession(id) ==
    /\ sessions[id] = None
    /\ objects < MaxSessions
    /\ objects' = objects + 1
    /\ sessions' = [sessions EXCEPT ![id] = objects + 1]

\* Session.Close, under the session's lock.
Close(o) ==
    /\ closing' = [closing EXCEPT ![o] = TRUE]
    /\ conn' = [c \in Conns |-> IF c \in StoredIn(o) THEN "closed" ELSE conn[c]]
    /\ clients' = [clients EXCEPT ![o] = NoClients]

\* Mutant: a closing session accepts clients.
SetClientAlways(o, n, c) ==
    /\ clients' = [clients EXCEPT ![o][n] = c]
    /\ displaced' = displaced \cup ({clients[o][n]} \ {None})

\* Session.SetClient, where it accepts the client: a client already stored
\* under the name is overwritten, and no one closes it.
SetClient(o, n, c) ==
    /\ ~closing[o]
    /\ clients' = [clients EXCEPT ![o][n] = c]
    /\ displaced' = displaced \cup ({clients[o][n]} \ {None})
-----------------------------------------------------------------------------
(* Callbacks of the MCP SDK, and time. *)

\* A new session, or a repeated registration that refreshes the old one.
onSessionRegister(id) ==
    /\ \/ /\ CreateSession(id)
          /\ UNCHANGED idle
       \/ /\ sessions[id] # None
          /\ TouchActivity(sessions[id])
          /\ UNCHANGED <<sessions, objects>>
    /\ UNCHANGED <<closing, clients, removed, connVars, flight, gateway>>

\* The downstream clients are deliberately kept.
onSessionUnregister(id) ==
    /\ sessions[id] # None
    /\ TouchActivity(sessions[id])
    /\ UNCHANGED <<sessions, objects, closing, clients, removed, connVars, flight,
                   gateway>>

\* Any request that only looks the session or one of its clients up: a tool
\* call, tools/list on a session that has clients, a native tool.
GetSession(id) ==
    /\ sessions[id] # None
    /\ TouchActivity(sessions[id])
    /\ UNCHANGED <<sessions, objects, closing, clients, removed, connVars,
                   flight, gateway>>

\* sessionTimeout passes without a request.
IsExpired(o) ==
    /\ Mapped(o)
    /\ ~idle[o]
    /\ idle' = [idle EXCEPT ![o] = TRUE]
    /\ UNCHANGED <<sessions, objects, closing, clients, removed, connVars,
                   flight, gateway>>
-----------------------------------------------------------------------------
(* The ways a session ends: it leaves the map under the manager's lock, and *)
(* is closed outside it.                                                    *)

Remove(objs, who) ==
    /\ sessions' = [id \in Ids |-> IF sessions[id] \in objs THEN None ELSE sessions[id]]
    /\ removed' = [o \in Objects |-> IF o \in objs THEN who ELSE removed[o]]

CloseRemoved(o, who) ==
    /\ removed[o] = who
    /\ removed' = [removed EXCEPT ![o] = "no"]
    /\ Close(o)
    /\ UNCHANGED <<sessions, objects, idle, opened, displaced, flight,
                   gateway>>

\* Mutant: a session that a discovery works on counts as in use.
ExpiredUnlessBusy ==
    {o \in Objects : Mapped(o) /\ idle[o] /\ \A k \in Ids \X Kinds : flight[k].obj # o}

Expired == {o \in Objects : Mapped(o) /\ idle[o]}

\* One pass of the cleanup goroutine; the next pass starts when the sessions
\* of this one are closed.
cleanupExpiredSessions ==
    /\ gateway \in {"up", "stopping"}
    /\ \A o \in Objects : removed[o] # "cleanup"
    /\ Expired # {}
    /\ Remove(Expired, "cleanup")
    /\ UNCHANGED <<objects, closing, idle, clients, connVars, flight,
                   gateway>>

DeleteSession(id) ==
    /\ sessions[id] # None
    /\ Remove({sessions[id]}, "delete")
    /\ UNCHANGED <<objects, closing, idle, clients, connVars, flight,
                   gateway>>

\* ClientManager.Close: signal the cleanup goroutine, ...
StopCleanup ==
    /\ gateway = "up"
    /\ gateway' = "stopping"
    /\ UNCHANGED <<sessionVars, connVars, flight>>

\* ... wait until it is out of its loop and empty the map, ...
CloseAllSessions ==
    /\ gateway = "stopping"
    /\ \A o \in Objects : removed[o] # "cleanup"
    /\ Remove({o \in Objects : Mapped(o)}, "shutdown")
    /\ gateway' = "closing"
    /\ UNCHANGED <<objects, closing, idle, clients, connVars, flight>>

\* ... close what was in it, and be done.
Stopped ==
    /\ gateway = "closing"
    /\ \A o \in Objects : removed[o] # "shutdown"
    /\ gateway' = "down"
    /\ UNCHANGED <<sessionVars, connVars, flight>>
-----------------------------------------------------------------------------
(* Discovery.  Singleflight runs at most one function per key; requests     *)
(* that join a running one change nothing.                                  *)

Move(k, f) == flight' = [flight EXCEPT ![k] = f]
ID(k) == k[1]
Session(k) == sessions[ID(k)]

\* Mutant: the connection of the last name is not cleared.
NextNameStale(k) == Flight("next", flight[k].todo, NoName, None, flight[k].conn)

\* The name is dealt with: on to the next.
NextName(k) == Flight("next", flight[k].todo, NoName, None, None)
At(k, pc) == flight[k].pc = pc
\* The flight of k at another place.
Going(k, pc) == Flight(pc, flight[k].todo, flight[k].name, None, flight[k].conn)
GoingWith(k, pc, o, c) ==
    Flight(pc, flight[k].todo, flight[k].name, o, c)

\* ensurePassThroughToolsDiscovered: no client in the session, credentials
\* in the request; the check is repeated inside the singleflight.
LazyStart(k) ==
    /\ k[2] = "lazy"
    /\ At(k, "none")
    /\ Session(k) # None => StoredIn(Session(k)) = {}
    /\ IF Session(k) # None THEN TouchActivity(Session(k)) ELSE UNCHANGED idle
    /\ Move(k, Flight("lookup", {}, NoName, None, None))
    /\ UNCHANGED <<sessions, objects, closing, clients, removed, connVars,
                   gateway>>

\* CreateSessionClients: the session must exist.
LazyLookup(k) ==
    /\ At(k, "lookup")
    /\ IF Session(k) # None
       THEN /\ TouchActivity(Session(k))
            /\ Move(k, Flight("next", Names, NoName, None, None))
       ELSE UNCHANGED idle /\ Move(k, NoFlight)
    /\ UNCHANGED <<sessions, objects, closing, clients, removed, connVars,
                   gateway>>

\* doDiscoverPassThroughTools for every pass-through client or one of them.
DiscoverStart(k) ==
    /\ k[2] # "lazy"
    /\ At(k, "none")
    /\ Move(k, Flight("next", IF k[2] = "all" THEN PassThrough ELSE {k[2]},
                      NoName, None, None))
    /\ UNCHANGED <<sessionVars, connVars, gateway>>

\* The next client of the loop.  Lazy discovery creates it unconditionally,
\* on-demand discovery first asks whether the session has it.
VisitClient(k, n) ==
    LET rest == flight[k].todo \ {n} IN
    /\ At(k, "next")
    /\ n \in flight[k].todo
    /\ CASE k[2] = "lazy" ->
              UNCHANGED idle /\ Move(k, Flight("connect", rest, n, None, None))
         [] k[2] # "lazy" /\ Session(k) = None ->
              UNCHANGED idle /\ Move(k, Flight("session", rest, n, None, None))
         [] k[2] # "lazy" /\ Session(k) # None ->
              /\ TouchActivity(Session(k))
              /\ IF clients[Session(k)][n] # None
                 THEN Move(k, Flight("next", rest, NoName, None, None))
                 ELSE Move(k, Flight("session", rest, n, None, None))
    /\ UNCHANGED <<sessions, objects, closing, clients, removed, connVars,
                   gateway>>

DiscoveryDone(k) ==
    /\ At(k, "next")
    /\ flight[k].todo = {}
    /\ Move(k, NoFlight)
    /\ UNCHANGED <<sessionVars, connVars, gateway>>

\* CreateSingleSessionClient: get the session; the last attempt, after a lost
\* creation race, fails when the session is gone again.
LookupSession(k) ==
    /\ At(k, "session") \/ At(k, "again")
    /\ IF Session(k) # None
       THEN /\ TouchActivity(Session(k))
            /\ Move(k, GoingWith(k, "check", Session(k), None))
       ELSE /\ UNCHANGED idle
            /\ Move(k, IF At(k, "session") THEN Going(k, "create") ELSE NextName(k))
    /\ UNCHANGED <<sessions, objects, closing, clients, removed, connVars,
                   gateway>>

\* ... or create it, unless another goroutine has meanwhile.
CreateMissingSession(k) ==
    /\ At(k, "create")
    /\ \/ /\ CreateSession(ID(k))
          /\ Move(k, GoingWith(k, "check", objects + 1, None))
       \/ /\ Session(k) # None
          /\ Move(k, Going(k, "again"))
          /\ UNCHANGED <<sessions, objects>>
    /\ UNCHANGED <<closing, idle, clients, removed, connVars, gateway>>

\* A client the session already has is returned.
CheckExisting(k) ==
    LET o == flight[k].obj IN
    /\ At(k, "check")
    /\ Move(k, IF clients[o][flight[k].name] # None THEN NextName(k)
               ELSE GoingWith(k, "connect", None, None))
    /\ UNCHANGED <<sessions, objects, closing, idle, clients, removed, connVars, gateway>>

\* createClient: open the transport, ...
Connect(k) ==
    /\ At(k, "connect")
    /\ opened < MaxConns
    /\ opened' = opened + 1
    /\ conn' = [conn EXCEPT ![opened + 1] = "open"]
    /\ Move(k, GoingWith(k, "initialize", None, opened + 1))
    /\ UNCHANGED <<sessionVars, displaced, gateway>>

ConnectFails(k) ==
    /\ At(k, "connect")
    /\ Move(k, NextName(k))
    /\ UNCHANGED <<sessionVars, connVars, gateway>>

\* ... initialize it, however often a stdio server has to be asked, ...
initializeSessionClientWithRetry(k) ==
    /\ At(k, "initialize")
    /\ Move(k, Going(k, "list"))
    /\ UNCHANGED <<sessionVars, connVars, gateway>>

\* ... list what it offers, each list with its retries, ...
discoverSessionClientCapabilities(k) ==
    /\ At(k, "list")
    /\ Move(k, Going(k, "store"))
    /\ UNCHANGED <<sessionVars, connVars, gateway>>

CloseClient(k) == conn' = [conn EXCEPT ![flight[k].conn] = "closed"]

\* ... and close it when either fails: out of retries, or out of time.
CapabilityCheckFails(k) ==
    /\ At(k, "initialize") \/ At(k, "list")
    /\ CloseClient(k)
    /\ Move(k, NextName(k))
    /\ UNCHANGED <<sessionVars, opened, displaced, gateway>>

checkSessionClientCapabilities(k) ==
    \/ initializeSessionClientWithRetry(k)
    \/ discoverSessionClientCapabilities(k)
    \/ CapabilityCheckFails(k)

\* SetSessionClient: find the session under the manager's lock, ...
SetSessionClient(k) ==
    /\ At(k, "store")
    /\ Move(k, IF Session(k) = None THEN Going(k, "orphan")
               ELSE GoingWith(k, "set", Session(k), flight[k].conn))
    /\ UNCHANGED <<sessionVars, connVars, gateway>>

\* ... and store the client in it outside that lock.
StoreClient(k) ==
    /\ At(k, "set")
    /\ SetClient(flight[k].obj, flight[k].name, flight[k].conn)
    /\ Move(k, NextName(k))
    /\ UNCHANGED <<sessions, objects, closing, idle, removed, opened, conn,
                   gateway>>

ClientRejected(k) ==
    /\ At(k, "set")
    /\ closing[flight[k].obj]
    /\ Move(k, Going(k, "orphan"))
    /\ UNCHANGED <<sessionVars, connVars, gateway>>

CloseOrphan(k) ==
    /\ At(k, "orphan")
    /\ CloseClient(k)
    /\ Move(k, NextName(k))
    /\ UNCHANGED <<sessionVars, opened, displaced, gateway>>
-----------------------------------------------------------------------------
Discovery(k) ==
    \/ LazyStart(k) \/ LazyLookup(k) \/ DiscoverStart(k)
    \/ \E n \in Names : VisitClient(k, n)
    \/ DiscoveryDone(k) \/ LookupSession(k) \/ CreateMissingSession(k)
    \/ CheckExisting(k) \/ Connect(k) \/ ConnectFails(k)
    \/ checkSessionClientCapabilities(k)
    \/ SetSessionClient(k) \/ StoreClient(k) \/ ClientRejected(k) \/ CloseOrphan(k)

Cleanup == cleanupExpiredSessions \/ \E o \in Objects : CloseRemoved(o, "cleanup")
Shutdown == CloseAllSessions \/ Stopped \/ \E o \in Objects : CloseRemoved(o, "shutdown")

Next ==
    \/ \E id \in Ids : onSessionRegister(id) \/ onSessionUnregister(id)
                       \/ GetSession(id) \/ DeleteSession(id)
    \/ \E o \in Objects : IsExpired(o) \/ CloseRemoved(o, "delete")
    \/ Cleanup \/ StopCleanup \/ Shutdown
    \/ \E k \in Keys : Discovery(k)

SafetySpec == Init /\ [][Next]_vars

\* The ticker of the cleanup goroutine keeps firing, and the goroutines that
\* have taken sessions off the map go on to close them.  Nothing is assumed of
\* requests, of discoveries or of the servers they connect to.
Fairness ==
    /\ WF_vars(Cleanup)
    /\ WF_vars(Shutdown)
    /\ WF_vars(\E o \in Objects : CloseRemoved(o, "delete"))

Spec == SafetySpec /\ Fairness
-----------------------------------------------------------------------------
(* Properties. *)

FlightType ==
    [pc : {"none", "lookup", "next", "session", "create", "again", "check", "connect",
           "initialize", "list", "store", "set", "orphan"},
     todo : SUBSET Names, name : Names \cup {NoName},
     obj : 0 .. MaxSessions, conn : 0 .. MaxConns]

\* Every variable keeps its type; a discovery holds a connection exactly while
\* it is setting one up, and a session object while it works on that one.
TypeOK ==
    /\ \A k \in Keys :
          /\ flight[k].conn # None <=>
                flight[k].pc \in {"initialize", "list", "store", "set", "orphan"}
          /\ flight[k].obj # None <=> flight[k].pc \in {"check", "set"}
    /\ sessions \in [Ids -> 0 .. MaxSessions]
    /\ objects \in 0 .. MaxSessions
    /\ closing \in [Objects -> BOOLEAN]
    /\ idle \in [Objects -> BOOLEAN]
    /\ clients \in [Objects -> [Names -> 0 .. MaxConns]]
    /\ removed \in [Objects -> {"no", "cleanup", "delete", "shutdown"}]
    /\ opened \in 0 .. MaxConns
    /\ conn \in [Conns -> {"unused", "open", "closed"}]
    /\ displaced \in SUBSET Conns
    /\ flight \in [Keys -> FlightType]
    /\ gateway \in {"up", "stopping", "closing", "down"}

\* The discoveries that hold connection c and have not passed it on.
Holders(c) == {k \in Keys : flight[k].conn = c}
\* The places in sessions that hold c.
Places(c) == {p \in Objects \X Names : clients[p[1]][p[2]] = c}
Cherished(o) == Mapped(o) \/ removed[o] # "no"

\* Every open connection has exactly one owner who will close it: the
\* discovery that is setting it up, or one session that is on the map or
\* about to be closed.  So a discovery, however slow, leaves nothing in a
\* session that was closed meanwhile, and no session replaces another one of
\* its ID.  The only exception are clients overwritten in their session, which
\* have no owner.  And what a session holds is open: it hands out no client
\* that something else has closed.
OpenClientHasOneOwner ==
    \A c \in Conns :
        /\ conn[c] = "open" =>
              IF c \in displaced THEN Holders(c) = {} /\ Places(c) = {}
              ELSE /\ Cardinality(Holders(c)) + Cardinality(Places(c)) = 1
                   /\ \A p \in Places(c) : Cherished(p[1])
        /\ Places(c) # {} => conn[c] = "open"

\* A session without requests is closed, although its SSE connection never
\* ends, its discoveries hang, or the gateway is stopped while it expires.
\* (One registered after CloseAllSessions has emptied the map is not.)
AbandonedSessionCloses ==
    \A o \in Objects :
        (Mapped(o) /\ idle[o] /\ gateway \in {"up", "stopping"})
            ~> (closing[o] \/ ~idle[o])

\* "The idle session timeout handles resource cleanup when sessions are truly
\* abandoned": when every session created is closed and no discovery runs, no
\* downstream client is left open.
CleanupReleasesEverything ==
    /\ \A o \in 1 .. objects : closing[o]
    /\ \A k \in Keys : flight[k] = NoFlight
    => \A c \in Conns : conn[c] # "open"
=============================================================================
