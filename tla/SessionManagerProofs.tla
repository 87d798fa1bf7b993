------------------------- MODULE SessionManagerProofs -------------------------
(***************************************************************************)
(* Theorems about SessionManager for any session IDs, any clients and any  *)
(* number of sessions and connections.                                     *)
(*                                                                         *)
(* The argument that no open connection is lost is one of ownership.  A    *)
(* connection belongs to the discovery that opened it until that closes it *)
(* or stores it; stored, it belongs to its session; and a session object   *)
(* that is not closing is on the map or in the hands of whoever took it    *)
(* off.  SetClient refuses a closing session under the session's lock,     *)
(* which is what makes the step from discovery to session safe although    *)
(* the session was looked up before.                                       *)
(***************************************************************************)
EXTENDS SessionManager, FiniteSetTheorems, TLAPS

USE DEF connVars

\* One discovery is well formed: it holds a connection exactly while setting
\* one up, works on a session that exists, and on a client that is configured.
FlightFits(f) ==
    /\ f \in FlightType
    /\ f.conn # None <=> f.pc \in {"initialize", "list", "store", "set", "orphan"}
    /\ f.obj # None <=> f.pc \in {"check", "set"}
    /\ f.obj <= objects
    /\ f.pc \notin {"none", "lookup", "next"} => f.name \in Names

FlightsFit == \A k \in Keys : FlightFits(flight[k])

\* What is on the map has been created, and what has been created is on the
\* map, about to be closed, or closed.
ObjectsCherished ==
    /\ \A id \in Ids : sessions[id] <= objects
    /\ \A o \in Objects : o <= objects => Cherished(o) \/ closing[o]

\* The connections not opened yet.
ConnsCounted ==
    /\ \A c \in Conns : c > opened => conn[c] = "unused"
    /\ \A c \in displaced : c <= opened

\* A discovery is the only owner of the connection it holds.
HeldOnce ==
    \A k \in Keys : flight[k].conn # None =>
        /\ conn[flight[k].conn] = "open"
        /\ flight[k].conn \notin displaced
        /\ \A j \in Keys : flight[j].conn = flight[k].conn => j = k
        /\ \A o \in Objects, n \in Names : clients[o][n] # flight[k].conn

\* A session is the only owner of the connections stored in it, and stores
\* none once it is closing.
StoredOnce ==
    \A o \in Objects, n \in Names : clients[o][n] # None =>
        /\ conn[clients[o][n]] = "open"
        /\ clients[o][n] \notin displaced
        /\ o <= objects /\ ~closing[o]
        /\ \A p \in Objects, m \in Names :
              clients[p][m] = clients[o][n] => p = o /\ m = n

\* Every open connection that was not overwritten has an owner.
OpenOwned ==
    \A c \in Conns : conn[c] = "open" /\ c \notin displaced =>
        \/ \E k \in Keys : flight[k].conn = c
        \/ \E o \in Objects, n \in Names : clients[o][n] = c

\* The inductive invariant.
IInv ==
    /\ TypeOK
    /\ FlightsFit /\ ObjectsCherished /\ ConnsCounted
    /\ HeldOnce /\ StoredOnce /\ OpenOwned
-----------------------------------------------------------------------------
\* The key of a discovery is a session ID and a kind.
LEMMA KeyParts == \A k \in Keys : ID(k) \in Ids /\ k[2] \in Kinds
  BY DEF Keys, ID

\* Connections and objects are counted from 1; None is neither.
LEMMA Numbers ==
    /\ \A c : c \in 0 .. MaxConns /\ c # None <=> c \in Conns
    /\ \A o : o \in 0 .. MaxSessions /\ o # None <=> o \in Objects
    /\ \A c \in Conns : c \in Nat /\ c # None
    /\ \A o \in Objects : o \in Nat /\ o # None
  BY BoundsAssumption DEF Conns, Objects, None

\* The types of TypeOK, one by one, with what a session stores and what a
\* discovery holds.
LEMMA Types ==
    ASSUME IInv
    PROVE  /\ sessions \in [Ids -> 0 .. MaxSessions] /\ objects \in 0 .. MaxSessions
           /\ closing \in [Objects -> BOOLEAN] /\ idle \in [Objects -> BOOLEAN]
           /\ clients \in [Objects -> [Names -> 0 .. MaxConns]]
           /\ removed \in [Objects -> {"no", "cleanup", "delete", "shutdown"}]
           /\ opened \in 0 .. MaxConns /\ conn \in [Conns -> {"unused", "open", "closed"}]
           /\ displaced \in SUBSET Conns /\ flight \in [Keys -> FlightType]
           /\ gateway \in {"up", "stopping", "closing", "down"}
           /\ \A id \in Ids : sessions[id] # None => sessions[id] \in Objects
           /\ \A o \in Objects, n \in Names : clients[o][n] # None => clients[o][n] \in Conns
           /\ \A k \in Keys : flight[k].conn # None => flight[k].conn \in Conns
  <1>1. /\ sessions \in [Ids -> 0 .. MaxSessions] /\ clients \in [Objects -> [Names -> 0 .. MaxConns]]
        /\ flight \in [Keys -> FlightType]
    BY DEF IInv, TypeOK
  <1>2. \A id \in Ids : sessions[id] # None => sessions[id] \in Objects
    BY <1>1, Numbers
  <1>3. \A o \in Objects, n \in Names : clients[o][n] # None => clients[o][n] \in Conns
    BY <1>1, Numbers
  <1>4. \A k \in Keys : flight[k].conn # None => flight[k].conn \in Conns
    BY <1>1, Numbers DEF FlightType
  <1> QED
    BY <1>1, <1>2, <1>3, <1>4 DEF IInv, TypeOK

\* The initial states satisfy the invariant.
LEMMA InitIInv == Init => IInv
  <1> SUFFICES ASSUME Init PROVE IInv
    OBVIOUS
  <1>1. NoFlight \in FlightType /\ FlightFits(NoFlight)
    BY BoundsAssumption DEF Init, NoFlight, Flight, FlightType, FlightFits, None
  <1>2. FlightsFit
    BY <1>1 DEF Init, FlightsFit
  <1>3. TypeOK
    BY <1>1, <1>2, BoundsAssumption
       DEF Init, TypeOK, FlightsFit, FlightFits, NoClients, None
  <1>4. ObjectsCherished /\ ConnsCounted /\ OpenOwned
    BY Numbers DEF Init, ObjectsCherished, ConnsCounted, OpenOwned, Objects, None
  <1>5. HeldOnce /\ StoredOnce
    BY DEF Init, HeldOnce, StoredOnce, NoClients, NoFlight, Flight
  <1> QED
    BY <1>2, <1>3, <1>4, <1>5 DEF IInv

\* FlightsFit contains what TypeOK says of discoveries.
LEMMA FlightsTyped ==
    ASSUME FlightsFit', flight' \in [Keys -> FlightType],
           sessions' \in [Ids -> 0 .. MaxSessions], objects' \in 0 .. MaxSessions,
           closing' \in [Objects -> BOOLEAN], idle' \in [Objects -> BOOLEAN],
           clients' \in [Objects -> [Names -> 0 .. MaxConns]],
           removed' \in [Objects -> {"no", "cleanup", "delete", "shutdown"}],
           opened' \in 0 .. MaxConns, conn' \in [Conns -> {"unused", "open", "closed"}],
           displaced' \in SUBSET Conns, gateway' \in {"up", "stopping", "closing", "down"}
    PROVE  TypeOK'
  <1>1. \A k \in Keys :
           /\ flight'[k].conn # None <=>
                 flight'[k].pc \in {"initialize", "list", "store", "set", "orphan"}
           /\ flight'[k].obj # None <=> flight'[k].pc \in {"check", "set"}
    BY DEF FlightsFit, FlightFits
  <1> QED
    BY <1>1 DEF TypeOK

\* A touch keeps the types.
LEMMA Touched ==
    ASSUME IInv, NEW o \in Objects, TouchActivity(o)
    PROVE  idle' \in [Objects -> BOOLEAN]
  BY Types DEF TouchActivity
-----------------------------------------------------------------------------
\* Steps that only concern activity or the progress of the shutdown.
LEMMA QuietStep ==
    ASSUME IInv, UNCHANGED <<sessions, objects, closing, clients, removed, connVars, flight>>,
           idle' \in [Objects -> BOOLEAN], gateway' \in {"up", "stopping", "closing", "down"}
    PROVE  IInv'
  <1>1. FlightsFit'
    BY DEF IInv, FlightsFit, FlightFits
  <1>2. TypeOK'
    BY <1>1, Types, FlightsTyped
  <1>3. ObjectsCherished' /\ ConnsCounted'
    BY DEF IInv, ObjectsCherished, ConnsCounted, Cherished, Mapped
  <1>4. HeldOnce' /\ StoredOnce' /\ OpenOwned'
    BY DEF IInv, HeldOnce, StoredOnce, OpenOwned
  <1> QED
    BY <1>1, <1>2, <1>3, <1>4 DEF IInv

\* A discovery that moves on and keeps what it holds.
LEMMA MoveStep ==
    ASSUME IInv, NEW k \in Keys, NEW f, FlightFits(f), f.conn = flight[k].conn, Move(k, f),
           UNCHANGED <<sessions, objects, closing, clients, removed, connVars, gateway>>,
           idle' \in [Objects -> BOOLEAN]
    PROVE  IInv'
  <1>1. /\ flight' = [flight EXCEPT ![k] = f] /\ flight' \in [Keys -> FlightType]
        /\ \A j \in Keys : flight'[j] = IF j = k THEN f ELSE flight[j]
        /\ \A j \in Keys : flight'[j].conn = flight[j].conn
    BY Types DEF Move, FlightFits
  <1>2. FlightsFit'
    <2>1. \A j \in Keys : FlightFits(flight'[j])
      BY <1>1 DEF IInv, FlightsFit
    <2> QED
      BY <2>1 DEF FlightsFit, FlightFits
  <1>3. TypeOK'
    BY <1>1, <1>2, Types, FlightsTyped
  <1>4. ObjectsCherished' /\ ConnsCounted'
    BY DEF IInv, ObjectsCherished, ConnsCounted, Cherished, Mapped
  <1>5. HeldOnce' /\ StoredOnce' /\ OpenOwned'
    BY <1>1 DEF IInv, HeldOnce, StoredOnce, OpenOwned
  <1> QED
    BY <1>2, <1>3, <1>4, <1>5 DEF IInv

\* Sessions leave the map into the hands of the goroutine that removes them.
LEMMA RemoveStep ==
    ASSUME IInv, NEW objs, NEW who \in {"cleanup", "delete", "shutdown"}, Remove(objs, who),
           UNCHANGED <<objects, closing, idle, clients, connVars, flight>>,
           gateway' \in {"up", "stopping", "closing", "down"}
    PROVE  IInv'
  <1>1. FlightsFit'
    BY DEF IInv, FlightsFit, FlightFits
  <1>2. TypeOK'
    <2>1. sessions' \in [Ids -> 0 .. MaxSessions]
      BY Types, BoundsAssumption DEF Remove, None
    <2>2. removed' \in [Objects -> {"no", "cleanup", "delete", "shutdown"}]
      BY Types DEF Remove
    <2> QED
      BY <1>1, <2>1, <2>2, Types, FlightsTyped
  <1>3. ObjectsCherished'
    <2>0. \A id \in Ids : sessions'[id] <= objects'
      BY Types DEF IInv, ObjectsCherished, Remove, None
    <2> SUFFICES ASSUME NEW o \in Objects, o <= objects, ~closing[o] PROVE Cherished(o)'
      BY <2>0 DEF ObjectsCherished
    <2>1. Cherished(o)
      BY DEF IInv, ObjectsCherished
    <2>2. CASE o \in objs
      BY <2>2 DEF Remove, Cherished
    <2>3. CASE o \notin objs
      BY <2>1, <2>3 DEF Remove, Cherished, Mapped
    <2> QED
      BY <2>2, <2>3
  <1>4. ConnsCounted' /\ HeldOnce' /\ StoredOnce' /\ OpenOwned'
    BY DEF IInv, ConnsCounted, HeldOnce, StoredOnce, OpenOwned
  <1> QED
    BY <1>1, <1>2, <1>3, <1>4 DEF IInv

\* A removed session is closed, and its clients with it.
LEMMA CloseRemovedStep ==
    ASSUME IInv, NEW o \in Objects, NEW who, CloseRemoved(o, who)
    PROVE  IInv'
  <1>1. /\ closing' = [closing EXCEPT ![o] = TRUE]
        /\ clients' = [clients EXCEPT ![o] = NoClients]
        /\ removed' = [removed EXCEPT ![o] = "no"]
        /\ UNCHANGED <<sessions, objects, idle, opened, displaced, flight, gateway>>
    BY DEF CloseRemoved, Close
  <1>2. \A c \in Conns : conn'[c] = IF \E n \in Names : clients[o][n] = c
                                    THEN "closed" ELSE conn[c]
    BY Numbers DEF CloseRemoved, Close, StoredIn
  <1>3. \A p \in Objects, n \in Names :
           clients'[p][n] = IF p = o THEN None ELSE clients[p][n]
    BY <1>1, Types DEF NoClients
  <1>4. FlightsFit'
    BY <1>1 DEF IInv, FlightsFit, FlightFits
  <1>5. TypeOK'
    <2>1. NoClients \in [Names -> 0 .. MaxConns]
      BY BoundsAssumption DEF NoClients, None
    <2>2. conn' \in [Conns -> {"unused", "open", "closed"}]
      BY Types DEF CloseRemoved, Close
    <2>3. clients' \in [Objects -> [Names -> 0 .. MaxConns]]
      BY <1>1, <2>1, Types
    <2> QED
      BY <1>1, <1>4, <2>2, <2>3, Types, FlightsTyped
  <1>6. ObjectsCherished'
    BY <1>1, Types DEF IInv, ObjectsCherished, Cherished, Mapped
  <1>7. ConnsCounted'
    <2>1. \A n \in Names : clients[o][n] # None => clients[o][n] <= opened
      BY Types, Numbers DEF IInv, StoredOnce, ConnsCounted
    <2> QED
      BY <1>1, <1>2, <2>1, Types, Numbers DEF IInv, ConnsCounted
  <1>8. HeldOnce'
    BY <1>1, <1>2, <1>3, Types DEF IInv, HeldOnce
  <1>9. StoredOnce'
    <2> SUFFICES ASSUME NEW p \in Objects, NEW n \in Names, clients'[p][n] # None
                 PROVE  /\ conn'[clients'[p][n]] = "open"
                        /\ clients'[p][n] \notin displaced'
                        /\ p <= objects' /\ ~closing'[p]
                        /\ \A q \in Objects, m \in Names :
                              clients'[q][m] = clients'[p][n] => q = p /\ m = n
      BY DEF StoredOnce
    <2>1. p # o /\ clients'[p][n] = clients[p][n] /\ clients[p][n] \in Conns
      BY <1>3, Types
    <2>2. \A m \in Names : clients[o][m] # clients[p][n]
      BY <2>1 DEF IInv, StoredOnce
    <2>3. conn'[clients[p][n]] = "open"
      BY <1>2, <2>1, <2>2 DEF IInv, StoredOnce
    <2> QED
      BY <1>1, <1>3, <2>1, <2>3, Types DEF IInv, StoredOnce
  <1>10. OpenOwned'
    BY <1>1, <1>2, <1>3 DEF IInv, OpenOwned
  <1> QED
    BY <1>4, <1>5, <1>6, <1>7, <1>8, <1>9, <1>10 DEF IInv

\* A session is created: a new object, which holds nothing yet.  Together
\* with it the discovery that needs it, if any, moves on to it.
LEMMA CreateStep ==
    ASSUME IInv, NEW id \in Ids, CreateSession(id),
           UNCHANGED <<closing, idle, clients, removed, connVars, gateway>>,
           flight' \in [Keys -> FlightType], FlightsFit',
           \A k \in Keys : flight'[k].conn = flight[k].conn
    PROVE  IInv'
  <1>1. /\ sessions' = [sessions EXCEPT ![id] = objects + 1] /\ sessions[id] = None
        /\ objects' = objects + 1 /\ objects < MaxSessions
    BY DEF CreateSession
  <1>2. TypeOK'
    <2>1. objects + 1 \in 0 .. MaxSessions
      BY <1>1, Types, BoundsAssumption
    <2> QED
      BY <1>1, <2>1, Types, FlightsTyped
  <1>3. ObjectsCherished'
    <2>0. \A i \in Ids : sessions'[i] <= objects'
      BY <1>1, Types, BoundsAssumption DEF IInv, ObjectsCherished
    <2> SUFFICES ASSUME NEW o \in Objects, o <= objects + 1, ~closing[o] PROVE Cherished(o)'
      BY <1>1, <2>0 DEF ObjectsCherished
    <2>1. CASE o = objects + 1
      BY <1>1, <2>1, Types DEF Cherished, Mapped
    <2>2. CASE o <= objects
      <3>1. Cherished(o)
        BY <2>2 DEF IInv, ObjectsCherished
      <3> QED
        BY <1>1, <3>1, Types, Numbers DEF Cherished, Mapped
    <2> QED
      BY <2>1, <2>2, Types, Numbers
  <1>4. StoredOnce'
    BY <1>1, Types, Numbers DEF IInv, StoredOnce
  <1>5. ConnsCounted' /\ HeldOnce' /\ OpenOwned'
    BY DEF IInv, ConnsCounted, HeldOnce, OpenOwned
  <1> QED
    BY <1>2, <1>3, <1>4, <1>5 DEF IInv
-----------------------------------------------------------------------------
(* The steps of a discovery that keep what it holds. *)

\* A discovery at a place where it holds nothing: before or between clients.
LEMMA FitsEmpty ==
    ASSUME IInv, NEW todo \in SUBSET Names, NEW pc \in {"none", "lookup", "next"}
    PROVE  /\ FlightFits(Flight(pc, todo, NoName, None, None))
           /\ Flight(pc, todo, NoName, None, None).conn = None
  BY Types, BoundsAssumption DEF FlightFits, Flight, FlightType, None

\* A discovery at work on a client, before it has a connection ...
LEMMA FitsNamed ==
    ASSUME IInv, NEW todo \in SUBSET Names, NEW n \in Names,
           NEW pc \in {"session", "create", "again", "connect"}
    PROVE  /\ FlightFits(Flight(pc, todo, n, None, None))
           /\ Flight(pc, todo, n, None, None).conn = None
  BY Types, BoundsAssumption DEF FlightFits, Flight, FlightType, None

\* ... with its session at hand, ...
LEMMA FitsChecking ==
    ASSUME IInv, NEW todo \in SUBSET Names, NEW n \in Names,
           NEW o \in 0 .. objects, o # None
    PROVE  /\ FlightFits(Flight("check", todo, n, o, None))
           /\ Flight("check", todo, n, o, None).conn = None
  BY Types, BoundsAssumption DEF FlightFits, Flight, FlightType, None

\* ... with a connection, ...
LEMMA FitsConnected ==
    ASSUME IInv, NEW todo \in SUBSET Names, NEW n \in Names,
           NEW pc \in {"initialize", "list", "store", "orphan"},
           NEW c \in 0 .. MaxConns, c # None
    PROVE  /\ FlightFits(Flight(pc, todo, n, None, c))
           /\ Flight(pc, todo, n, None, c).conn = c
  BY Types, BoundsAssumption DEF FlightFits, Flight, FlightType, None

\* ... and with both.
LEMMA FitsStoring ==
    ASSUME IInv, NEW todo \in SUBSET Names, NEW n \in Names,
           NEW o \in 0 .. objects, o # None, NEW c \in 0 .. MaxConns, c # None
    PROVE  /\ FlightFits(Flight("set", todo, n, o, c))
           /\ Flight("set", todo, n, o, c).conn = c
  BY Types, BoundsAssumption DEF FlightFits, Flight, FlightType, None

\* What is known of a discovery at work.
LEMMA Parts ==
    ASSUME IInv, NEW k \in Keys
    PROVE  /\ flight[k].todo \in SUBSET Names
           /\ flight[k].conn \in 0 .. MaxConns /\ flight[k].obj \in 0 .. objects
           /\ None \in 0 .. objects /\ None \in 0 .. MaxConns
           /\ flight[k].pc \notin {"none", "lookup", "next"} => flight[k].name \in Names
           /\ flight[k].conn # None <=>
                 flight[k].pc \in {"initialize", "list", "store", "set", "orphan"}
           /\ flight[k].obj # None <=> flight[k].pc \in {"check", "set"}
           /\ Session(k) \in 0 .. objects /\ (Session(k) # None => Session(k) \in Objects)
  <1>1. flight[k] \in FlightType /\ FlightFits(flight[k])
    BY DEF IInv, FlightsFit, FlightFits
  <1>2. Session(k) \in 0 .. objects /\ (Session(k) # None => Session(k) \in Objects)
    BY Types, KeyParts, BoundsAssumption DEF IInv, ObjectsCherished, Session
  <1>3. None \in 0 .. objects /\ None \in 0 .. MaxConns
    BY Types, BoundsAssumption DEF None
  <1> QED
    BY <1>1, <1>2, <1>3, Types, BoundsAssumption DEF FlightFits, FlightType

\* A discovery starts, in either way.
LEMMA StartStep ==
    ASSUME IInv, NEW k \in Keys, LazyStart(k) \/ DiscoverStart(k)
    PROVE  IInv'
  <1>1. flight[k].conn = None
    BY Parts DEF LazyStart, DiscoverStart, At
  <1>2. CASE LazyStart(k)
    <2>1. idle' \in [Objects -> BOOLEAN]
      BY <1>2, Touched, Parts, Types DEF LazyStart
    <2>2. Move(k, Flight("lookup", {}, NoName, None, None))
      BY <1>2 DEF LazyStart
    <2> QED
      BY <1>1, <1>2, <2>1, <2>2, FitsEmpty, MoveStep DEF LazyStart
  <1>3. CASE DiscoverStart(k)
    <2> DEFINE todo == IF k[2] = "all" THEN PassThrough ELSE {k[2]}
    <2>1. todo \in SUBSET Names
      BY <1>3, KeyParts, NamesAssumption DEF DiscoverStart
    <2>2. Move(k, Flight("next", todo, NoName, None, None))
      BY <1>3 DEF DiscoverStart
    <2>3. idle' \in [Objects -> BOOLEAN]
      BY <1>3, Types DEF DiscoverStart, sessionVars
    <2> HIDE DEF todo
    <2> QED
      BY <1>1, <1>3, <2>1, <2>2, <2>3, FitsEmpty, MoveStep DEF DiscoverStart, sessionVars
  <1> QED
    BY <1>2, <1>3

\* Lazy discovery looks its session up.
LEMMA LazyLookupStep ==
    ASSUME IInv, NEW k \in Keys, LazyLookup(k)
    PROVE  IInv'
  <1>1. flight[k].conn = None
    BY Parts DEF LazyLookup, At
  <1>2. idle' \in [Objects -> BOOLEAN]
    BY Touched, Parts, Types DEF LazyLookup
  <1>3. PICK pc \in {"none", "next"}, todo \in SUBSET Names :
           Move(k, Flight(pc, todo, NoName, None, None))
    BY DEF LazyLookup, NoFlight
  <1> QED
    BY <1>1, <1>2, <1>3, FitsEmpty, MoveStep DEF LazyLookup

\* A discovery turns to a client, which the session may have already.
LEMMA VisitClientStep ==
    ASSUME IInv, NEW k \in Keys, NEW n \in Names, VisitClient(k, n)
    PROVE  IInv'
  <1> DEFINE rest == flight[k].todo \ {n}
  <1>1. flight[k].conn = None /\ rest \in SUBSET Names
    BY Parts DEF VisitClient, At
  <1>2. idle' \in [Objects -> BOOLEAN]
    BY Touched, Parts, Types DEF VisitClient
  <1>3. \/ Move(k, Flight("next", rest, NoName, None, None))
        \/ Move(k, Flight("connect", rest, n, None, None))
        \/ Move(k, Flight("session", rest, n, None, None))
    BY DEF VisitClient
  <1>4. UNCHANGED <<sessions, objects, closing, clients, removed, connVars, gateway>>
    BY DEF VisitClient
  <1> HIDE DEF rest
  <1>5. CASE Move(k, Flight("next", rest, NoName, None, None))
    BY <1>1, <1>2, <1>4, <1>5, FitsEmpty, MoveStep
  <1>6. CASE Move(k, Flight("connect", rest, n, None, None))
    BY <1>1, <1>2, <1>4, <1>6, FitsNamed, MoveStep
  <1>7. CASE Move(k, Flight("session", rest, n, None, None))
    BY <1>1, <1>2, <1>4, <1>7, FitsNamed, MoveStep
  <1> QED
    BY <1>3, <1>5, <1>6, <1>7

\* No client is left to visit.
LEMMA DiscoveryDoneStep ==
    ASSUME IInv, NEW k \in Keys, DiscoveryDone(k)
    PROVE  IInv'
  <1>1. flight[k].conn = None
    BY Parts DEF DiscoveryDone, At
  <1>2. Move(k, Flight("none", {}, NoName, None, None))
    BY DEF DiscoveryDone, NoFlight
  <1> QED
    BY <1>1, <1>2, FitsEmpty, MoveStep, Types DEF DiscoveryDone, sessionVars

\* CreateSingleSessionClient looks the session up, once or again.
LEMMA LookupSessionStep ==
    ASSUME IInv, NEW k \in Keys, LookupSession(k)
    PROVE  IInv'
  <1>1. /\ flight[k].conn = None /\ flight[k].todo \in SUBSET Names
        /\ flight[k].name \in Names
    BY Parts DEF LookupSession, At
  <1>2. idle' \in [Objects -> BOOLEAN]
    BY Touched, Parts, Types DEF LookupSession
  <1>3. UNCHANGED <<sessions, objects, closing, clients, removed, connVars, gateway>>
    BY DEF LookupSession
  <1>4. CASE Session(k) # None
    <2>1. Move(k, Flight("check", flight[k].todo, flight[k].name, Session(k), None))
      BY <1>4 DEF LookupSession, GoingWith
    <2>2. Session(k) \in 0 .. objects
      BY Parts
    <2> QED
      BY <1>1, <1>2, <1>3, <1>4, <2>1, <2>2, FitsChecking, MoveStep
  <1>5. CASE Session(k) = None /\ At(k, "session")
    <2>1. Move(k, Flight("create", flight[k].todo, flight[k].name, None, None))
      BY <1>1, <1>5 DEF LookupSession, Going
    <2> QED
      BY <1>1, <1>2, <1>3, <2>1, FitsNamed, MoveStep
  <1>6. CASE Session(k) = None /\ ~At(k, "session")
    <2>1. Move(k, Flight("next", flight[k].todo, NoName, None, None))
      BY <1>6 DEF LookupSession, NextName
    <2> QED
      BY <1>1, <1>2, <1>3, <2>1, FitsEmpty, Parts, MoveStep
  <1> QED
    BY <1>4, <1>5, <1>6

\* A client that the session has is returned, otherwise one is created.
LEMMA CheckExistingStep ==
    ASSUME IInv, NEW k \in Keys, CheckExisting(k)
    PROVE  IInv'
  <1>1. /\ flight[k].conn = None /\ flight[k].todo \in SUBSET Names
        /\ flight[k].name \in Names
    BY Parts DEF CheckExisting, At
  <1>2. UNCHANGED <<sessions, objects, closing, idle, clients, removed, connVars, gateway>>
    BY DEF CheckExisting
  <1>3. \/ Move(k, Flight("next", flight[k].todo, NoName, None, None))
        \/ Move(k, Flight("connect", flight[k].todo, flight[k].name, None, None))
    BY DEF CheckExisting, NextName, GoingWith
  <1>4. CASE Move(k, Flight("next", flight[k].todo, NoName, None, None))
    BY <1>1, <1>2, <1>4, FitsEmpty, Types, MoveStep
  <1>5. CASE Move(k, Flight("connect", flight[k].todo, flight[k].name, None, None))
    BY <1>1, <1>2, <1>5, FitsNamed, Types, MoveStep
  <1> QED
    BY <1>3, <1>4, <1>5

\* A transport cannot be opened.
LEMMA ConnectFailsStep ==
    ASSUME IInv, NEW k \in Keys, ConnectFails(k)
    PROVE  IInv'
  <1>1. flight[k].conn = None /\ flight[k].todo \in SUBSET Names
    BY Parts DEF ConnectFails, At
  <1>2. Move(k, Flight("next", flight[k].todo, NoName, None, None))
    BY DEF ConnectFails, NextName
  <1> QED
    BY <1>1, <1>2, FitsEmpty, MoveStep, Types DEF ConnectFails, sessionVars

\* A discovery goes on with the connection it holds.
LEMMA GoOnStep ==
    ASSUME IInv, NEW k \in Keys,
           \/ initializeSessionClientWithRetry(k) \/ discoverSessionClientCapabilities(k)
           \/ SetSessionClient(k) \/ ClientRejected(k)
    PROVE  IInv'
  <1>1. /\ flight[k].conn # None /\ flight[k].conn \in 0 .. MaxConns
        /\ flight[k].todo \in SUBSET Names /\ flight[k].name \in Names
    BY Parts DEF initializeSessionClientWithRetry, discoverSessionClientCapabilities,
       SetSessionClient, ClientRejected, At
  <1>2. UNCHANGED <<sessions, objects, closing, idle, clients, removed, connVars, gateway>>
    BY DEF initializeSessionClientWithRetry, discoverSessionClientCapabilities,
       SetSessionClient, ClientRejected, sessionVars
  <1>3. CASE ~(SetSessionClient(k) /\ Session(k) # None)
    <2>1. PICK pc \in {"list", "store", "orphan"} :
             Move(k, Flight(pc, flight[k].todo, flight[k].name, None, flight[k].conn))
      BY <1>3 DEF initializeSessionClientWithRetry, discoverSessionClientCapabilities,
         SetSessionClient, ClientRejected, Going
    <2> QED
      BY <1>1, <1>2, <2>1, FitsConnected, Types, MoveStep
  <1>4. CASE SetSessionClient(k) /\ Session(k) # None
    <2>1. Move(k, Flight("set", flight[k].todo, flight[k].name, Session(k), flight[k].conn))
      BY <1>4 DEF SetSessionClient, GoingWith
    <2>2. Session(k) \in 0 .. objects
      BY Parts
    <2> QED
      BY <1>1, <1>2, <1>4, <2>1, <2>2, FitsStoring, Types, MoveStep
  <1> QED
    BY <1>3, <1>4
-----------------------------------------------------------------------------
(* The steps of a discovery that take, give or pass on what it holds. *)

\* A missing session is created, unless it exists meanwhile.
LEMMA CreateMissingSessionStep ==
    ASSUME IInv, NEW k \in Keys, CreateMissingSession(k)
    PROVE  IInv'
  <1>1. /\ flight[k].conn = None /\ flight[k].todo \in SUBSET Names
        /\ flight[k].name \in Names
    BY Parts DEF CreateMissingSession, At
  <1>2. UNCHANGED <<closing, idle, clients, removed, connVars, gateway>>
    BY DEF CreateMissingSession
  <1>3. CASE UNCHANGED <<sessions, objects>>
             /\ Move(k, Flight("again", flight[k].todo, flight[k].name, None, None))
    BY <1>1, <1>2, <1>3, FitsNamed, Types, MoveStep
  <1>4. CASE CreateSession(ID(k))
             /\ Move(k, Flight("check", flight[k].todo, flight[k].name, objects + 1, None))
    <2> DEFINE f == Flight("check", flight[k].todo, flight[k].name, objects + 1, None)
    <2>1. objects' = objects + 1 /\ objects < MaxSessions /\ objects \in Nat
      BY <1>4, Types, BoundsAssumption DEF CreateSession
    <2>2. /\ f \in FlightType /\ f.pc = "check" /\ f.conn = None
          /\ f.obj = objects + 1 /\ f.obj # None /\ f.name \in Names
      BY <1>1, <2>1, Types, BoundsAssumption DEF Flight, FlightType, None
    <2>3. flight' = [flight EXCEPT ![k] = f]
      BY <1>4 DEF Move
    <2> HIDE DEF f
    <2>4. /\ flight' \in [Keys -> FlightType]
          /\ \A j \in Keys : flight'[j] = IF j = k THEN f ELSE flight[j]
      BY <2>2, <2>3, Types
    <2>5. \A j \in Keys : flight'[j].conn = flight[j].conn
      BY <1>1, <2>2, <2>4
    <2>6. \A j \in Keys : flight[j].obj \in Int /\ flight[j].obj <= objects
      BY <2>1, Parts
    <2>7. FlightsFit'
      <3> SUFFICES ASSUME NEW j \in Keys PROVE FlightFits(flight[j])'
        BY DEF FlightsFit
      <3>1. CASE j = k
        BY <2>1, <2>2, <2>4, <3>1 DEF FlightFits
      <3>2. CASE j # k
        <4>1. flight'[j] = flight[j] /\ FlightFits(flight[j]) /\ flight[j].obj <= objects'
          BY <2>1, <2>4, <2>6, <3>2 DEF IInv, FlightsFit
        <4> QED
          BY <4>1 DEF FlightFits
      <3> QED
        BY <3>1, <3>2
    <2> QED
      BY <1>2, <1>4, <2>4, <2>5, <2>7, KeyParts, CreateStep
  <1> QED
    BY <1>1, <1>3, <1>4 DEF CreateMissingSession, GoingWith, Going

\* A discovery that holds nothing opens the next connection.
LEMMA ConnectStep ==
    ASSUME IInv, NEW k \in Keys, Connect(k)
    PROVE  IInv'
  <1> DEFINE c == opened + 1
  <1> DEFINE f == Flight("initialize", flight[k].todo, flight[k].name, None, c)
  <1>1. /\ flight[k].conn = None /\ flight[k].todo \in SUBSET Names
        /\ flight[k].name \in Names
    BY Parts DEF Connect, At
  <1>2. /\ opened' = c /\ conn' = [conn EXCEPT ![c] = "open"]
        /\ flight' = [flight EXCEPT ![k] = f]
        /\ UNCHANGED <<sessions, objects, closing, idle, clients, removed, displaced, gateway>>
    BY DEF Connect, GoingWith, Move, sessionVars
  <1>3. c \in Conns /\ c \in 0 .. MaxConns /\ c # None /\ opened \in Nat
    BY Types, BoundsAssumption DEF Connect, Conns, None
  <1>4. conn[c] = "unused" /\ c \notin displaced
    BY <1>3, Types, Numbers DEF IInv, ConnsCounted
  <1> HIDE DEF c
  <1>5. FlightFits(f) /\ f \in FlightType /\ f.conn = c
    <2>1. "initialize" \in {"initialize", "list", "store", "orphan"}
      OBVIOUS
    <2>2. FlightFits(f) /\ f.conn = c
      BY <1>1, <1>3, <2>1, FitsConnected, Zenon
    <2> QED
      BY <2>2 DEF FlightFits
  <1> HIDE DEF f
  <1>6. /\ flight' \in [Keys -> FlightType]
        /\ \A j \in Keys : flight'[j] = IF j = k THEN f ELSE flight[j]
    BY <1>2, <1>5, Types
  <1>7. /\ \A j \in Keys : flight[j].conn # c
        /\ \A o \in Objects, n \in Names : clients[o][n] # c
    BY <1>3, <1>4 DEF IInv, HeldOnce, StoredOnce
  <1>8. FlightsFit'
    <2>1. \A j \in Keys : FlightFits(flight'[j])
      BY <1>5, <1>6 DEF IInv, FlightsFit
    <2> QED
      BY <1>2, <2>1 DEF FlightsFit, FlightFits
  <1>9. TypeOK'
    <2>1. conn' \in [Conns -> {"unused", "open", "closed"}]
      BY <1>2, Types
    <2> QED
      BY <1>2, <1>3, <1>6, <1>8, <2>1, Types, FlightsTyped
  <1>10. ObjectsCherished'
    BY <1>2 DEF IInv, ObjectsCherished, Cherished, Mapped
  <1>11. ConnsCounted'
    BY <1>2, <1>3, Types, Numbers DEF IInv, ConnsCounted, c
  <1>12. HeldOnce'
    <2> SUFFICES ASSUME NEW j \in Keys, flight'[j].conn # None
                 PROVE  /\ conn'[flight'[j].conn] = "open"
                        /\ flight'[j].conn \notin displaced'
                        /\ \A i \in Keys : flight'[i].conn = flight'[j].conn => i = j
                        /\ \A o \in Objects, n \in Names : clients'[o][n] # flight'[j].conn
      BY DEF HeldOnce
    <2>1. CASE j = k
      BY <1>2, <1>3, <1>5, <1>4, <1>6, <1>7, <2>1, Types
    <2>2. CASE j # k
      BY <1>2, <1>5, <1>6, <1>7, <2>2, Types DEF IInv, HeldOnce
    <2> QED
      BY <2>1, <2>2
  <1>13. StoredOnce'
    BY <1>2, <1>7, Types DEF IInv, StoredOnce
  <1>14. OpenOwned'
    <2> SUFFICES ASSUME NEW d \in Conns, conn'[d] = "open", d \notin displaced
                 PROVE  \/ \E j \in Keys : flight'[j].conn = d
                        \/ \E o \in Objects, n \in Names : clients[o][n] = d
      BY <1>2 DEF OpenOwned
    <2>1. CASE d = c
      BY <1>5, <1>6, <2>1
    <2>2. CASE d # c
      <3>1. conn[d] = "open"
        BY <1>2, <2>2, Types
      <3>2. \/ \E j \in Keys : flight[j].conn = d
            \/ \E o \in Objects, n \in Names : clients[o][n] = d
        BY <3>1 DEF IInv, OpenOwned
      <3>3. \A j \in Keys : flight[j].conn = d => flight'[j].conn = d
        BY <1>1, <1>6, Numbers
      <3> QED
        BY <3>2, <3>3
    <2> QED
      BY <2>1, <2>2
  <1> QED
    BY <1>8, <1>9, <1>10, <1>11, <1>12, <1>13, <1>14 DEF IInv

\* A connection that is no use is closed by the discovery that holds it.
LEMMA CloseClientStep ==
    ASSUME IInv, NEW k \in Keys, CapabilityCheckFails(k) \/ CloseOrphan(k)
    PROVE  IInv'
  <1> DEFINE c == flight[k].conn
  <1> DEFINE f == Flight("next", flight[k].todo, NoName, None, None)
  <1>1. c \in Conns /\ c # None /\ flight[k].todo \in SUBSET Names
    BY Parts, Types DEF CapabilityCheckFails, CloseOrphan, At
  <1>2. /\ conn' = [conn EXCEPT ![c] = "closed"]
        /\ flight' = [flight EXCEPT ![k] = f]
        /\ UNCHANGED <<sessions, objects, closing, idle, clients, removed, opened, displaced,
                       gateway>>
    BY DEF CapabilityCheckFails, CloseOrphan, CloseClient, NextName, Move, sessionVars
  <1>3. FlightFits(f) /\ f \in FlightType /\ f.conn = None
    BY <1>1, FitsEmpty DEF FlightFits
  <1>4. /\ conn[c] = "open"
        /\ \A j \in Keys : flight[j].conn = c => j = k
        /\ \A o \in Objects, n \in Names : clients[o][n] # c
    BY <1>1 DEF IInv, HeldOnce
  <1> HIDE DEF f
  <1>5. /\ flight' \in [Keys -> FlightType]
        /\ \A j \in Keys : flight'[j] = IF j = k THEN f ELSE flight[j]
    BY <1>2, <1>3, Types
  <1>6. \A d \in Conns : conn'[d] = IF d = c THEN "closed" ELSE conn[d]
    BY <1>1, <1>2, Types
  <1>7. FlightsFit'
    <2>1. \A j \in Keys : FlightFits(flight'[j])
      BY <1>3, <1>5 DEF IInv, FlightsFit
    <2> QED
      BY <1>2, <2>1 DEF FlightsFit, FlightFits
  <1>8. TypeOK'
    <2>1. conn' \in [Conns -> {"unused", "open", "closed"}]
      BY <1>2, Types
    <2> QED
      BY <1>2, <1>5, <1>7, <2>1, Types, FlightsTyped
  <1>9. ObjectsCherished'
    BY <1>2 DEF IInv, ObjectsCherished, Cherished, Mapped
  <1>10. ConnsCounted'
    BY <1>2, <1>4, <1>6 DEF IInv, ConnsCounted
  <1>11. HeldOnce'
    BY <1>2, <1>3, <1>4, <1>5, <1>6, Types DEF IInv, HeldOnce
  <1>12. StoredOnce'
    BY <1>2, <1>4, <1>6, Types DEF IInv, StoredOnce
  <1>13. OpenOwned'
    <2> SUFFICES ASSUME NEW d \in Conns, conn'[d] = "open", d \notin displaced
                 PROVE  \/ \E j \in Keys : flight'[j].conn = d
                        \/ \E o \in Objects, n \in Names : clients[o][n] = d
      BY <1>2 DEF OpenOwned
    <2>1. d # c /\ conn[d] = "open"
      BY <1>6
    <2>2. \A j \in Keys : flight[j].conn = d => flight'[j].conn = d
      BY <1>5, <2>1
    <2> QED
      BY <2>1, <2>2 DEF IInv, OpenOwned
  <1> QED
    BY <1>7, <1>8, <1>9, <1>10, <1>11, <1>12, <1>13 DEF IInv

\* A connection passes from the discovery to the session, which is not
\* closing; the one that was stored under the name is displaced.
LEMMA StoreClientStep ==
    ASSUME IInv, NEW k \in Keys, StoreClient(k)
    PROVE  IInv'
  <1> DEFINE c == flight[k].conn
  <1> DEFINE o == flight[k].obj
  <1> DEFINE n == flight[k].name
  <1> DEFINE f == Flight("next", flight[k].todo, NoName, None, None)
  <1>1. /\ c \in Conns /\ c # None /\ c \in 0 .. MaxConns
        /\ o \in Objects /\ o <= objects /\ n \in Names
        /\ flight[k].todo \in SUBSET Names
    BY Parts, Types, Numbers, BoundsAssumption DEF StoreClient, At
  <1>2. /\ ~closing[o]
        /\ clients' = [clients EXCEPT ![o][n] = c]
        /\ displaced' = displaced \cup ({clients[o][n]} \ {None})
        /\ flight' = [flight EXCEPT ![k] = f]
        /\ UNCHANGED <<sessions, objects, closing, idle, removed, opened, conn, gateway>>
    BY DEF StoreClient, SetClient, NextName, Move
  <1>3. FlightFits(f) /\ f \in FlightType /\ f.conn = None
    BY <1>1, FitsEmpty DEF FlightFits
  <1>4. /\ conn[c] = "open" /\ c \notin displaced
        /\ \A j \in Keys : flight[j].conn = c => j = k
        /\ \A p \in Objects, m \in Names : clients[p][m] # c
    BY <1>1 DEF IInv, HeldOnce
  <1> HIDE DEF f, c, o, n
  <1>5. /\ flight' \in [Keys -> FlightType]
        /\ \A j \in Keys : flight'[j] = IF j = k THEN f ELSE flight[j]
    BY <1>2, <1>3, Types
  <1>6. \A p \in Objects, m \in Names :
           clients'[p][m] = IF p = o /\ m = n THEN c ELSE clients[p][m]
    BY <1>1, <1>2, Types
  <1>7. FlightsFit'
    <2>1. \A j \in Keys : FlightFits(flight'[j])
      BY <1>3, <1>5 DEF IInv, FlightsFit
    <2> QED
      BY <1>2, <2>1 DEF FlightsFit, FlightFits
  <1>8. TypeOK'
    <2>1. clients' \in [Objects -> [Names -> 0 .. MaxConns]]
      BY <1>1, <1>2, Types
    <2>2. displaced' \in SUBSET Conns
      BY <1>1, <1>2, Types
    <2> QED
      BY <1>2, <1>5, <1>7, <2>1, <2>2, Types, FlightsTyped
  <1>9. ObjectsCherished'
    BY <1>2 DEF IInv, ObjectsCherished, Cherished, Mapped
  <1>10. clients[o][n] # None =>
            /\ clients[o][n] \in Conns /\ clients[o][n] # c
            /\ conn[clients[o][n]] = "open"
            /\ \A j \in Keys : flight[j].conn # clients[o][n]
            /\ \A p \in Objects, m \in Names :
                  clients[p][m] = clients[o][n] => p = o /\ m = n
    BY <1>1, <1>4, Types DEF IInv, StoredOnce, HeldOnce
  <1>11. ConnsCounted'
    BY <1>1, <1>2, <1>10, Types, Numbers DEF IInv, ConnsCounted
  <1>12. HeldOnce'
    <2> SUFFICES ASSUME NEW j \in Keys, flight'[j].conn # None
                 PROVE  /\ conn'[flight'[j].conn] = "open"
                        /\ flight'[j].conn \notin displaced'
                        /\ \A i \in Keys : flight'[i].conn = flight'[j].conn => i = j
                        /\ \A p \in Objects, m \in Names : clients'[p][m] # flight'[j].conn
      BY DEF HeldOnce
    <2>1. j # k /\ flight'[j].conn = flight[j].conn /\ flight[j].conn # None
      BY <1>3, <1>5
    <2>2. flight[j].conn # c
      BY <1>4, <2>1
    <2>3. flight[j].conn \notin displaced'
      BY <1>2, <1>10, <2>1 DEF IInv, HeldOnce
    <2>4. \A i \in Keys : flight'[i].conn = flight[j].conn => i = j
      BY <1>3, <1>5, <2>1 DEF IInv, HeldOnce
    <2>5. \A p \in Objects, m \in Names : clients'[p][m] # flight[j].conn
      BY <1>6, <2>1, <2>2 DEF IInv, HeldOnce
    <2> QED
      BY <1>2, <2>1, <2>3, <2>4, <2>5 DEF IInv, HeldOnce
  <1>13. StoredOnce'
    <2> SUFFICES ASSUME NEW p \in Objects, NEW m \in Names, clients'[p][m] # None
                 PROVE  /\ conn[clients'[p][m]] = "open"
                        /\ clients'[p][m] \notin displaced'
                        /\ p <= objects /\ ~closing[p]
                        /\ \A q \in Objects, l \in Names :
                              clients'[q][l] = clients'[p][m] => q = p /\ l = m
      BY <1>2 DEF StoredOnce
    <2>1. CASE p = o /\ m = n
      BY <1>1, <1>2, <1>4, <1>6, <1>10, <2>1
    <2>2. CASE ~(p = o /\ m = n)
      <3>1. clients'[p][m] = clients[p][m] /\ clients[p][m] # c /\ clients[p][m] # None
        BY <1>4, <1>6, <2>2
      <3>2. clients[p][m] \notin displaced'
        BY <1>1, <1>2, <1>10, <2>2, <3>1 DEF IInv, StoredOnce
      <3>3. \A q \in Objects, l \in Names : clients'[q][l] = clients[p][m] => q = p /\ l = m
        BY <1>6, <3>1 DEF IInv, StoredOnce
      <3> QED
        BY <3>1, <3>2, <3>3 DEF IInv, StoredOnce
    <2> QED
      BY <2>1, <2>2
  <1>14. OpenOwned'
    <2> SUFFICES ASSUME NEW d \in Conns, conn[d] = "open", d \notin displaced'
                 PROVE  \/ \E j \in Keys : flight'[j].conn = d
                        \/ \E p \in Objects, m \in Names : clients'[p][m] = d
      BY <1>2 DEF OpenOwned
    <2>1. CASE d = c
      BY <1>1, <1>6, <2>1
    <2>2. CASE d # c
      <3>1. d \notin displaced /\ d # clients[o][n]
        BY <1>2, Numbers
      <3>2. \A j \in Keys : flight[j].conn = d => flight'[j].conn = d
        BY <1>5, <2>2 DEF c
      <3>3. \A p \in Objects, m \in Names : clients[p][m] = d => clients'[p][m] = d
        BY <1>6, <3>1
      <3> QED
        BY <3>1, <3>2, <3>3 DEF IInv, OpenOwned
    <2> QED
      BY <2>1, <2>2
  <1> QED
    BY <1>7, <1>8, <1>9, <1>11, <1>12, <1>13, <1>14 DEF IInv
-----------------------------------------------------------------------------
\* Every step of a discovery keeps the invariant.
LEMMA DiscoveryStep ==
    ASSUME IInv, NEW k \in Keys, Discovery(k)
    PROVE  IInv'
  BY StartStep, LazyLookupStep, VisitClientStep, DiscoveryDoneStep, LookupSessionStep,
     CreateMissingSessionStep, CheckExistingStep, ConnectStep, ConnectFailsStep, GoOnStep,
     CloseClientStep, StoreClientStep
     DEF Discovery, checkSessionClientCapabilities

\* So do the callbacks of the SDK and the requests that look a session up.
LEMMA CallbackStep ==
    ASSUME IInv, NEW id \in Ids,
           onSessionRegister(id) \/ onSessionUnregister(id) \/ GetSession(id)
    PROVE  IInv'
  <1>1. CASE CreateSession(id) /\ UNCHANGED <<closing, idle, clients, removed, connVars,
                                              flight, gateway>>
    <2>1. objects' = objects + 1 /\ objects \in Nat
      BY <1>1, Types, BoundsAssumption DEF CreateSession
    <2>2. \A k \in Keys : flight[k].obj \in Int /\ flight[k].obj <= objects
      BY Parts
    <2>3. FlightsFit'
      BY <1>1, <2>1, <2>2 DEF IInv, FlightsFit, FlightFits
    <2>4. flight' \in [Keys -> FlightType] /\ \A k \in Keys : flight'[k].conn = flight[k].conn
      BY <1>1, Types
    <2> QED
      BY <1>1, <2>3, <2>4, CreateStep
  <1>2. CASE /\ sessions[id] # None /\ TouchActivity(sessions[id])
             /\ UNCHANGED <<sessions, objects, closing, clients, removed, connVars, flight,
                            gateway>>
    BY <1>2, Types, Touched, QuietStep
  <1> QED
    BY <1>1, <1>2 DEF onSessionRegister, onSessionUnregister, GetSession

\* And the ways a session ends, and the shutdown.
LEMMA EndStep ==
    ASSUME IInv, \/ \E id \in Ids : DeleteSession(id)
                 \/ \E o \in Objects : IsExpired(o) \/ CloseRemoved(o, "delete")
                 \/ Cleanup \/ StopCleanup \/ Shutdown
    PROVE  IInv'
  <1>1. ASSUME NEW id \in Ids, DeleteSession(id) PROVE IInv'
    BY <1>1, RemoveStep, Types DEF DeleteSession
  <1>2. ASSUME NEW o \in Objects, IsExpired(o) PROVE IInv'
    BY <1>2, QuietStep, Types DEF IsExpired
  <1>3. CASE cleanupExpiredSessions
    BY <1>3, RemoveStep, Types DEF cleanupExpiredSessions
  <1>4. CASE CloseAllSessions
    <2>1. Remove({o \in Objects : Mapped(o)}, "shutdown") /\ gateway' = "closing"
      BY <1>4 DEF CloseAllSessions
    <2> QED
      BY <1>4, <2>1, RemoveStep DEF CloseAllSessions
  <1>5. CASE StopCleanup \/ Stopped
    BY <1>5, QuietStep, Types DEF StopCleanup, Stopped, sessionVars
  <1> QED
    BY <1>1, <1>2, <1>3, <1>4, <1>5, CloseRemovedStep DEF Cleanup, Shutdown

\* Every step keeps the invariant.
LEMMA NextIInv == IInv /\ [Next]_vars => IInv'
  <1> SUFFICES ASSUME IInv, [Next]_vars PROVE IInv'
    OBVIOUS
  <1>1. CASE Next
    BY <1>1, CallbackStep, EndStep, DiscoveryStep DEF Next
  <1>2. CASE UNCHANGED vars
    BY <1>2, QuietStep, Types DEF vars, sessionVars
  <1> QED
    BY <1>1, <1>2

\* The invariant holds in every reachable state.
THEOREM Invariance == SafetySpec => []IInv
  BY InitIInv, NextIInv, PTL DEF SafetySpec
-----------------------------------------------------------------------------
\* Type correctness: a discovery holds a connection exactly while it is
\* setting one up.
THEOREM TypeCorrect == SafetySpec => []TypeOK
  <1>1. IInv => TypeOK
    BY DEF IInv
  <1> QED
    BY <1>1, Invariance, PTL

\* Sets of one element and of none are counted as such.
LEMMA Count ==
    /\ \A S : S = {} => Cardinality(S) = 0
    /\ \A S, x : S = {x} => Cardinality(S) = 1
  BY FS_EmptySet, FS_Singleton

\* Every open downstream connection that was not overwritten has exactly one
\* owner, whatever requests, discoveries, expirations and the shutdown do
\* concurrently.
THEOREM OneOwner == SafetySpec => []OpenClientHasOneOwner
  <1>1. IInv => OpenClientHasOneOwner
    <2> SUFFICES ASSUME IInv, NEW c \in Conns
                 PROVE  /\ conn[c] = "open" =>
                              IF c \in displaced THEN Holders(c) = {} /\ Places(c) = {}
                              ELSE /\ Cardinality(Holders(c)) + Cardinality(Places(c)) = 1
                                   /\ \A p \in Places(c) : Cherished(p[1])
                        /\ Places(c) # {} => conn[c] = "open"
      BY DEF OpenClientHasOneOwner
    <2>0. c # None
      BY Numbers
    <2>1. ASSUME NEW k \in Keys, flight[k].conn = c
          PROVE  Holders(c) = {k} /\ Places(c) = {} /\ c \notin displaced
      BY <2>0, <2>1 DEF IInv, HeldOnce, Holders, Places
    <2>2. ASSUME NEW o \in Objects, NEW n \in Names, clients[o][n] = c
          PROVE  /\ Places(c) = {<<o, n>>} /\ Holders(c) = {} /\ c \notin displaced
                 /\ conn[c] = "open" /\ Cherished(o)
      <3>1. /\ conn[c] = "open" /\ c \notin displaced /\ o <= objects /\ ~closing[o]
            /\ \A p \in Objects, m \in Names : clients[p][m] = c => p = o /\ m = n
        BY <2>0, <2>2 DEF IInv, StoredOnce
      <3>2. Cherished(o)
        BY <3>1 DEF IInv, ObjectsCherished
      <3>3. Holders(c) = {}
        BY <2>0, <2>2 DEF IInv, HeldOnce, Holders
      <3>4. Places(c) = {<<o, n>>}
        BY <2>2, <3>1 DEF Places
      <3> QED
        BY <3>1, <3>2, <3>3, <3>4
    <2>3. CASE \E k \in Keys : flight[k].conn = c
      <3>1. PICK k \in Keys : flight[k].conn = c
        BY <2>3
      <3>2. Holders(c) = {k} /\ Places(c) = {} /\ c \notin displaced
        BY <2>1, <3>1
      <3>3. Cardinality(Holders(c)) = 1 /\ Cardinality(Places(c)) = 0
        BY <3>2, Count
      <3> QED
        BY <3>2, <3>3
    <2>4. CASE \E o \in Objects, n \in Names : clients[o][n] = c
      <3>1. PICK o \in Objects, n \in Names : clients[o][n] = c
        BY <2>4
      <3>2. /\ Places(c) = {<<o, n>>} /\ Holders(c) = {} /\ c \notin displaced
            /\ conn[c] = "open" /\ Cherished(o)
        BY <2>2, <3>1
      <3>3. Cardinality(Holders(c)) = 0 /\ Cardinality(Places(c)) = 1
        BY <3>2, Count
      <3>4. \A p \in Places(c) : Cherished(p[1])
        BY <3>2
      <3> QED
        BY <3>2, <3>3, <3>4
    <2>5. CASE /\ ~\E k \in Keys : flight[k].conn = c
               /\ ~\E o \in Objects, n \in Names : clients[o][n] = c
      <3>1. Holders(c) = {} /\ Places(c) = {}
        BY <2>5 DEF Holders, Places
      <3>2. conn[c] = "open" => c \in displaced
        BY <2>5 DEF IInv, OpenOwned
      <3> QED
        BY <3>1, <3>2
    <2> QED
      BY <2>3, <2>4, <2>5
  <1> QED
    BY <1>1, Invariance, PTL
=============================================================================
