------------------------------ MODULE Startup ------------------------------
(***************************************************************************)
(* One serverless container: ensureConnected of startup.ts and the handler *)
(* of api/index.ts.  Requests arrive while the databases are being         *)
(* connected; all of them wait for one promise.  A promise that was        *)
(* rejected stays in _connecting, so every later request is refused until  *)
(* the container ends.                                                     *)
(* A Redis client is created unconnected (lazyConnect) and no module issues*)
(* a command while it is loaded: the first to connect it is the promise,   *)
(* which finds it in the status "wait".  Once connect() was called the     *)
(* promise is either fulfilled or rejected for good, so no promise ever    *)
(* finds a client that is connecting or reconnecting (startup.ts:38-41).   *)
(***************************************************************************)
EXTENDS Naturals

CONSTANTS
    Requests,
    MaxContainers   \* bound on the containers

VARIABLES
    _connected,
    _connecting,    \* "null", "mongo" or "redis" (pending there), "rejected"
    mongo, redis,   \* the client of this container is connected
    ioServers,      \* Socket.IO servers attached to the HTTP server
    req,            \* "new", "waiting", "going", "refused", "served"
    lost,           \* requests that reached Express without the databases
    containers

startVars == <<_connected, _connecting, mongo, redis, ioServers, req, lost, containers>>

StartInit ==
    /\ _connected = FALSE /\ _connecting = "null"
    /\ mongo = FALSE /\ redis = FALSE
    /\ ioServers = 0
    /\ req = [r \in Requests |-> "new"]
    /\ lost = {}
    /\ containers = 1

ConnectFirst == IF mongo THEN "redis" ELSE "mongo"

\* Mutant: only the first request waits.
FirstWaits(r) ==
    /\ req[r] = "new"
    /\ req' = [req EXCEPT ![r] = IF ~_connected /\ _connecting = "null" THEN "waiting" ELSE "going"]
    /\ _connecting' = IF ~_connected /\ _connecting = "null" THEN ConnectFirst ELSE _connecting
    /\ UNCHANGED <<_connected, mongo, redis, ioServers, lost, containers>>

\* The handler up to the await of ensureConnected.
ensureConnected(r) ==
    /\ req[r] = "new"
    /\ \/ /\ _connected
          /\ req' = [req EXCEPT ![r] = "going"]
          /\ UNCHANGED _connecting
       \/ /\ ~_connected
          /\ req' = [req EXCEPT ![r] = "waiting"]
          /\ _connecting' = IF _connecting = "null" THEN ConnectFirst ELSE _connecting
    /\ UNCHANGED <<_connected, mongo, redis, ioServers, lost, containers>>

\* mongoose.connect answers; Redis is next.
MongoConnects ==
    /\ _connecting = "mongo"
    /\ mongo' = TRUE
    /\ _connecting' = "redis"
    /\ UNCHANGED <<_connected, redis, ioServers, req, lost, containers>>

\* redis.connect answers: the promise is fulfilled and forgotten.
RedisConnects ==
    /\ _connecting = "redis"
    /\ redis' = TRUE
    /\ _connected' = TRUE
    /\ _connecting' = "null"
    /\ UNCHANGED <<mongo, ioServers, req, lost, containers>>

\* Either call fails; nothing clears _connecting.
ConnectFails ==
    /\ _connecting \in {"mongo", "redis"}
    /\ _connecting' = "rejected"
    /\ UNCHANGED <<_connected, mongo, redis, ioServers, req, lost, containers>>

\* The promise that a request waits for is settled.
Settled(r) ==
    /\ req[r] = "waiting"
    /\ \/ _connected /\ req' = [req EXCEPT ![r] = "going"]
       \/ _connecting = "rejected" /\ req' = [req EXCEPT ![r] = "refused"]
    /\ UNCHANGED <<_connected, _connecting, mongo, redis, ioServers, lost, containers>>

\* The rest of the handler: Socket.IO is attached by the first, then Express.
Handler(r) ==
    /\ req[r] = "going"
    /\ ioServers' = IF ioServers = 0 THEN 1 ELSE ioServers
    /\ req' = [req EXCEPT ![r] = "served"]
    /\ lost' = IF mongo /\ redis THEN lost ELSE lost \cup {r}
    /\ UNCHANGED <<_connected, _connecting, mongo, redis, containers>>

\* A container ends and a new one takes over; open requests get no answer.
NewContainer ==
    /\ containers < MaxContainers
    /\ containers' = containers + 1
    /\ _connected' = FALSE /\ _connecting' = "null"
    /\ mongo' = FALSE /\ redis' = FALSE
    /\ ioServers' = 0
    /\ req' = [r \in Requests |-> IF req[r] \in {"waiting", "going"} THEN "refused" ELSE req[r]]
    /\ UNCHANGED lost

StartNext ==
    \/ \E r \in Requests : ensureConnected(r) \/ Settled(r) \/ Handler(r)
    \/ MongoConnects \/ RedisConnects \/ ConnectFails \/ NewContainer

-----------------------------------------------------------------------------
(* Properties *)

\* However many requests wake a container together, none reaches a route
\* before both databases are connected (startup.ts:14-48, api/index.ts:36-106).
NoneBeforeConnected == lost = {}
=============================================================================
