------------------------- MODULE ConnectionManager -------------------------
(***************************************************************************)
(* The optimized connection manager of internal/connection together with   *)
(* the user registry it keeps in Redis and the connection handlers of      *)
(* internal/server that drive it.                                          *)
(*                                                                         *)
(* Every connection is served by a goroutine that registers it, waits for  *)
(* its done channel, and unregisters it.  RegisterConnection and           *)
(* UnregisterConnection hold the manager's mutex only while they touch the *)
(* map of connections; the registry's local set, its two Redis keys and    *)
(* the status cache are updated after the mutex is released, one after the *)
(* other.  A step of this module is one such critical section or one Redis *)
(* command, so handlers interleave exactly where the code lets them.       *)
(***************************************************************************)
EXTENDS Naturals, FiniteSets

CONSTANTS
  Servers,       \* identities of server processes (serverID)
  Users,         \* user ids
  Conns,         \* every connection that may ever be accepted
  NoServer,      \* no route stored for a user
  NoUser,        \* no user: the goroutine of Run has unregistered nobody yet
  ConnUser,      \* the authenticated user of a connection
  ConnServer,    \* the server that accepts a connection
  ConnType,      \* its GetConnectionType()
  RedisEnabled,  \* redisEnabled: Redis answered when the server started
  RedisMayFail,  \* a Redis command of a running server may fail
  PatientUsers,  \* users that reconnect only after the server has finished
                 \* with their previous connection
  Addressees,    \* users that somebody sends messages to
  Befriended,    \* users that have friends
  StopServers,   \* servers that may be told to stop
  CrashServers,  \* servers that may be killed
  MaxLives       \* bound on the number of times a server process is started

ConnTypes == {"websocket", "tcp", "tcp_ws"}

ASSUME ConnAssumption ==
  /\ ConnUser \in [Conns -> Users]
  /\ ConnServer \in [Conns -> Servers]
  /\ ConnType \in [Conns -> ConnTypes]
ASSUME NameAssumption ==
  /\ NoServer \notin Servers
  /\ NoUser \notin Users
  /\ Servers \cap Conns = {}
ASSUME FlagAssumption ==
  /\ RedisEnabled \in BOOLEAN
  /\ RedisMayFail \in BOOLEAN
  /\ PatientUsers \subseteq Users
  /\ Addressees \subseteq Users
  /\ Befriended \subseteq Users
  /\ StopServers \subseteq Servers
  /\ CrashServers \subseteq Servers
  /\ MaxLives \in Nat \ {0}

VARIABLES
  connections,  \* the connections held in the manager's map
  closed,       \* the connections whose done channel is closed
  localUsers,   \* per server: the registry's set of locally connected users
  online,       \* per server: the users its status cache shows as online
  announced,    \* per user: the last status the friends were notified of, and
                \* whether a later notice may have been lost
  registry,     \* Redis user_registry:<user>: the server the user is routed to
  serverUsers,  \* Redis server_users:<server>
  pc,           \* the next step of every goroutine
  call,         \* the arguments of its UnregisterConnection call
  toClose,      \* the connections that call has still to close
  stage,        \* how far a server process is through its life
  sweep,        \* the users CleanupServerUsers has still to remove
  lives         \* how often a server process has been started

mapVars == <<connections, closed>>
memoryVars == <<localUsers, online, announced>>
redisVars == <<registry, serverUsers>>
procVars == <<pc, call, toClose>>
serverVars == <<stage, sweep, lives>>
vars == <<connections, closed, localUsers, online, announced, registry,
          serverUsers, pc, call, toClose, stage, sweep, lives>>

\* The goroutines: one handler per connection, and the goroutine of Run on
\* every server, which delivers messages and may unregister a connection.
Procs == Conns \cup Servers

\* The connection type the goroutine of Run passes: it gives the id of the
\* connection where its type is expected, which is the type of no connection.
NoType == "connID"

RegisterSteps == {"register", "local", "route", "member", "status", "announce"}
UnregisterSteps == {"remove", "close", "check", "unlocal", "unroute",
                    "unmember", "recheck", "offline"}
Steps == {"idle", "serve", "done", "gone"} \cup RegisterSteps \cup UnregisterSteps
Stages == {"up", "draining", "sweeping", "closing", "closed", "down"}

ServerOf(p) == IF p \in Servers THEN p ELSE ConnServer[p]

\* m.connections[u] of server s.
UserConns(s, u) == {c \in connections : ConnServer[c] = s /\ ConnUser[c] = u}

HasOtherConns(s, u) == UserConns(s, u) # {}

\* A Redis command of server s succeeds, or may fail: it surely fails once
\* Close has closed the client.
RedisAnswers(s) == stage[s] # "closed"
RedisFails(s) == RedisMayFail \/ stage[s] = "closed"

Unregistering(p, u) == pc[p] \in UnregisterSteps /\ call[p].user = u

\* Nothing on any server is still busy with a connection of user u.
Quiet(u) ==
  /\ \A c \in Conns : ConnUser[c] = u => pc[c] \in {"idle", "done", "gone"}
  /\ \A p \in Procs : ~Unregistering(p, u)

Init ==
  /\ connections = {} /\ closed = {}
  /\ localUsers = [s \in Servers |-> {}]
  /\ online = [s \in Servers |-> {}]
  /\ announced = [u \in Users |-> [status |-> "none", missed |-> FALSE]]
  /\ registry = [u \in Users |-> NoServer]
  /\ serverUsers = [s \in Servers |-> {}]
  /\ pc = [p \in Procs |-> "idle"]
  /\ call = [p \in Procs |->
               IF p \in Servers THEN [user |-> NoUser, type |-> NoType]
                               ELSE [user |-> ConnUser[p], type |-> ConnType[p]]]
  /\ toClose = [p \in Procs |-> {}]
  /\ stage = [s \in Servers |-> "up"]
  /\ sweep = [s \in Servers |-> {}]
  /\ lives = [s \in Servers |-> 1]

Goto(p, step) == pc' = [pc EXCEPT ![p] = step]

-----------------------------------------------------------------------------
(* UnregisterConnection(call[p].user, call[p].type), run by goroutine p.   *)

\* Where the call returns to: the goroutine of Run takes its next message, a
\* handler that has made room for its own connection registers it, and a
\* handler whose deferred call this was is finished.
Returned(p) ==
  IF p \in Servers THEN "idle"
  ELSE IF call[p].type # ConnType[p] THEN "register" ELSE "done"

\* Slip: the registry is left as it is.
SkipRegistry == "recheck"

AfterClose == IF RedisEnabled THEN "check" ELSE "recheck"

\* Slip: the removed connections are not collected, and so not closed.
RemoveUnclosed(p) ==
  /\ pc[p] = "remove"
  /\ connections' = {c \in connections :
                       c \notin UserConns(ServerOf(p), call[p].user) \/ ConnType[c] # call[p].type}
  /\ Goto(p, AfterClose)
  /\ UNCHANGED <<closed, memoryVars, redisVars, call, toClose, serverVars>>

\* The first critical section takes every connection of the given type out of
\* the user's map, whichever handler registered it.
Remove(p) ==
  LET gone == {c \in UserConns(ServerOf(p), call[p].user) : ConnType[c] = call[p].type}
  IN  /\ pc[p] = "remove"
      /\ connections' = connections \ gone
      /\ toClose' = [toClose EXCEPT ![p] = gone]
      /\ Goto(p, IF gone = {} THEN AfterClose ELSE "close")
      /\ UNCHANGED <<closed, memoryVars, redisVars, call, serverVars>>

\* conn.Close() on the removed connections, one after the other.
CloseRemoved(p) ==
  /\ pc[p] = "close"
  /\ \E c \in toClose[p] :
       /\ closed' = closed \cup {c}
       /\ toClose' = [toClose EXCEPT ![p] = @ \ {c}]
       /\ Goto(p, IF toClose[p] = {c} THEN AfterClose ELSE "close")
  /\ UNCHANGED <<connections, memoryVars, redisVars, call, serverVars>>

\* Are there other connections?  The answer is used after the read lock is
\* released.
CheckOthers(p) ==
  /\ pc[p] = "check"
  /\ Goto(p, IF HasOtherConns(ServerOf(p), call[p].user) THEN "recheck" ELSE "unlocal")
  /\ UNCHANGED <<mapVars, memoryVars, redisVars, call, toClose, serverVars>>

\* Slip: UnregisterUser returns to the Redis set, past the route.
DeleteLocalUserOnly(p) ==
  /\ pc[p] = "unlocal"
  /\ localUsers' = [localUsers EXCEPT ![ServerOf(p)] = @ \ {call[p].user}]
  /\ Goto(p, "unmember")
  /\ UNCHANGED <<mapVars, online, announced, redisVars, call, toClose, serverVars>>

\* UserConnectionRegistry.UnregisterUser: the local set, ...
DeleteLocalUser(p) ==
  /\ pc[p] = "unlocal"
  /\ localUsers' = [localUsers EXCEPT ![ServerOf(p)] = @ \ {call[p].user}]
  /\ Goto(p, "unroute")
  /\ UNCHANGED <<mapVars, online, announced, redisVars, call, toClose, serverVars>>

\* Slip: UnregisterUser returns after the route, and the set keeps the user.
DeleteRouteOnly(p) ==
  /\ pc[p] = "unroute"
  /\ registry' = [registry EXCEPT ![call[p].user] = NoServer]
  /\ Goto(p, "recheck")
  /\ UNCHANGED <<mapVars, memoryVars, serverUsers, call, toClose, serverVars>>

\* ... the user's route, whichever server it names, ...
DeleteRoute(p) ==
  /\ pc[p] = "unroute"
  /\ \/ /\ RedisAnswers(ServerOf(p))
        /\ registry' = [registry EXCEPT ![call[p].user] = NoServer]
     \/ /\ RedisFails(ServerOf(p))
        /\ UNCHANGED registry
  /\ Goto(p, "unmember")
  /\ UNCHANGED <<mapVars, memoryVars, serverUsers, call, toClose, serverVars>>

\* ... and the server's set of users.
DeleteMember(p) ==
  /\ pc[p] = "unmember"
  /\ \/ /\ RedisAnswers(ServerOf(p))
        /\ serverUsers' = [serverUsers EXCEPT ![ServerOf(p)] = @ \ {call[p].user}]
     \/ /\ RedisFails(ServerOf(p))
        /\ UNCHANGED serverUsers
  /\ Goto(p, "recheck")
  /\ UNCHANGED <<mapVars, memoryVars, registry, call, toClose, serverVars>>

\* Slip: the user is not marked as offline.
RecheckAndReturn(p) ==
  /\ pc[p] = "recheck"
  /\ Goto(p, Returned(p))
  /\ UNCHANGED <<mapVars, memoryVars, redisVars, call, toClose, serverVars>>

RecheckOthers(p) ==
  /\ pc[p] = "recheck"
  /\ Goto(p, IF HasOtherConns(ServerOf(p), call[p].user) THEN Returned(p) ELSE "offline")
  /\ UNCHANGED <<mapVars, memoryVars, redisVars, call, toClose, serverVars>>

\* statusManager.UpdateUserStatus(user, type, false).
MarkOffline(p) ==
  /\ pc[p] = "offline"
  /\ online' = [online EXCEPT ![ServerOf(p)] = @ \ {call[p].user}]
  /\ Goto(p, Returned(p))
  /\ UNCHANGED <<mapVars, localUsers, announced, redisVars, call, toClose, serverVars>>

UnregisterConnection(p) ==
  \/ Remove(p) \/ CloseRemoved(p) \/ CheckOthers(p)
  \/ DeleteLocalUser(p) \/ DeleteRoute(p) \/ DeleteMember(p)
  \/ RecheckOthers(p) \/ MarkOffline(p)

-----------------------------------------------------------------------------
(* RegisterConnection, run by the handler of connection c.                 *)

AddConnection(c) ==
  /\ pc[c] = "register"
  /\ connections' = connections \cup {c}
  /\ Goto(c, IF RedisEnabled THEN "local" ELSE "status")
  /\ UNCHANGED <<closed, memoryVars, redisVars, call, toClose, serverVars>>

\* UserConnectionRegistry.RegisterUser: the local set, ...
AddLocalUser(c) ==
  /\ pc[c] = "local"
  /\ localUsers' = [localUsers EXCEPT ![ConnServer[c]] = @ \cup {ConnUser[c]}]
  /\ Goto(c, "route")
  /\ UNCHANGED <<mapVars, online, announced, redisVars, call, toClose, serverVars>>

\* Slip: the user's id is stored in place of the server's.
SetRouteToUser(c) ==
  /\ pc[c] = "route"
  /\ registry' = [registry EXCEPT ![ConnUser[c]] = ConnUser[c]]
  /\ Goto(c, "member")
  /\ UNCHANGED <<mapVars, memoryVars, serverUsers, call, toClose, serverVars>>

\* ... the user's route; when Redis refuses it, RegisterUser returns and the
\* connection is served all the same, ...
SetRoute(c) ==
  /\ pc[c] = "route"
  /\ \/ /\ RedisAnswers(ConnServer[c])
        /\ registry' = [registry EXCEPT ![ConnUser[c]] = ConnServer[c]]
        /\ Goto(c, "member")
     \/ /\ RedisFails(ConnServer[c])
        /\ Goto(c, "status")
        /\ UNCHANGED registry
  /\ UNCHANGED <<mapVars, memoryVars, serverUsers, call, toClose, serverVars>>

\* ... and the server's set of users.
AddMember(c) ==
  /\ pc[c] = "member"
  /\ \/ /\ RedisAnswers(ConnServer[c])
        /\ serverUsers' = [serverUsers EXCEPT ![ConnServer[c]] = @ \cup {ConnUser[c]}]
     \/ /\ RedisFails(ConnServer[c])
        /\ UNCHANGED serverUsers
  /\ Goto(c, "status")
  /\ UNCHANGED <<mapVars, memoryVars, registry, call, toClose, serverVars>>

\* statusManager.UpdateUserStatus(user, type, true).
MarkOnline(c) ==
  /\ pc[c] = "status"
  /\ online' = [online EXCEPT ![ConnServer[c]] = @ \cup {ConnUser[c]}]
  /\ Goto(c, "announce")
  /\ UNCHANGED <<mapVars, localUsers, announced, redisVars, call, toClose, serverVars>>

RegisterConnection(c) ==
  \/ AddConnection(c) \/ AddLocalUser(c) \/ SetRoute(c)
  \/ AddMember(c) \/ MarkOnline(c)

-----------------------------------------------------------------------------
(* handleEnhancedAuthenticatedConnection.                                  *)

\* sendUserStatusUpdate(user, online): BroadcastStatus hands the status to the
\* notification channel of the server, from which the friends get it, if there
\* are any.  When the query of the friends fails or the channel is full the notice
\* is lost, and the friends keep what they were told before.
SendStatusUpdate(u, status) ==
  IF u \in Befriended
    THEN \/ announced' = [announced EXCEPT ![u] = [status |-> status, missed |-> FALSE]]
         \/ announced' = [announced EXCEPT ![u].missed = TRUE]
    ELSE UNCHANGED announced

\* A connection has been authenticated and its handler starts.  A TCP-style
\* connection first unregisters the user's WebSocket connections.
Accept(c) ==
  /\ pc[c] = "idle"
  /\ stage[ConnServer[c]] = "up"
  /\ ConnUser[c] \in PatientUsers => Quiet(ConnUser[c])
  /\ IF ConnType[c] \in {"tcp", "tcp_ws"}
       THEN /\ call' = [call EXCEPT ![c].type = "websocket"]
            /\ Goto(c, "remove")
       ELSE /\ Goto(c, "register")
            /\ UNCHANGED call
  /\ UNCHANGED <<mapVars, memoryVars, redisVars, toClose, serverVars>>

\* sendUserStatusUpdate(user, true), then the reader and the writer start.
AnnounceOnline(c) ==
  /\ pc[c] = "announce"
  /\ SendStatusUpdate(ConnUser[c], "online")
  /\ Goto(c, "serve")
  /\ UNCHANGED <<mapVars, localUsers, online, redisVars, call, toClose, serverVars>>

\* The reader sees the client go away, or the deadline pass, and closes.
ReaderCloses(c) ==
  /\ pc[c] = "serve"
  /\ c \notin closed
  /\ closed' = closed \cup {c}
  /\ UNCHANGED <<connections, memoryVars, redisVars, procVars, serverVars>>

\* Slips: the unregistration is called with the type of the call before, ...
AnnounceOfflineOldType(c) ==
  /\ pc[c] = "serve"
  /\ c \in closed
  /\ SendStatusUpdate(ConnUser[c], "offline")
  /\ Goto(c, "remove")
  /\ UNCHANGED <<mapVars, localUsers, online, redisVars, call, toClose, serverVars>>

\* ... the friends are not told, ...
LeaveSilently(c) ==
  /\ pc[c] = "serve"
  /\ c \in closed
  /\ call' = [call EXCEPT ![c].type = ConnType[c]]
  /\ Goto(c, "remove")
  /\ UNCHANGED <<mapVars, memoryVars, redisVars, toClose, serverVars>>

\* ... the handler waits until its connection is out of the map.
AnnounceOnceRemoved(c) ==
  /\ pc[c] = "serve"
  /\ c \in closed
  /\ c \notin connections
  /\ SendStatusUpdate(ConnUser[c], "offline")
  /\ call' = [call EXCEPT ![c].type = ConnType[c]]
  /\ Goto(c, "remove")
  /\ UNCHANGED <<mapVars, localUsers, online, redisVars, toClose, serverVars>>

\* <-done; sendUserStatusUpdate(user, false); the deferred unregistration.
AnnounceOffline(c) ==
  /\ pc[c] = "serve"
  /\ c \in closed
  /\ SendStatusUpdate(ConnUser[c], "offline")
  /\ call' = [call EXCEPT ![c].type = ConnType[c]]
  /\ Goto(c, "remove")
  /\ UNCHANGED <<mapVars, localUsers, online, redisVars, toClose, serverVars>>

HandlerStep(c) ==
  \/ UnregisterConnection(c)
  \/ RegisterConnection(c)
  \/ AnnounceOnline(c)
  \/ AnnounceOffline(c)

-----------------------------------------------------------------------------
(* The goroutine of Run: processMessage found a connection of u closed and  *)
(* unregisters it by its id.                                               *)

\* The handler of c has put it into the map in this life of the server.
HasRegistered(c) ==
  \/ pc[c] \in {"local", "route", "member", "status", "announce", "serve"}
  \/ pc[c] \in UnregisterSteps /\ call[c].type = ConnType[c]
  \/ pc[c] = "done"

DropClosed(s, u) ==
  /\ pc[s] = "idle"
  /\ stage[s] # "down"
  /\ \E c \in closed : ConnServer[c] = s /\ ConnUser[c] = u /\ HasRegistered(c)
  /\ call' = [call EXCEPT ![s].user = u]
  /\ Goto(s, "remove")
  /\ UNCHANGED <<mapVars, memoryVars, redisVars, toClose, serverVars>>

-----------------------------------------------------------------------------
(* The life of a server process.                                           *)

\* main receives a signal: the listeners are closed, no connection is accepted.
BeginStop(s) ==
  /\ stage[s] = "up"
  /\ stage' = [stage EXCEPT ![s] = "draining"]
  /\ UNCHANGED <<mapVars, memoryVars, redisVars, procVars, sweep, lives>>

\* Close: CleanupServerUsers reads the server's set, unless Redis refuses, ...
ReadMembers(s) ==
  /\ stage[s] = "draining"
  /\ \/ /\ RedisEnabled
        /\ stage' = [stage EXCEPT ![s] = "sweeping"]
        /\ sweep' = [sweep EXCEPT ![s] = serverUsers[s]]
     \/ /\ RedisEnabled => RedisFails(s)
        /\ stage' = [stage EXCEPT ![s] = "closing"]
        /\ UNCHANGED sweep
  /\ UNCHANGED <<mapVars, memoryVars, redisVars, procVars, lives>>

\* ... deletes the route of every user in it, ...
SweepUser(s) ==
  /\ stage[s] = "sweeping"
  /\ \E u \in sweep[s] :
       /\ sweep' = [sweep EXCEPT ![s] = @ \ {u}]
       /\ \/ registry' = [registry EXCEPT ![u] = NoServer]
          \/ RedisFails(s) /\ UNCHANGED registry
  /\ UNCHANGED <<mapVars, memoryVars, serverUsers, procVars, stage, lives>>

\* ... and then the set.
DeleteMembers(s) ==
  /\ stage[s] = "sweeping"
  /\ sweep[s] = {}
  /\ stage' = [stage EXCEPT ![s] = "closing"]
  /\ \/ serverUsers' = [serverUsers EXCEPT ![s] = {}]
     \/ RedisFails(s) /\ UNCHANGED serverUsers
  /\ UNCHANGED <<mapVars, memoryVars, registry, procVars, sweep, lives>>

\* The rest of Close, under the mutex: close and forget every connection, and
\* close the Redis client.
CloseAll(s) ==
  LET mine == {c \in connections : ConnServer[c] = s}
  IN  /\ stage[s] = "closing"
      /\ closed' = closed \cup mine
      /\ connections' = connections \ mine
      /\ stage' = [stage EXCEPT ![s] = "closed"]
      /\ UNCHANGED <<memoryVars, redisVars, procVars, sweep, lives>>

\* The process is gone: its goroutines, its memory and its connections.  What
\* its handlers still had to tell the friends of their users is never said, and
\* what its notification channel held is lost.
ProcessGone(s) ==
  LET mine == {c \in Conns : ConnServer[c] = s /\ pc[c] # "idle"}
  IN  /\ stage' = [stage EXCEPT ![s] = "down"]
      /\ sweep' = [sweep EXCEPT ![s] = {}]
      /\ closed' = closed \cup mine
      /\ connections' = connections \ mine
      /\ localUsers' = [localUsers EXCEPT ![s] = {}]
      /\ online' = [online EXCEPT ![s] = {}]
      /\ announced' = [u \in Users |->
           [announced[u] EXCEPT !.missed =
              @ \/ \E c \in mine : u \in Befriended /\ ConnUser[c] = u /\ pc[c] # "gone"]]
      /\ pc' = [p \in Procs |-> IF p = s THEN "idle"
                               ELSE IF p \in mine THEN "gone" ELSE pc[p]]
      /\ toClose' = [p \in Procs |-> IF p = s \/ p \in mine THEN {} ELSE toClose[p]]
      /\ UNCHANGED <<redisVars, call, lives>>

\* main returns after Close.
Exit(s) == stage[s] = "closed" /\ ProcessGone(s)

\* The process is killed, or log.Fatalf ends it, before that.
Crash(s) == stage[s] \notin {"closed", "down"} /\ ProcessGone(s)

\* It is started again under the same serverID.
Restart(s) ==
  /\ stage[s] = "down"
  /\ lives[s] < MaxLives
  /\ stage' = [stage EXCEPT ![s] = "up"]
  /\ lives' = [lives EXCEPT ![s] = @ + 1]
  /\ UNCHANGED <<mapVars, memoryVars, redisVars, procVars, sweep>>

StopStep(s) ==
  \/ ReadMembers(s) \/ SweepUser(s) \/ DeleteMembers(s) \/ CloseAll(s) \/ Exit(s)

-----------------------------------------------------------------------------
(* Redis drops a route five minutes after it was last set or refreshed.    *)
(* updateHeartbeat refreshes the route of every local user of a server     *)
(* every minute, whichever server the route names.                         *)

\* Slip: the heartbeat does not run.
NoHeartbeat(u) == FALSE

Refreshed(u) == \E s \in Servers : u \in localUsers[s] /\ stage[s] # "closed"

RouteExpires(u) ==
  /\ registry[u] # NoServer
  /\ ~Refreshed(u)
  /\ registry' = [registry EXCEPT ![u] = NoServer]
  /\ UNCHANGED <<mapVars, memoryVars, serverUsers, procVars, serverVars>>

-----------------------------------------------------------------------------
Next ==
  \/ \E c \in Conns : Accept(c) \/ ReaderCloses(c) \/ HandlerStep(c)
  \/ \E s \in Servers : UnregisterConnection(s)
  \/ \E s \in Servers, u \in Addressees : DropClosed(s, u)
  \/ \E s \in StopServers : BeginStop(s) \/ StopStep(s)
  \/ \E s \in CrashServers : Crash(s)
  \/ \E s \in Servers : Restart(s)
  \/ \E u \in Users : RouteExpires(u)

\* The Go scheduler runs every runnable goroutine, and a stop once begun runs to
\* its end.  Nothing obliges a client to connect or to leave, a server to stop,
\* crash or restart, or a route to expire.
Fairness ==
  /\ \A c \in Conns : WF_vars(HandlerStep(c))
  /\ \A s \in Servers : WF_vars(UnregisterConnection(s))
  /\ \A s \in StopServers : WF_vars(StopStep(s))

Spec == Init /\ [][Next]_vars
FairSpec == Spec /\ Fairness

-----------------------------------------------------------------------------
(* Properties.                                                             *)

\* Every variable has its type; only a goroutine at the close step of an
\* unregistration still has connections to close, and those are no longer in
\* the map.
TypeOK ==
  /\ connections \subseteq Conns
  /\ closed \subseteq Conns
  /\ localUsers \in [Servers -> SUBSET Users]
  /\ online \in [Servers -> SUBSET Users]
  /\ announced \in [Users -> [status : {"none", "online", "offline"}, missed : BOOLEAN]]
  /\ registry \in [Users -> Servers \cup {NoServer}]
  /\ serverUsers \in [Servers -> SUBSET Users]
  /\ pc \in [Procs -> Steps]
  /\ call \in [Procs -> [user : Users \cup {NoUser}, type : ConnTypes \cup {NoType}]]
  /\ toClose \in [Procs -> SUBSET Conns]
  /\ stage \in [Servers -> Stages]
  /\ sweep \in [Servers -> SUBSET Users]
  /\ lives \in [Servers -> 1 .. MaxLives]

\* The handler of c is at one of the given steps of its deferred, and last,
\* call of UnregisterConnection.
Leaving(c, steps) == pc[c] \in steps /\ call[c].type = ConnType[c]

\* The handler of c has registered it and has not yet begun to take it out.
Engaged(c) ==
  \/ pc[c] \in {"local", "route", "member", "status", "announce", "serve"}
  \/ Leaving(c, {"remove"})

\* A connection in the manager's map still has a handler that will take it
\* out: the map never keeps an entry nobody cleans up, however registrations,
\* unregistrations by type and a shutdown interleave.
NoLeakedEntry == \A c \in connections : Engaged(c)

\* A registered connection that is no longer in the map, because another
\* handler's UnregisterConnection or Close took it out, is closed or is about
\* to be closed by whoever took it out: no client stays connected to a
\* connection the manager can no longer reach.
NoUnreachableConnection ==
  \A c \in Conns :
    Engaged(c) /\ c \notin connections
      => c \in closed \/ \E p \in Procs : c \in toClose[p]

\* A user in a server's local set has a handler on that server that is yet to
\* decide whether it was the user's last: hasOtherConns is evaluated outside
\* the critical section that removed the connections, and still no user is
\* left behind in the set by handlers that each believed another would do it.
NoGhostLocalUser ==
  \A s \in Servers : \A u \in localUsers[s] :
    \E c \in Conns :
      /\ ConnServer[c] = s /\ ConnUser[c] = u
      /\ Engaged(c) \/ Leaving(c, {"close", "check", "unlocal"})

\* The same for the status cache: a user shown as online has a handler that
\* is yet to decide whether to show it as offline.
NoGhostOnline ==
  \A s \in Servers : \A u \in online[s] :
    \E c \in Conns :
      /\ ConnServer[c] = s /\ ConnUser[c] = u
      /\ Engaged(c) \/ Leaving(c, UnregisterSteps)

\* The same for the route in Redis, as long as Redis takes every command and
\* the server it names is in its first life and has not closed its client.
NoGhostRoute ==
  \A u \in Users : \A s \in Servers :
    registry[u] = s /\ ~RedisMayFail /\ lives[s] = 1 /\ stage[s] \notin {"closed", "down"}
      => \E c \in Conns :
           /\ ConnServer[c] = s /\ ConnUser[c] = u
           /\ Engaged(c) \/ Leaving(c, {"close", "check", "unlocal", "unroute"})

\* What the friends of a user were last notified of is right, unless a later
\* notice was lost or a server went down with it: "online" is never left standing
\* by the last of several handlers that leave, and the friends of a user that
\* waits until the servers have finished with its previous connection see the
\* user online while it is served, at whichever server.  (A user that does not
\* wait may be shown offline: the old handler says so after the new one.)
FriendsKnow ==
  \A u \in Befriended :
    LET served == \E c \in Conns : ConnUser[c] = u /\ pc[c] = "serve"
    IN  ~announced[u].missed
          => /\ announced[u].status = "online" => served
             /\ u \in PatientUsers /\ served => announced[u].status = "online"

\* Everything that makes a connected user reachable and visible agrees: the
\* map, the local set, the route, the server's set and the status cache.
Reachable(c) ==
  LET s == ConnServer[c]
      u == ConnUser[c]
  IN  /\ c \in connections
      /\ u \in online[s]
      /\ RedisEnabled => u \in localUsers[s] /\ registry[u] = s /\ u \in serverUsers[s]

\* A user that waits until the servers have finished with its previous connection,
\* and to whom nobody sends a message, which may begin another unregistration, is
\* reachable in all of these ways while its connection is served, even when a
\* server that held its previous connection has crashed and whether or not that
\* server is back, as long as Redis takes every command and no server has begun
\* to stop.
PatientUserReachable ==
  (~RedisMayFail /\ \A s \in StopServers : stage[s] = "up" /\ lives[s] = 1)
    => \A c \in Conns :
         /\ ConnUser[c] \in PatientUsers \ Addressees
         /\ pc[c] = "serve" /\ c \notin closed
         => Reachable(c)

\* A stop deletes the route of everybody in the server's set, whichever server the
\* route names.  The set it reads has no user in it who has moved: one who has
\* waited for the old connection to be finished, to whom nobody sends a message,
\* and who is served by another server now, as long as Redis takes every command
\* and the stopping server has not crashed before.
SweepSparesMoved ==
  [][\A s \in Servers : \A c \in Conns :
       /\ ~RedisMayFail /\ lives[s] = 1
       /\ ConnUser[c] \in PatientUsers \ Addressees
       /\ ConnServer[c] # s /\ pc[c] = "serve"
       => (ConnUser[c] \in sweep'[s] => ConnUser[c] \in sweep[s])]_vars

\* A connection whose done channel is closed is unregistered in the end: its
\* handler never waits for anything that does not come.
ClosedIsUnregistered ==
  \A c \in Conns : c \in closed ~> pc[c] \in {"done", "gone"}

============================================================================
