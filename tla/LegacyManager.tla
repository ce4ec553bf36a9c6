--------------------------- MODULE LegacyManager ---------------------------
(***************************************************************************)
(* The first connection manager, internal/connection/redis_manager.go,     *)
(* with the handlers of connection_handler.go that drive it.               *)
(*                                                                         *)
(* It keeps two maps under one mutex, the connections of every user and    *)
(* the newest of every type, and, in Redis, three places about every user  *)
(* and type of connection.  Those are common to all servers, and are       *)
(* written one after the other when the mutex has been released.  A step   *)
(* of this module is a critical section, a Redis command or a Close.  The   *)
(* third of these places, the key conn:<user>:<type>, is left out: nobody  *)
(* reads it, and it expires even while the user is connected, since the    *)
(* heartbeat extends a key of another name.                                *)
(***************************************************************************)
EXTENDS Naturals, FiniteSets

CONSTANTS
  Servers,       \* the server processes
  Users,         \* user ids
  Conns,         \* every connection that may ever be accepted
  NoConn,        \* no entry in connectionsByType
  NoUser,        \* the goroutine of Run has unregistered nobody yet
  ConnUser,      \* the authenticated user of a connection
  ConnServer,    \* the server that accepts it
  ConnType,      \* its GetConnectionType()
  RedisEnabled,  \* redisEnabled
  RedisMayFail,  \* a Redis command of a running server may fail
  StopServers    \* servers whose Run may be told to stop

ConnTypes == {"websocket", "tcp", "tcp_ws"}

ASSUME ConnAssumption ==
  /\ ConnUser \in [Conns -> Users]
  /\ ConnServer \in [Conns -> Servers]
  /\ ConnType \in [Conns -> ConnTypes]
ASSUME NameAssumption ==
  /\ NoConn \notin Conns
  /\ NoUser \notin Users
  /\ Servers \cap Conns = {}
ASSUME FlagAssumption ==
  /\ RedisEnabled \in BOOLEAN
  /\ RedisMayFail \in BOOLEAN
  /\ StopServers \subseteq Servers

VARIABLES
  connections,  \* the connections in the map
  newest,       \* connectionsByType: the newest one of a user and a type
  closed,       \* the connections whose done channel is closed
  userConns,    \* Redis: the sets user_conns:<user> of types
  onlineUsers,  \* Redis: the sets online_users:<type> of users
  online,       \* per server: the users its status manager has as online
  pc,           \* the next step of every goroutine
  call,         \* the arguments of its UnregisterConnection
  toClose,      \* the connections that call has still to close
  life          \* a server is up, its manager is closed, or it is down

mapVars == <<connections, newest, closed>>
redisVars == <<userConns, onlineUsers>>
procVars == <<pc, call, toClose>>
vars == <<connections, newest, closed, userConns, onlineUsers, online, pc,
          call, toClose, life>>

\* A handler per connection, and the goroutine of Run on every server.
Procs == Conns \cup Servers

\* The goroutine of Run passes the id of a connection where UnregisterConnection
\* expects a type: that is the type of no connection.
NoType == "connID"

RegisterSteps == {"register", "member", "listed", "online"}
UnregisterSteps == {"remove", "close", "delmember", "dellisted", "check", "offline"}
Steps == {"idle", "serve", "done", "gone"} \cup RegisterSteps \cup UnregisterSteps

ServerOf(p) == IF p \in Servers THEN p ELSE ConnServer[p]
UserConns(s, u) == {c \in connections : ConnServer[c] = s /\ ConnUser[c] = u}
OfType(s, u, t) == {c \in UserConns(s, u) : ConnType[c] = t}

\* Closing the manager cancels the context of its Redis commands.
RedisAnswers(s) == life[s] = "up"
RedisFails(s) == RedisMayFail \/ life[s] # "up"

Init ==
  /\ connections = {} /\ closed = {}
  /\ newest = [k \in Servers \X Users \X ConnTypes |-> NoConn]
  /\ userConns = {} /\ onlineUsers = {}
  /\ online = [s \in Servers |-> {}]
  /\ pc = [p \in Procs |-> "idle"]
  /\ call = [p \in Procs |->
               IF p \in Servers THEN [user |-> NoUser, type |-> NoType]
                               ELSE [user |-> ConnUser[p], type |-> ConnType[p]]]
  /\ toClose = [p \in Procs |-> {}]
  /\ life = [s \in Servers |-> "up"]

Goto(p, step) == pc' = [pc EXCEPT ![p] = step]

-----------------------------------------------------------------------------
(* UnregisterConnection(call[p].user, call[p].type).                       *)

\* The user and the type its three Redis commands are about.
Entry(p) == <<call[p].user, call[p].type>>

AfterClose == IF RedisEnabled THEN "delmember" ELSE "check"

\* Run takes the next message, a handler that has made room goes on to register
\* its own connection, and one whose deferred call this was is done.
Return(p) ==
  IF p \in Servers
    THEN Goto(p, "idle") /\ call' = [call EXCEPT ![p].user = NoUser]
    ELSE Goto(p, IF call[p].type # ConnType[p] THEN "register" ELSE "done") /\ UNCHANGED call

\* Slip: only the first of the two maps is cleaned.
RemoveFromOneMap(p) ==
  LET gone == OfType(ServerOf(p), call[p].user, call[p].type)
  IN  /\ pc[p] = "remove"
      /\ connections' = connections \ gone
      /\ toClose' = [toClose EXCEPT ![p] = gone]
      /\ Goto(p, IF gone = {} THEN AfterClose ELSE "close")
      /\ UNCHANGED <<newest, closed, redisVars, online, call, life>>

\* The critical section: all connections of the type leave both maps.
Remove(p) ==
  LET gone == OfType(ServerOf(p), call[p].user, call[p].type)
  IN  /\ pc[p] = "remove"
      /\ connections' = connections \ gone
      /\ newest' = [k \in DOMAIN newest |->
                      IF k = <<ServerOf(p), call[p].user, call[p].type>> THEN NoConn ELSE newest[k]]
      /\ toClose' = [toClose EXCEPT ![p] = gone]
      /\ Goto(p, IF gone = {} THEN AfterClose ELSE "close")
      /\ UNCHANGED <<closed, redisVars, online, call, life>>

CloseRemoved(p) ==
  /\ pc[p] = "close"
  /\ \E c \in toClose[p] :
       /\ closed' = closed \cup {c}
       /\ toClose' = [toClose EXCEPT ![p] = @ \ {c}]
       /\ Goto(p, IF toClose[p] = {c} THEN AfterClose ELSE "close")
  /\ UNCHANGED <<connections, newest, redisVars, online, call, life>>

\* DEL conn:<user>:<type>, and SREM user_conns:<user> <type>, ...
DeleteMember(p) ==
  /\ pc[p] = "delmember"
  /\ \/ RedisAnswers(ServerOf(p)) /\ userConns' = userConns \ {Entry(p)}
     \/ RedisFails(ServerOf(p)) /\ UNCHANGED userConns
  /\ Goto(p, "dellisted")
  /\ UNCHANGED <<mapVars, onlineUsers, online, call, toClose, life>>

\* ... SREM online_users:<type> <user>.
DeleteListed(p) ==
  /\ pc[p] = "dellisted"
  /\ \/ RedisAnswers(ServerOf(p)) /\ onlineUsers' = onlineUsers \ {Entry(p)}
     \/ RedisFails(ServerOf(p)) /\ UNCHANGED onlineUsers
  /\ Goto(p, "check")
  /\ UNCHANGED <<mapVars, userConns, online, call, toClose, life>>

\* hasOtherConns, under the read lock; it is used after its release.
CheckOthers(p) ==
  /\ pc[p] = "check"
  /\ IF UserConns(ServerOf(p), call[p].user) # {}
       THEN Return(p)
       ELSE Goto(p, "offline") /\ UNCHANGED call
  /\ UNCHANGED <<mapVars, redisVars, online, toClose, life>>

MarkOffline(p) ==
  /\ pc[p] = "offline"
  /\ online' = [online EXCEPT ![ServerOf(p)] = @ \ {call[p].user}]
  /\ Return(p)
  /\ UNCHANGED <<mapVars, redisVars, toClose, life>>

UnregisterConnection(p) ==
  \/ Remove(p) \/ CloseRemoved(p) \/ DeleteMember(p)
  \/ DeleteListed(p) \/ CheckOthers(p) \/ MarkOffline(p)

-----------------------------------------------------------------------------
(* RegisterConnection, run by the handler of connection c.                 *)

\* After the critical section the key is SET: if that fails, the two sets are
\* not written.  The SET itself leaves nothing this module shows, so that it is
\* one step with the section.
AddConnection(c) ==
  /\ pc[c] = "register"
  /\ connections' = connections \cup {c}
  /\ newest' = [newest EXCEPT ![<<ConnServer[c], ConnUser[c], ConnType[c]>>] = c]
  /\ \/ RedisEnabled /\ RedisAnswers(ConnServer[c]) /\ Goto(c, "member")
     \/ (RedisEnabled => RedisFails(ConnServer[c])) /\ Goto(c, "online")
  /\ UNCHANGED <<closed, redisVars, online, call, toClose, life>>

AddMember(c) ==
  /\ pc[c] = "member"
  /\ \/ /\ RedisAnswers(ConnServer[c])
        /\ userConns' = userConns \cup {<<ConnUser[c], ConnType[c]>>}
     \/ RedisFails(ConnServer[c]) /\ UNCHANGED userConns
  /\ Goto(c, "listed")
  /\ UNCHANGED <<mapVars, onlineUsers, online, call, toClose, life>>

AddListed(c) ==
  /\ pc[c] = "listed"
  /\ \/ /\ RedisAnswers(ConnServer[c])
        /\ onlineUsers' = onlineUsers \cup {<<ConnUser[c], ConnType[c]>>}
     \/ RedisFails(ConnServer[c]) /\ UNCHANGED onlineUsers
  /\ Goto(c, "online")
  /\ UNCHANGED <<mapVars, userConns, online, call, toClose, life>>

\* statusManager.UpdateUserStatus(user, type, true); then the goroutine that
\* resends what was stored is started and the connection is served.  (What
\* the handler tells the friends changes nothing here: see MessageService.)
MarkOnline(c) ==
  /\ pc[c] = "online"
  /\ online' = [online EXCEPT ![ConnServer[c]] = @ \cup {ConnUser[c]}]
  /\ Goto(c, "serve")
  /\ UNCHANGED <<mapVars, redisVars, call, toClose, life>>

RegisterConnection(c) ==
  \/ AddConnection(c) \/ AddMember(c) \/ AddListed(c) \/ MarkOnline(c)

-----------------------------------------------------------------------------
(* handleAuthenticatedConnection.                                          *)

\* A TCP-style connection first unregisters the user's WebSocket connections.
Accept(c) ==
  /\ pc[c] = "idle"
  /\ life[ConnServer[c]] = "up"
  /\ IF ConnType[c] \in {"tcp", "tcp_ws"}
       THEN call' = [call EXCEPT ![c].type = "websocket"] /\ Goto(c, "remove")
       ELSE Goto(c, "register") /\ UNCHANGED call
  /\ UNCHANGED <<mapVars, redisVars, online, toClose, life>>

\* The reader returns and closes the connection.
ReaderCloses(c) ==
  /\ pc[c] = "serve"
  /\ c \notin closed
  /\ closed' = closed \cup {c}
  /\ UNCHANGED <<connections, newest, redisVars, online, procVars, life>>

\* Slip: the deferred call is made with the type of the call before.
LeaveOldType(c) ==
  /\ pc[c] = "serve"
  /\ c \in closed
  /\ Goto(c, "remove")
  /\ UNCHANGED <<mapVars, redisVars, online, call, toClose, life>>

\* <-done, and the deferred UnregisterConnection begins.
Leave(c) ==
  /\ pc[c] = "serve"
  /\ c \in closed
  /\ call' = [call EXCEPT ![c].type = ConnType[c]]
  /\ Goto(c, "remove")
  /\ UNCHANGED <<mapVars, redisVars, online, toClose, life>>

HandlerStep(c) == UnregisterConnection(c) \/ RegisterConnection(c) \/ Leave(c)

-----------------------------------------------------------------------------
(* The goroutine of Run and the life of a server.                          *)

\* The handler of c has registered it.
HasRegistered(c) ==
  \/ pc[c] \in {"member", "listed", "online", "serve", "done"}
  \/ pc[c] \in UnregisterSteps /\ call[c].type = ConnType[c]

BeginDrop(s, u) ==
  /\ pc[s] = "idle"
  /\ life[s] = "up"
  /\ call' = [call EXCEPT ![s].user = u]
  /\ Goto(s, "remove")
  /\ UNCHANGED <<mapVars, redisVars, online, toClose, life>>

\* The connections of user u that processMessage may find closed: it has read
\* them from the map, maybe before they left it.
FoundClosed(s, u) == {c \in closed : ConnServer[c] = s /\ ConnUser[c] = u /\ HasRegistered(c)}

\* It unregisters a WebSocket connection that it finds closed by its id.
DropClosed(s, u) ==
  /\ \E c \in FoundClosed(s, u) : ConnType[c] # "tcp"
  /\ BeginDrop(s, u)

\* Run returns and its deferred Close, under the mutex, closes and forgets
\* every connection, and closes the Redis client.
CloseManager(s) ==
  LET mine == {c \in connections : ConnServer[c] = s}
  IN  /\ life[s] = "up"
      /\ pc[s] = "idle"
      /\ life' = [life EXCEPT ![s] = "closed"]
      /\ closed' = closed \cup mine
      /\ connections' = connections \ mine
      /\ newest' = [k \in DOMAIN newest |-> IF k[1] = s THEN NoConn ELSE newest[k]]
      /\ UNCHANGED <<redisVars, online, procVars>>

\* The process is gone, with its goroutines, its memory and its connections.
ProcessGone(s) ==
  LET mine == {c \in Conns : ConnServer[c] = s /\ pc[c] # "idle"}
  IN  /\ life' = [life EXCEPT ![s] = "down"]
      /\ closed' = closed \cup mine
      /\ connections' = connections \ mine
      /\ newest' = [k \in DOMAIN newest |-> IF k[1] = s THEN NoConn ELSE newest[k]]
      /\ online' = [online EXCEPT ![s] = {}]
      /\ pc' = [p \in Procs |-> IF p = s THEN "idle" ELSE IF p \in mine THEN "gone" ELSE pc[p]]
      /\ toClose' = [p \in Procs |-> IF p = s \/ p \in mine THEN {} ELSE toClose[p]]
      /\ UNCHANGED <<redisVars, call>>

\* SendMessage of this TCP connection does not look at done: a message for one
\* that has been closed meets a closed channel and panics.
SendPanics(s, u) ==
  /\ pc[s] = "idle"
  /\ life[s] = "up"
  /\ \E c \in FoundClosed(s, u) : ConnType[c] = "tcp"
  /\ ProcessGone(s)

-----------------------------------------------------------------------------
ClientStep == \E c \in Conns : Accept(c) \/ ReaderCloses(c)

Next ==
  \/ ClientStep
  \/ \E c \in Conns : HandlerStep(c)
  \/ \E s \in Servers : UnregisterConnection(s)
  \/ \E s \in Servers, u \in Users : DropClosed(s, u) \/ SendPanics(s, u)
  \/ \E s \in StopServers : CloseManager(s)

Spec == Init /\ [][Next]_vars

-----------------------------------------------------------------------------
(* Properties.                                                             *)

\* Every variable has its type.
TypeOK ==
  /\ connections \subseteq Conns
  /\ newest \in [Servers \X Users \X ConnTypes -> Conns \cup {NoConn}]
  /\ closed \subseteq Conns
  /\ userConns \subseteq Users \X ConnTypes
  /\ onlineUsers \subseteq Users \X ConnTypes
  /\ online \in [Servers -> SUBSET Users]
  /\ pc \in [Procs -> Steps]
  /\ call \in [Procs -> [user : Users \cup {NoUser}, type : ConnTypes \cup {NoType}]]
  /\ toClose \in [Procs -> SUBSET Conns]
  /\ life \in [Servers -> {"up", "closed", "down"}]

\* The two maps agree: a user's entry for a type names one of the user's
\* connections of this type in the other map, and there is an entry whenever
\* there is such a connection, however registrations, removals by type by other
\* handlers and a Close interleave.
NewestIsHeld ==
  \A s \in Servers, u \in Users, t \in ConnTypes :
    LET held == OfType(s, u, t)
    IN  IF held = {} THEN newest[<<s, u, t>>] = NoConn ELSE newest[<<s, u, t>>] \in held

\* A handler of user u and type t that has passed the given steps of its
\* registration, or is at the given steps of its deferred unregistration.
Owned(u, t, registering, leaving) ==
  \E c \in Conns :
    /\ ConnUser[c] = u /\ ConnType[c] = t
    /\ \/ pc[c] \in registering \cup {"online", "serve"}
       \/ pc[c] \in leaving /\ call[c].type = t

\* What Redis holds about a user and a type has a handler, on one of the servers
\* that share it, that will still remove it: no entry is left behind by
\* handlers that remove each other's entries, as long as Redis takes every
\* command and no server has stopped or panicked.
NoGhostEntry ==
  (~RedisMayFail /\ \A s \in Servers : life[s] = "up")
    => \A u \in Users, t \in ConnTypes :
         /\ <<u, t>> \in userConns
              => Owned(u, t, {"listed"}, {"remove", "close", "delmember"})
         /\ <<u, t>> \in onlineUsers
              => Owned(u, t, {}, {"remove", "close", "delmember", "dellisted"})
=============================================================================
