--------------------------- MODULE MessageRouting ---------------------------
(***************************************************************************)
(* The way of a message through the optimized connection manager: the      *)
(* sender's SendMessage, the queue of the recipient's server or the Redis  *)
(* channel to it, the listener, and the goroutine of Run that hands the    *)
(* message to one connection of the recipient.  It runs beside the         *)
(* handlers of ConnectionManager, whose state it reads.                    *)
(*                                                                         *)
(* storeOfflineMessage of this manager has an empty body: a message that   *)
(* is "stored" is in no store.  A server is taken to be subscribed to its  *)
(* channel as long as it is up.                                            *)
(***************************************************************************)
EXTENDS ConnectionManager, Sequences

CONSTANTS
  Msgs,         \* the messages ever sent: a set of numbers, in sending order
  MsgFrom,      \* the server whose connection a message comes in by
  MsgTo,        \* its RecipientID
  NoMsg,        \* the goroutine of Run has no message in hand
  QueueCap,     \* capacity of messageQueueChan (1000 in the code)
  BuffersFill   \* a connection's send buffer may be full

ASSUME MsgAssumption ==
  /\ Msgs \subseteq Nat
  /\ NoMsg \notin Msgs
  /\ MsgFrom \in [Msgs -> Servers]
  /\ MsgTo \in [Msgs -> Addressees]
ASSUME CapAssumption ==
  /\ QueueCap \in Nat \ {0}
  /\ BuffersFill \in BOOLEAN

VARIABLES
  progress,    \* how far the sender's SendMessage is with a message
  target,      \* the server FindUserServer found
  channel,     \* per server: published on server_msg:<server>, not yet received
  queue,       \* per server: messageQueueChan
  hand,        \* per server: the message processMessage is working on
  phase,       \* per server: how far processMessage is
  stale,       \* per server: the map of connections it looked up is detached
               \* from the manager: nobody changes it any more
  tries,       \* per server: what that map holds, and after the second read
               \* lock the connections it has still to try
  deliveries,  \* the connections that took a message, in order
  fate,        \* how a message ended that no connection took
  reachable    \* history: the connections of the recipient that have been
               \* reachable ever since the message was sent

sendVars == <<progress, target>>
busVars == <<channel, queue>>
dispatchVars == <<hand, phase, stale, tries>>
routingVars == <<progress, target, channel, queue, hand, phase, stale, tries,
                 deliveries, fate, reachable>>
allVars == <<vars, routingVars>>

Fates == {"none", "rejected", "stored", "unheard", "dropped", "notHere", "lost"}

RoutingInit ==
  /\ Init
  /\ progress = [m \in Msgs |-> "new"]
  /\ target = [m \in Msgs |-> NoServer]
  /\ channel = [s \in Servers |-> << >>]
  /\ queue = [s \in Servers |-> << >>]
  /\ hand = [s \in Servers |-> NoMsg]
  /\ phase = [s \in Servers |-> "take"]
  /\ stale = [s \in Servers |-> FALSE]
  /\ tries = [s \in Servers |-> {}]
  /\ deliveries = << >>
  /\ fate = [m \in Msgs |-> "none"]
  /\ reachable = [m \in Msgs |-> {}]

ReachableConns(u) == {c \in Conns : ConnUser[c] = u /\ pc[c] = "serve" /\ c \notin closed /\ Reachable(c)}

\* The history of every step: what has been reachable and still is.
KeepReachable ==
  reachable' = [m \in Msgs |-> IF progress[m] = "new"
                                 THEN IF progress'[m] = "new" THEN {} ELSE ReachableConns(MsgTo[m])'
                                 ELSE reachable[m] \cap ReachableConns(MsgTo[m])']

Advance(m, step) == progress' = [progress EXCEPT ![m] = step]
End(m, how) == fate' = [fate EXCEPT ![m] = how]

-----------------------------------------------------------------------------
(* SendMessage, run by the reader of the sender's connection, one message   *)
(* after the other.                                                        *)

Sending(m, step) == progress[m] = step /\ stage[MsgFrom[m]] # "down"

\* IsUserLocal: a local recipient's message goes to the queue; for any other
\* the route is looked up, or nothing is done when there is no Redis.
ChooseWay(m) ==
  /\ Sending(m, "new")
  /\ \A n \in Msgs : n < m /\ MsgFrom[n] = MsgFrom[m] => progress[n] = "sent"
  /\ \/ /\ MsgTo[m] \in localUsers[MsgFrom[m]]
        /\ Advance(m, "enqueue")
        /\ UNCHANGED fate
     \/ /\ MsgTo[m] \notin localUsers[MsgFrom[m]]
        /\ RedisEnabled
        /\ Advance(m, "find")
        /\ UNCHANGED fate
     \/ /\ MsgTo[m] \notin localUsers[MsgFrom[m]]
        /\ ~RedisEnabled
        /\ Advance(m, "sent")
        /\ End(m, "stored")
  /\ UNCHANGED <<target, busVars, dispatchVars, deliveries>>

\* The queue takes the message, or is full and the caller gets an error.
EnqueueLocal(m) ==
  /\ Sending(m, "enqueue")
  /\ Advance(m, "sent")
  /\ IF Len(queue[MsgFrom[m]]) < QueueCap
       THEN queue' = [queue EXCEPT ![MsgFrom[m]] = Append(@, m)] /\ UNCHANGED fate
       ELSE End(m, "rejected") /\ UNCHANGED queue
  /\ UNCHANGED <<target, channel, dispatchVars, deliveries>>

\* FindUserServer: the local set once more, ...
FindLocal(m) ==
  /\ Sending(m, "find")
  /\ IF MsgTo[m] \in localUsers[MsgFrom[m]]
       THEN target' = [target EXCEPT ![m] = MsgFrom[m]] /\ Advance(m, "publish")
       ELSE Advance(m, "get") /\ UNCHANGED target
  /\ UNCHANGED <<busVars, dispatchVars, deliveries, fate>>

\* ... and then the route.  An unknown user's message is stored.
FindRoute(m) ==
  /\ Sending(m, "get")
  /\ \/ /\ RedisAnswers(MsgFrom[m])
        /\ registry[MsgTo[m]] # NoServer
        /\ target' = [target EXCEPT ![m] = registry[MsgTo[m]]]
        /\ Advance(m, "publish")
        /\ UNCHANGED fate
     \/ /\ RedisFails(MsgFrom[m]) \/ registry[MsgTo[m]] = NoServer
        /\ Advance(m, "sent")
        /\ End(m, "stored")
        /\ UNCHANGED target
  /\ UNCHANGED <<busVars, dispatchVars, deliveries>>

\* Slip: a message overtakes those before it.
PublishFirst(m) ==
  /\ Sending(m, "publish")
  /\ Advance(m, "sent")
  /\ channel' = [channel EXCEPT ![target[m]] = <<m>> \o @]
  /\ UNCHANGED <<target, queue, dispatchVars, deliveries, fate>>

\* sendToTargetServer: Redis hands the message to the subscriber, if there is
\* one, and reports no error if there is none.  The command runs under the
\* manager's context, which Close cancels before anything else.
Publish(m) ==
  /\ Sending(m, "publish")
  /\ Advance(m, "sent")
  /\ \/ /\ stage[MsgFrom[m]] \in {"up", "draining"}
        /\ stage[target[m]] \notin {"closed", "down"}
        /\ channel' = [channel EXCEPT ![target[m]] = Append(@, m)]
        /\ UNCHANGED fate
     \/ /\ stage[MsgFrom[m]] \in {"up", "draining"}
        /\ stage[target[m]] \in {"closed", "down"}
        /\ End(m, "unheard")
        /\ UNCHANGED channel
     \/ /\ RedisMayFail \/ stage[MsgFrom[m]] # "up"
        /\ End(m, "stored")
        /\ UNCHANGED channel
  /\ UNCHANGED <<target, queue, dispatchVars, deliveries>>

SendMessage(m) ==
  ChooseWay(m) \/ EnqueueLocal(m) \/ FindLocal(m) \/ FindRoute(m) \/ Publish(m)

-----------------------------------------------------------------------------
(* startServerMessageListener.                                             *)

Listen(s) ==
  /\ channel[s] # << >>
  /\ channel' = [channel EXCEPT ![s] = Tail(@)]
  /\ IF Len(queue[s]) < QueueCap
       THEN queue' = [queue EXCEPT ![s] = Append(@, Head(channel[s]))] /\ UNCHANGED fate
       ELSE End(Head(channel[s]), "dropped") /\ UNCHANGED queue
  /\ UNCHANGED <<sendVars, dispatchVars, deliveries>>

-----------------------------------------------------------------------------
(* processMessage, run by the goroutine of Run.                            *)

\* The next message, and the map of the recipient's connections: without one the
\* message is given up.
TakeMessage(s) ==
  /\ phase[s] = "take"
  /\ queue[s] # << >>
  /\ queue' = [queue EXCEPT ![s] = Tail(@)]
  /\ LET m == Head(queue[s])
     IN  IF HasOtherConns(s, MsgTo[m])
           THEN /\ hand' = [hand EXCEPT ![s] = m]
                /\ phase' = [phase EXCEPT ![s] = "collect"]
                /\ stale' = [stale EXCEPT ![s] = FALSE]
                /\ tries' = [tries EXCEPT ![s] = UserConns(s, MsgTo[m])]
                /\ UNCHANGED fate
           ELSE /\ End(m, "notHere")
                /\ UNCHANGED <<hand, phase, stale, tries>>
  /\ UNCHANGED <<sendVars, channel, deliveries>>

\* Under a second read lock, the connections that map holds by now.
CollectConns(s) ==
  /\ phase[s] = "collect"
  /\ phase' = [phase EXCEPT ![s] = "try"]
  /\ stale' = [stale EXCEPT ![s] = FALSE]
  /\ UNCHANGED <<sendVars, busVars, hand, tries, deliveries, fate>>

\* Slip: the loop goes on after the message was sent.
DeliverAndGoOn(s, c) ==
  /\ phase[s] = "try" /\ pc[s] = "idle"
  /\ c \in tries[s]
  /\ c \notin closed
  /\ deliveries' = Append(deliveries, [msg |-> hand[s], conn |-> c])
  /\ tries' = [tries EXCEPT ![s] = @ \ {c}]
  /\ UNCHANGED <<sendVars, busVars, hand, phase, stale, fate>>

\* conn.SendMessage succeeds: the other connections are not tried.
Deliver(s, c) ==
  /\ phase[s] = "try" /\ pc[s] = "idle"
  /\ c \in tries[s]
  /\ c \notin closed
  /\ deliveries' = Append(deliveries, [msg |-> hand[s], conn |-> c])
  /\ hand' = [hand EXCEPT ![s] = NoMsg]
  /\ tries' = [tries EXCEPT ![s] = {}]
  /\ phase' = [phase EXCEPT ![s] = "take"]
  /\ UNCHANGED <<sendVars, busVars, stale, fate>>

\* The connection's buffer is full: the next one is tried.
SkipFull(s, c) ==
  /\ BuffersFill
  /\ phase[s] = "try" /\ pc[s] = "idle"
  /\ c \in tries[s]
  /\ c \notin closed
  /\ tries' = [tries EXCEPT ![s] = @ \ {c}]
  /\ UNCHANGED <<sendVars, busVars, hand, phase, stale, deliveries, fate>>

\* Slips: the loop ends with the first closed connection, or tries it again, or
\* a connection is unregistered after any error.
UnregisterAndBreak(s, c) ==
  /\ phase[s] = "try" /\ pc[s] = "idle"
  /\ c \in tries[s] /\ c \in closed
  /\ tries' = [tries EXCEPT ![s] = {}]
  /\ call' = [call EXCEPT ![s].user = MsgTo[hand[s]]]
  /\ Goto(s, "remove")
  /\ UNCHANGED <<mapVars, memoryVars, redisVars, toClose, serverVars>>
  /\ UNCHANGED <<sendVars, busVars, hand, phase, stale, deliveries, fate>>

UnregisterAndRetry(s, c) ==
  /\ phase[s] = "try" /\ pc[s] = "idle"
  /\ c \in tries[s] /\ c \in closed
  /\ call' = [call EXCEPT ![s].user = MsgTo[hand[s]]]
  /\ Goto(s, "remove")
  /\ UNCHANGED <<mapVars, memoryVars, redisVars, toClose, serverVars>>
  /\ UNCHANGED <<sendVars, busVars, dispatchVars, deliveries, fate>>

UnregisterAny(s, c) ==
  /\ phase[s] = "try" /\ pc[s] = "idle"
  /\ c \in tries[s]
  /\ tries' = [tries EXCEPT ![s] = @ \ {c}]
  /\ call' = [call EXCEPT ![s].user = MsgTo[hand[s]]]
  /\ Goto(s, "remove")
  /\ UNCHANGED <<mapVars, memoryVars, redisVars, toClose, serverVars>>
  /\ UNCHANGED <<sendVars, busVars, hand, phase, stale, deliveries, fate>>

\* The connection is closed: UnregisterConnection is called with its id.
UnregisterClosed(s, c) ==
  /\ phase[s] = "try" /\ pc[s] = "idle"
  /\ c \in tries[s]
  /\ c \in closed
  /\ tries' = [tries EXCEPT ![s] = @ \ {c}]
  /\ call' = [call EXCEPT ![s].user = MsgTo[hand[s]]]
  /\ Goto(s, "remove")
  /\ UNCHANGED <<mapVars, memoryVars, redisVars, toClose, serverVars>>
  /\ UNCHANGED <<sendVars, busVars, hand, phase, stale, deliveries, fate>>

\* No connection took the message.
GiveUp(s) ==
  /\ phase[s] = "try" /\ pc[s] = "idle"
  /\ tries[s] = {}
  /\ End(hand[s], "stored")
  /\ hand' = [hand EXCEPT ![s] = NoMsg]
  /\ phase' = [phase EXCEPT ![s] = "take"]
  /\ UNCHANGED <<sendVars, busVars, stale, tries, deliveries>>

ProcessMessage(s) ==
  \/ TakeMessage(s)
  \/ CollectConns(s)
  \/ \E c \in Conns : Deliver(s, c) \/ SkipFull(s, c)
  \/ GiveUp(s)

-----------------------------------------------------------------------------
(* The steps of ConnectionManager, and what they do to messages.           *)

\* The messages that go down with a server: those in its memory, on their way
\* to it, or being sent by it.
Held(s) ==
  {m \in Msgs : \/ \E i \in DOMAIN queue[s] : queue[s][i] = m
                \/ \E i \in DOMAIN channel[s] : channel[s][i] = m
                \/ hand[s] = m
                \/ MsgFrom[m] = s /\ progress[m] \notin {"new", "sent"}}

\* What a step of ConnectionManager does to the rest.  Between the two read
\* locks of processMessage the map it looked up follows the manager's until it
\* becomes empty, or Close drops it with what it holds: then it is detached.
Carried ==
  LET dead == {s \in Servers : stage[s] # "down" /\ stage'[s] = "down"}
      lost == UNION {Held(s) : s \in dead}
      After(s) == {c \in connections' : ConnServer[c] = s /\ ConnUser[c] = MsgTo[hand[s]]}
      Dropped(s) == stage[s] = "closing" /\ stage'[s] = "closed"
      Kept(f, none) == [s \in Servers |-> IF s \in dead THEN none ELSE f[s]]
  IN  /\ tries' = [s \in Servers |->
                     IF s \in dead THEN {}
                     ELSE IF phase[s] # "collect" \/ stale[s] \/ Dropped(s) THEN tries[s]
                     ELSE After(s)]
      /\ stale' = [s \in Servers |->
                     s \notin dead /\ phase[s] = "collect" /\ (stale[s] \/ After(s) = {})]
      /\ queue' = Kept(queue, << >>)
      /\ channel' = Kept(channel, << >>)
      /\ hand' = Kept(hand, NoMsg)
      /\ phase' = Kept(phase, "take")
      /\ fate' = [m \in Msgs |-> IF m \in lost THEN "lost" ELSE fate[m]]
      /\ progress' = [m \in Msgs |-> IF m \in lost THEN "sent" ELSE progress[m]]
      /\ UNCHANGED <<target, deliveries>>

\* The steps of ConnectionManager but for DropClosed, which UnregisterClosed is.
ManagerStep ==
  /\ \/ \E c \in Conns : Accept(c) \/ ReaderCloses(c) \/ HandlerStep(c)
     \/ \E s \in Servers : UnregisterConnection(s)
     \/ \E s \in StopServers : BeginStop(s) \/ StopStep(s)
     \/ \E s \in CrashServers : Crash(s)
     \/ \E s \in Servers : Restart(s)
     \/ \E u \in Users : RouteExpires(u)
  /\ Carried

RoutingStep ==
  /\ \/ \E m \in Msgs : SendMessage(m)
     \/ \E s \in Servers : Listen(s) \/ ProcessMessage(s)
  /\ UNCHANGED vars

RoutingNext ==
  /\ \/ ManagerStep
     \/ RoutingStep
     \/ \E s \in Servers, c \in Conns : UnregisterClosed(s, c)
  /\ KeepReachable

\* Every goroutine of the manager runs on: the reader that is in SendMessage,
\* the listener and the goroutine of Run, also through its unregistrations.
RoutingFairness ==
  /\ \A m \in Msgs : WF_allVars(SendMessage(m) /\ progress[m] # "new" /\ UNCHANGED vars /\ KeepReachable)
  /\ \A s \in Servers :
       /\ WF_allVars(Listen(s) /\ UNCHANGED vars /\ KeepReachable)
       /\ WF_allVars(ProcessMessage(s) /\ UNCHANGED vars /\ KeepReachable)
       /\ WF_allVars(\E c \in Conns : UnregisterClosed(s, c) /\ KeepReachable)
       /\ WF_allVars(UnregisterConnection(s) /\ Carried /\ KeepReachable)

RoutingSpec == RoutingInit /\ [][RoutingNext]_allVars
FairRoutingSpec == RoutingSpec /\ RoutingFairness

-----------------------------------------------------------------------------
(* Properties.                                                             *)

\* Every routing variable has its type, and a connection still to be tried
\* belongs to the recipient and to the server.
RoutingTypeOK ==
  /\ progress \in [Msgs -> {"new", "enqueue", "find", "get", "publish", "sent"}]
  /\ target \in [Msgs -> Servers \cup {NoServer}]
  /\ channel \in [Servers -> Seq(Msgs)]
  /\ queue \in [Servers -> Seq(Msgs)]
  /\ \A s \in Servers : Len(queue[s]) <= QueueCap
  /\ hand \in [Servers -> Msgs \cup {NoMsg}]
  /\ phase \in [Servers -> {"take", "collect", "try"}]
  /\ stale \in [Servers -> BOOLEAN]
  /\ tries \in [Servers -> SUBSET Conns]
  /\ deliveries \in Seq([msg : Msgs, conn : Conns])
  /\ fate \in [Msgs -> Fates]
  /\ reachable \in [Msgs -> SUBSET Conns]
  /\ \A s \in Servers : \A c \in tries[s] :
       hand[s] # NoMsg /\ ConnServer[c] = s /\ ConnUser[c] = MsgTo[hand[s]]

Occurrences(line, m) ==
  UNION {{<<s, i>> : i \in {j \in DOMAIN line[s] : line[s][j] = m}} : s \in Servers}

\* Where a message is.
Places(m) ==
  ({"channel"} \X Occurrences(channel, m)) \cup ({"queue"} \X Occurrences(queue, m))
    \cup ({"hand"} \X {s \in Servers : hand[s] = m})
    \cup ({"taken"} \X {i \in DOMAIN deliveries : deliveries[i].msg = m})

\* A message SendMessage has passed on is in exactly one place, a channel, a
\* queue, the hand of a goroutine of Run or one connection of the recipient,
\* unless it came to an end, and then it is nowhere: retrying a message on the
\* recipient's connections neither doubles it nor drops it unseen.
OnePlace ==
  \A m \in Msgs :
    LET places == Places(m)
    IN  IF progress[m] = "sent" /\ fate[m] = "none"
          THEN \E p \in places : places = {p}
          ELSE places = {}

\* The recipient uses one server only, and neither the sender's server nor that
\* one is told to stop.
OneServer(m) ==
  \A c, d \in Conns : ConnUser[c] = MsgTo[m] /\ ConnUser[d] = MsgTo[m] => ConnServer[c] = ConnServer[d]
NoStop(m) ==
  /\ MsgFrom[m] \notin StopServers
  /\ \A c \in Conns : ConnUser[c] = MsgTo[m] => ConnServer[c] \notin StopServers

\* A message is not given up for want of a connection while one connection of
\* the recipient was open and reachable all the way from the call of
\* SendMessage: neither the two looks at the local set, nor the two read locks
\* of processMessage, nor the unregistration of closed connections in the
\* middle of it lose the message.  This is for a recipient that uses one
\* server, servers with Redis that are not stopped (they may crash), and send
\* buffers that take what they are given.
NoLossWhileReachable ==
  \A m \in Msgs :
    /\ fate[m] \in {"stored", "unheard", "notHere"}
    /\ RedisEnabled /\ ~RedisMayFail /\ ~BuffersFill
    /\ OneServer(m) /\ NoStop(m)
    => reachable[m] = {}

\* Two messages of one sender to one recipient that went the same way, through
\* the local queue or through the channel of the same server, reach the
\* recipient in the order in which they were sent.
SameWayInOrder ==
  \A i, j \in DOMAIN deliveries :
    LET m == deliveries[i].msg
        n == deliveries[j].msg
    IN  i < j /\ MsgFrom[m] = MsgFrom[n] /\ MsgTo[m] = MsgTo[n] /\ target[m] = target[n]
          => m < n

\* A message whose sending has begun is handed to a connection or comes to an
\* end: the goroutine of Run never hangs in the unregistrations it makes.
EveryMessageSettles ==
  \A m \in Msgs :
    progress[m] # "new"
      ~> fate[m] # "none" \/ \E i \in DOMAIN deliveries : deliveries[i].msg = m

\* The manager with its messages does nothing to connections, registry and
\* status that ConnectionManager does not allow: the unregistration that
\* processMessage makes is its DropClosed.
ImplementsManager == Spec
=============================================================================
