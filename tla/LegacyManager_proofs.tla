------------------------- MODULE LegacyManager_proofs -------------------------
(***************************************************************************)
(* Proofs about the first connection manager, for every number of servers, *)
(* users, connections, messages and copies of them: its two maps, its sets *)
(* in Redis, and the rows of the messages it could not deliver.  They are  *)
(* proved of StoreSpec, where the handlers run together with the messages  *)
(* and the goroutines that resend them.                                    *)
(***************************************************************************)
EXTENDS OfflineStore, SequenceTheorems, TLAPS

\* The steps that LegacyManager describes, as OfflineStore takes them.
Moves ==
  \/ ClientStep
  \/ \E p \in Procs : UnregisterConnection(p)
  \/ \E c \in Conns : RegisterConnection(c) \/ Leave(c)
  \/ \E s \in Servers : CloseManager(s) \/ ProcessGone(s) \/ BeginDrop(s, Recipient(s))

-----------------------------------------------------------------------------
(* What the messages do leaves the manager alone, but for a drop or a      *)
(* panic of processMessage.                                                *)

\* Sending a message, receiving it from Redis and resending what was stored
\* change nothing of the manager's.
LEMMA SendersLeaveMaps ==
  ASSUME \/ \E m \in Msgs : HandleMessage(m)
         \/ \E s \in Servers : Receive(s)
         \/ \E c \in Conns : SendOfflineMessages(c)
  PROVE  UNCHANGED vars
<1>1. ASSUME NEW m \in Msgs, HandleMessage(m) PROVE UNCHANGED vars
  BY <1>1 DEF HandleMessage, SaveChat, SendChat, Answer, SendPublish, SendMessage
<1>2. ASSUME NEW s \in Servers, Receive(s) PROVE UNCHANGED vars
  BY <1>2 DEF Receive
<1>3. ASSUME NEW c \in Conns, SendOfflineMessages(c) PROVE UNCHANGED vars
  BY <1>3 DEF SendOfflineMessages, Query, ResendEnqueue, ResendPublish, Mark
<1> QED
  BY <1>1, <1>2, <1>3

\* A step of processMessage unregisters the recipient's connections, or ends
\* the process, or changes nothing of the manager's.
LEMMA ProcessMessageMoves ==
  ASSUME NEW s \in Servers, ProcessMessage(s)
  PROVE  BeginDrop(s, Recipient(s)) \/ ProcessGone(s) \/ UNCHANGED vars
<1>1. CASE PassClosed(s)
  BY <1>1 DEF PassClosed
<1>2. CASE Panic(s)
  BY <1>2 DEF Panic
<1>3. CASE Take(s) \/ Collect(s) \/ Deliver(s) \/ PassFull(s) \/ Store(s)
  BY <1>3 DEF Take, Collect, Deliver, PassFull, Store
<1> QED
  BY <1>1, <1>2, <1>3 DEF ProcessMessage

\* Every step of the composition is a step of the manager or leaves it alone.
LEMMA StoreSteps ==
  ASSUME [StoreNext]_allVars
  PROVE  [Moves]_vars
<1>1. CASE ManagerStep
  <2>1. ASSUME NEW c \in Conns, HandlerStep(c) PROVE Moves
    BY <2>1 DEF Moves, HandlerStep, Procs
  <2>2. ASSUME NEW s \in Servers, UnregisterConnection(s) PROVE Moves
    BY <2>2 DEF Moves, Procs
  <2>3. ASSUME NEW s \in StopServers, CloseManager(s) PROVE Moves
    BY <2>3, FlagAssumption DEF Moves
  <2> QED
    BY <1>1, <2>1, <2>2, <2>3 DEF ManagerStep, Moves
<1>2. CASE \E s \in Servers : ProcessMessage(s)
  BY <1>2, ProcessMessageMoves DEF Moves
<1>3. CASE UNCHANGED allVars
  BY <1>3 DEF allVars
<1>4. CASE \/ \E m \in Msgs : HandleMessage(m)
           \/ \E s \in Servers : Receive(s)
           \/ \E c \in Conns : SendOfflineMessages(c)
  BY <1>4, SendersLeaveMaps
<1> QED
  BY <1>1, <1>2, <1>3, <1>4 DEF StoreNext

-----------------------------------------------------------------------------
(* The goroutines: how far each is, and what it unregisters.               *)

\* A handler always unregisters connections of its own user.  A connection in the
\* map has a handler, and without Redis nothing is ever entered there.
HandlerInv ==
  /\ pc \in [Procs -> Steps]
  /\ DOMAIN call = Procs
  /\ \A c \in Conns : call[c] \in [user : {ConnUser[c]}, type : ConnTypes]
  /\ connections \subseteq Conns
  /\ \A c \in connections : pc[c] # "idle"
  /\ life \in [Servers -> {"up", "closed", "down"}]
  /\ ~RedisEnabled => /\ userConns = {} /\ onlineUsers = {}
                      /\ \A c \in Conns : pc[c] \notin {"member", "listed"}

\* No handler runs in the beginning.
LEMMA HandlerInit ==
  ASSUME Init
  PROVE  HandlerInv
BY NameAssumption, ConnAssumption DEF Init, HandlerInv, Procs, Steps, RegisterSteps, UnregisterSteps

\* A goroutine that unregisters stays busy, or is a goroutine of Run.
LEMMA UnregisterKeepsHandlers ==
  ASSUME HandlerInv, NEW p \in Procs, UnregisterConnection(p)
  PROVE  HandlerInv'
<1> USE DEF HandlerInv, Procs, Steps, RegisterSteps, UnregisterSteps, Goto, AfterClose
<1>1. CASE Remove(p)
  BY <1>1 DEF Remove, redisVars
<1>2. CASE CloseRemoved(p)
  BY <1>2 DEF CloseRemoved, redisVars
<1>3. CASE DeleteMember(p)
  BY <1>3 DEF DeleteMember, mapVars
<1>4. CASE DeleteListed(p)
  BY <1>4 DEF DeleteListed, mapVars
<1>5. ASSUME UNCHANGED <<connections, userConns, onlineUsers, life>>, Return(p)
      PROVE  HandlerInv'
  BY <1>5, NameAssumption DEF Return
<1>6. CASE CheckOthers(p)
  BY <1>5, <1>6 DEF CheckOthers, mapVars, redisVars
<1>7. CASE MarkOffline(p)
  BY <1>5, <1>7 DEF MarkOffline, mapVars, redisVars
<1> QED
  BY <1>1, <1>2, <1>3, <1>4, <1>6, <1>7 DEF UnregisterConnection

\* A connection enters the map by its handler and a process ends with its map.
LEMMA HandlerKept ==
  ASSUME HandlerInv, [Moves]_vars
  PROVE  HandlerInv'
<1> USE DEF HandlerInv, Procs, Steps, RegisterSteps, UnregisterSteps, Goto
<1>1. CASE ClientStep
  BY <1>1 DEF ClientStep, Accept, ReaderCloses, mapVars, redisVars, procVars, ConnTypes
<1>2. CASE \E p \in Procs : UnregisterConnection(p)
  BY <1>2, UnregisterKeepsHandlers
<1>3. ASSUME NEW c \in Conns, RegisterConnection(c) PROVE HandlerInv'
  BY <1>3 DEF RegisterConnection, AddConnection, AddMember, AddListed, MarkOnline,
              mapVars, redisVars
<1>4. ASSUME NEW c \in Conns, Leave(c) PROVE HandlerInv'
  BY <1>4, ConnAssumption DEF Leave, mapVars, redisVars
<1>5. ASSUME NEW s \in Servers, CloseManager(s) PROVE HandlerInv'
  BY <1>5 DEF CloseManager, redisVars, procVars
<1>6. ASSUME NEW s \in Servers, ProcessGone(s) PROVE HandlerInv'
  BY <1>6, NameAssumption DEF ProcessGone, redisVars
<1>7. ASSUME NEW s \in Servers, BeginDrop(s, Recipient(s)) PROVE HandlerInv'
  BY <1>7, NameAssumption DEF BeginDrop, mapVars, redisVars
<1>8. CASE UNCHANGED vars
  BY <1>8 DEF vars
<1> QED
  BY <1>1, <1>2, <1>3, <1>4, <1>5, <1>6, <1>7, <1>8 DEF Moves

-----------------------------------------------------------------------------
(* The two maps.                                                           *)

MapInv ==
  /\ connections \subseteq Conns
  /\ newest \in [Servers \X Users \X ConnTypes -> Conns \cup {NoConn}]
  /\ NewestIsHeld

\* Both maps are empty in the beginning.
LEMMA MapInit ==
  ASSUME Init
  PROVE  MapInv
BY DEF Init, MapInv, NewestIsHeld, OfType, UserConns

\* A removal by user and type empties both maps at the same place.
LEMMA RemoveKeepsMaps ==
  ASSUME MapInv, NEW p \in Procs, Remove(p)
  PROVE  MapInv'
<1> DEFINE S == ServerOf(p)
           U == call[p].user
           T == call[p].type
           gone == OfType(S, U, T)
<1>1. /\ connections' = connections \ gone
      /\ newest' = [k \in DOMAIN newest |-> IF k = <<S, U, T>> THEN NoConn ELSE newest[k]]
  BY DEF Remove
<1>2. connections' \subseteq Conns
  BY <1>1 DEF MapInv
<1>3. newest' \in [Servers \X Users \X ConnTypes -> Conns \cup {NoConn}]
  BY <1>1 DEF MapInv
<1>4. ASSUME NEW s \in Servers, NEW u \in Users, NEW t \in ConnTypes
      PROVE  IF OfType(s, u, t)' = {} THEN newest'[<<s, u, t>>] = NoConn
                                      ELSE newest'[<<s, u, t>>] \in OfType(s, u, t)'
  <2>1. newest'[<<s, u, t>>] = IF s = S /\ u = U /\ t = T THEN NoConn ELSE newest[<<s, u, t>>]
    <3>1. <<s, u, t>> \in DOMAIN newest
      BY DEF MapInv
    <3> QED
      BY <1>1, <3>1
  <2>2. CASE s = S /\ u = U /\ t = T
    <3>1. OfType(s, u, t)' = {}
      BY <1>1, <2>2 DEF OfType, UserConns
    <3> QED
      BY <2>1, <2>2, <3>1
  <2>3. CASE ~(s = S /\ u = U /\ t = T)
    <3>1. OfType(s, u, t)' = OfType(s, u, t)
      BY <1>1, <2>3 DEF OfType, UserConns
    <3> QED
      BY <2>1, <2>3, <3>1 DEF MapInv, NewestIsHeld
  <2> QED
    BY <2>2, <2>3
<1> QED
  BY <1>2, <1>3, <1>4 DEF MapInv, NewestIsHeld

\* A registration enters the connection in both maps.
LEMMA AddKeepsMaps ==
  ASSUME MapInv, NEW c \in Conns, AddConnection(c)
  PROVE  MapInv'
<1>1. /\ connections' = connections \cup {c}
      /\ newest' = [newest EXCEPT ![<<ConnServer[c], ConnUser[c], ConnType[c]>>] = c]
  BY DEF AddConnection
<1>2. ConnServer[c] \in Servers /\ ConnUser[c] \in Users /\ ConnType[c] \in ConnTypes
  BY ConnAssumption
<1>3. newest' \in [Servers \X Users \X ConnTypes -> Conns \cup {NoConn}]
  BY <1>1, <1>2 DEF MapInv
<1>4. ASSUME NEW s \in Servers, NEW u \in Users, NEW t \in ConnTypes
      PROVE  IF OfType(s, u, t)' = {} THEN newest'[<<s, u, t>>] = NoConn
                                      ELSE newest'[<<s, u, t>>] \in OfType(s, u, t)'
  <2>1. <<s, u, t>> \in DOMAIN newest
    BY DEF MapInv
  <2>2. CASE s = ConnServer[c] /\ u = ConnUser[c] /\ t = ConnType[c]
    <3>1. newest'[<<s, u, t>>] = c
      BY <1>1, <2>1, <2>2
    <3>2. c \in OfType(s, u, t)'
      BY <1>1, <2>2 DEF OfType, UserConns
    <3> QED
      BY <3>1, <3>2
  <2>3. CASE ~(s = ConnServer[c] /\ u = ConnUser[c] /\ t = ConnType[c])
    <3>1. newest'[<<s, u, t>>] = newest[<<s, u, t>>]
      BY <1>1, <2>1, <2>3
    <3>2. OfType(s, u, t)' = OfType(s, u, t)
      BY <1>1, <2>3 DEF OfType, UserConns
    <3> QED
      BY <3>1, <3>2 DEF MapInv, NewestIsHeld
  <2> QED
    BY <2>2, <2>3
<1> QED
  BY <1>1, <1>3, <1>4 DEF MapInv, NewestIsHeld

\* The end of a manager or of its process empties both maps of that server.
LEMMA EndKeepsMaps ==
  ASSUME MapInv, NEW s \in Servers, CloseManager(s) \/ ProcessGone(s),
         HandlerInv
  PROVE  MapInv'
<1>1. newest' = [k \in DOMAIN newest |-> IF k[1] = s THEN NoConn ELSE newest[k]]
  BY DEF CloseManager, ProcessGone
<1>2. connections' = {c \in connections : ConnServer[c] # s}
  BY DEF CloseManager, ProcessGone, MapInv, HandlerInv
<1>3. newest' \in [Servers \X Users \X ConnTypes -> Conns \cup {NoConn}]
  BY <1>1 DEF MapInv
<1>4. ASSUME NEW r \in Servers, NEW u \in Users, NEW t \in ConnTypes
      PROVE  IF OfType(r, u, t)' = {} THEN newest'[<<r, u, t>>] = NoConn
                                      ELSE newest'[<<r, u, t>>] \in OfType(r, u, t)'
  <2>1. newest'[<<r, u, t>>] = IF r = s THEN NoConn ELSE newest[<<r, u, t>>]
    <3>1. <<r, u, t>> \in DOMAIN newest
      BY DEF MapInv
    <3> QED
      BY <1>1, <3>1
  <2>2. OfType(r, u, t)' = IF r = s THEN {} ELSE OfType(r, u, t)
    BY <1>2 DEF OfType, UserConns
  <2> QED
    BY <2>1, <2>2 DEF MapInv, NewestIsHeld
<1> QED
  BY <1>2, <1>3, <1>4 DEF MapInv, NewestIsHeld

\* Every step changes both maps, or neither.
LEMMA MapKept ==
  ASSUME MapInv, HandlerInv, [Moves]_vars
  PROVE  MapInv'
<1>1. ASSUME UNCHANGED <<connections, newest>> PROVE MapInv'
  BY <1>1 DEF MapInv, NewestIsHeld, OfType, UserConns
<1>2. CASE ClientStep
  BY <1>1, <1>2 DEF ClientStep, Accept, ReaderCloses, mapVars
<1>3. ASSUME NEW p \in Procs, UnregisterConnection(p) PROVE MapInv'
  BY <1>1, <1>3, RemoveKeepsMaps DEF UnregisterConnection, CloseRemoved,
     DeleteMember, DeleteListed, CheckOthers, MarkOffline, mapVars
<1>4. ASSUME NEW c \in Conns, RegisterConnection(c) \/ Leave(c) PROVE MapInv'
  BY <1>1, <1>4, AddKeepsMaps DEF RegisterConnection, AddMember, AddListed,
     MarkOnline, Leave, mapVars
<1>5. ASSUME NEW s \in Servers, CloseManager(s) \/ ProcessGone(s) PROVE MapInv'
  BY <1>5, EndKeepsMaps
<1>6. ASSUME NEW s \in Servers, BeginDrop(s, Recipient(s)) PROVE MapInv'
  BY <1>1, <1>6 DEF BeginDrop, mapVars
<1>7. CASE UNCHANGED vars
  BY <1>1, <1>7 DEF vars
<1> QED
  BY <1>2, <1>3, <1>4, <1>5, <1>6, <1>7 DEF Moves

\* On every server, however the handlers of a user, the drops of processMessage and
\* the end of the manager interleave, connectionsByType names a connection that
\* the map of connections has, and has an entry whenever that map has one.
THEOREM MapsAgree == StoreSpec => []NewestIsHeld
<1>1. StoreInit => HandlerInv /\ MapInv
  BY HandlerInit, MapInit DEF StoreInit
<1>2. HandlerInv /\ MapInv /\ [StoreNext]_allVars => (HandlerInv /\ MapInv)'
  BY StoreSteps, HandlerKept, MapKept
<1>3. HandlerInv /\ MapInv => NewestIsHeld
  BY DEF MapInv
<1> QED
  BY <1>1, <1>2, <1>3, PTL DEF StoreSpec

-----------------------------------------------------------------------------
(* The entries in Redis.                                                   *)

\* The promise of NoGhostEntry is about servers and a Redis that have not failed.
Calm == ~RedisMayFail /\ \A s \in Servers : life[s] = "up"

\* The connections that Owned looks for.
Owners(u, t, registering, leaving) ==
  {c \in Conns :
    /\ ConnUser[c] = u /\ ConnType[c] = t
    /\ \/ pc[c] \in registering \cup {"online", "serve"}
       \/ pc[c] \in leaving /\ call[c].type = t}

MemberOwners(u, t) == Owners(u, t, {"listed"}, {"remove", "close", "delmember"})
ListedOwners(u, t) == Owners(u, t, {}, {"remove", "close", "delmember", "dellisted"})

EntryOwned(u, t) ==
  /\ <<u, t>> \in userConns => MemberOwners(u, t) # {}
  /\ <<u, t>> \in onlineUsers => ListedOwners(u, t) # {}

EntriesOwned == \A u \in Users, t \in ConnTypes : EntryOwned(u, t)

\* NoGhostEntry says that in calm every entry is owned.
LEMMA GhostIsOwned == NoGhostEntry <=> (Calm => EntriesOwned)
BY DEF NoGhostEntry, Calm, EntriesOwned, EntryOwned, MemberOwners, ListedOwners,
       Owners, Owned

\* A step after which all is calm was taken in calm.
LEMMA CalmBefore ==
  ASSUME HandlerInv, [Moves]_vars, Calm'
  PROVE  Calm /\ ~(\E s \in Servers : CloseManager(s) \/ ProcessGone(s))
<1>1. \A s \in Servers : ~CloseManager(s) /\ ~ProcessGone(s)
  BY DEF HandlerInv, Calm, CloseManager, ProcessGone
<1>2. life' = life
  BY <1>1 DEF Moves, ClientStep, Accept, ReaderCloses, UnregisterConnection, Remove,
     CloseRemoved, DeleteMember, DeleteListed, CheckOthers, MarkOffline,
     RegisterConnection, AddConnection, AddMember, AddListed, MarkOnline, Leave,
     BeginDrop, vars
<1> QED
  BY <1>1, <1>2 DEF Calm

\* An entry that is there after a step either was there, or its handler is writing
\* it; and a handler that owns it stays its owner unless it removes it.
LEMMA EntriesKept ==
  ASSUME HandlerInv, Calm, Calm', EntriesOwned, [Moves]_vars
  PROVE  EntriesOwned'
<1>1. SUFFICES ASSUME NEW u \in Users, NEW t \in ConnTypes
               PROVE  EntryOwned(u, t)'
  BY DEF EntriesOwned
<1> DEFINE M == MemberOwners(u, t)
           L == ListedOwners(u, t)
<1>2. /\ <<u, t>> \in userConns => M # {}
      /\ <<u, t>> \in onlineUsers => L # {}
  BY DEF EntriesOwned, EntryOwned
<1>3. \A s \in Servers : RedisAnswers(s) /\ ~RedisFails(s)
  BY DEF Calm, RedisAnswers, RedisFails
<1>4. \A p \in Procs : ServerOf(p) \in Servers
  BY ConnAssumption DEF Procs, ServerOf
<1>5. ASSUME UNCHANGED redisVars, M \subseteq M', L \subseteq L'
      PROVE  EntryOwned(u, t)'
  <2>1. UNCHANGED <<userConns, onlineUsers>>
    BY <1>5 DEF redisVars
  <2> QED
    BY <1>2, <1>5, <2>1 DEF EntryOwned
<1> USE DEF MemberOwners, ListedOwners, Owners, HandlerInv, Procs, Goto
<1>6. CASE ClientStep
  BY <1>5, <1>6 DEF ClientStep, Accept, ReaderCloses, procVars
<1>7. ASSUME NEW p \in Procs, UnregisterConnection(p)
      PROVE  EntryOwned(u, t)'
  <2>1. CASE Remove(p)
    <3>1. CASE RedisEnabled
      <4>1. M \subseteq M' /\ L \subseteq L'
        BY <2>1, <3>1 DEF Remove, AfterClose
      <4> QED
        BY <1>5, <2>1, <4>1 DEF Remove
    <3>2. CASE ~RedisEnabled
      BY <2>1, <3>2 DEF Remove, EntryOwned, redisVars
    <3> QED
      BY <3>1, <3>2
  <2>2. CASE CloseRemoved(p)
    <3>1. CASE RedisEnabled
      <4>1. M \subseteq M' /\ L \subseteq L'
        BY <2>2, <3>1 DEF CloseRemoved, AfterClose
      <4> QED
        BY <1>5, <2>2, <4>1 DEF CloseRemoved
    <3>2. CASE ~RedisEnabled
      BY <2>2, <3>2 DEF CloseRemoved, EntryOwned, redisVars
    <3> QED
      BY <3>1, <3>2
  <2>3. CASE DeleteMember(p)
    <3>1. userConns' = userConns \ {Entry(p)} /\ onlineUsers' = onlineUsers
      BY <1>3, <1>4, <2>3 DEF DeleteMember
    <3>2. L \subseteq L'
      BY <2>3 DEF DeleteMember
    <3>3. <<u, t>> # Entry(p) => M \subseteq M'
      BY <2>3 DEF DeleteMember, Entry
    <3> QED
      BY <1>2, <3>1, <3>2, <3>3 DEF EntryOwned
  <2>4. CASE DeleteListed(p)
    <3>1. onlineUsers' = onlineUsers \ {Entry(p)} /\ userConns' = userConns
      BY <1>3, <1>4, <2>4 DEF DeleteListed
    <3>2. M \subseteq M'
      BY <2>4 DEF DeleteListed
    <3>3. <<u, t>> # Entry(p) => L \subseteq L'
      BY <2>4 DEF DeleteListed, Entry
    <3> QED
      BY <1>2, <3>1, <3>2, <3>3 DEF EntryOwned
  <2>5. CASE CheckOthers(p)
    BY <1>5, <2>5, NameAssumption DEF CheckOthers, Return
  <2>6. CASE MarkOffline(p)
    BY <1>5, <2>6, NameAssumption DEF MarkOffline, Return
  <2> QED
    BY <1>7, <2>1, <2>2, <2>3, <2>4, <2>5, <2>6 DEF UnregisterConnection
<1>8. ASSUME NEW d \in Conns, RegisterConnection(d)
      PROVE  EntryOwned(u, t)'
  <2>1. CASE AddConnection(d)
    BY <1>5, <2>1 DEF AddConnection
  <2>2. CASE AddMember(d)
    <3>1. M \subseteq M' /\ L \subseteq L'
      BY <2>2 DEF AddMember
    <3>2. /\ userConns' \subseteq userConns \cup {<<ConnUser[d], ConnType[d]>>}
          /\ onlineUsers' = onlineUsers
      BY <2>2 DEF AddMember
    <3>3. u = ConnUser[d] /\ t = ConnType[d] => d \in M'
      BY <2>2 DEF AddMember
    <3> QED
      BY <1>2, <3>1, <3>2, <3>3 DEF EntryOwned
  <2>3. CASE AddListed(d)
    <3>1. M \subseteq M' /\ L \subseteq L'
      BY <2>3 DEF AddListed
    <3>2. /\ onlineUsers' \subseteq onlineUsers \cup {<<ConnUser[d], ConnType[d]>>}
          /\ userConns' = userConns
      BY <2>3 DEF AddListed
    <3>3. u = ConnUser[d] /\ t = ConnType[d] => d \in L'
      BY <2>3 DEF AddListed
    <3> QED
      BY <1>2, <3>1, <3>2, <3>3 DEF EntryOwned
  <2>4. CASE MarkOnline(d)
    BY <1>5, <2>4 DEF MarkOnline
  <2> QED
    BY <1>8, <2>1, <2>2, <2>3, <2>4 DEF RegisterConnection
<1>9. ASSUME NEW c \in Conns, Leave(c)
      PROVE  EntryOwned(u, t)'
  BY <1>5, <1>9 DEF Leave
<1>10. ASSUME NEW s \in Servers, BeginDrop(s, Recipient(s))
       PROVE  EntryOwned(u, t)'
  BY <1>5, <1>10, NameAssumption DEF BeginDrop
<1>11. CASE UNCHANGED vars
  BY <1>5, <1>11 DEF vars, redisVars
<1> QED
  BY <1>6, <1>7, <1>8, <1>9, <1>10, <1>11, CalmBefore DEF Moves

\* What Redis holds about a user and a type has a handler that will remove it,
\* for any number of handlers, on any number of servers, that write and remove
\* each other's entries.
THEOREM EntriesHaveOwner == StoreSpec => []NoGhostEntry
<1>1. StoreInit => HandlerInv /\ NoGhostEntry
  BY HandlerInit DEF StoreInit, Init, NoGhostEntry
<1>2. HandlerInv /\ NoGhostEntry /\ [StoreNext]_allVars => (HandlerInv /\ NoGhostEntry)'
  <2>1. SUFFICES ASSUME HandlerInv, NoGhostEntry, [StoreNext]_allVars
                 PROVE  HandlerInv' /\ NoGhostEntry'
    OBVIOUS
  <2>2. [Moves]_vars
    BY <2>1, StoreSteps
  <2>3. HandlerInv'
    BY <2>1, <2>2, HandlerKept
  <2>4. ASSUME Calm' PROVE EntriesOwned'
    BY <2>1, <2>2, <2>4, CalmBefore, EntriesKept, GhostIsOwned
  <2>5. NoGhostEntry'
    <3>1. (NoGhostEntry <=> (Calm => EntriesOwned))'
      BY DEF NoGhostEntry, Calm, EntriesOwned, EntryOwned, MemberOwners, ListedOwners,
             Owners, Owned
    <3> QED
      BY <2>4, <3>1
  <2> QED
    BY <2>3, <2>5
<1> QED
  BY <1>1, <1>2, PTL DEF StoreSpec

-----------------------------------------------------------------------------
(* The messages: what is in the table, in the queues and in hand.          *)

StoreTypes ==
  /\ sending \in [Msgs -> {"new", "saved", "refused", "publish", "sent"}]
  /\ rows \subseteq [id : Ids, msg : Msgs, status : {"saved", "unsent", "sent"}]
  /\ queue \in [Servers -> Seq(Copies)]
  /\ pending \in [Servers -> Seq(Copies)]
  /\ \A s \in Servers : Len(queue[s]) <= QueueCap
  /\ hand \in [Servers -> Copies \cup {NoCopy}]
  /\ phase \in [Servers -> {"take", "collect", "try"}]
  /\ resend \in [Conns -> [at : {"idle", "query", "enqueue", "publish", "mark", "done"},
                           todo : SUBSET Ids, listed : SUBSET Ids, now : Ids \cup {NoId}]]

\* A goroutine of Run has a copy in hand while it works on one.
HandOK == \A s \in Servers : hand[s] = NoCopy <=> phase[s] = "take"

\* A row with the id of a message is that message, and no id is given twice.
RowsOK ==
  /\ \A r \in rows : r.id \in Msgs => r.msg = r.id
  /\ \A r, q \in rows : r.id = q.id => r.msg = q.msg

\* A goroutine resends what is in the table, and marks when nothing is left to do.
ResendOK ==
  \A c \in Conns : /\ resend[c].todo \subseteq UsedIds
                   /\ resend[c].listed \subseteq UsedIds
                   /\ resend[c].at = "publish" => resend[c].now \in UsedIds
                   /\ resend[c].at = "mark" => resend[c].todo = {}

TableInv == HandlerInv /\ StoreTypes /\ HandOK /\ RowsOK /\ ResendOK

\* A client's message that goes out has been saved.
SavedOK == \A m \in Msgs : sending[m] = "saved" => m \in UsedIds

\* What happens to the table in one step: a row is never taken away; one row is
\* added, of a message that is being saved or with a new id; or the rows that a
\* goroutine has listed are marked.
RowKept(r, table) == \E q \in table : q.id = r.id /\ q.msg = r.msg
Saved(m) == rows' = rows \cup {[id |-> m, msg |-> m, status |-> "saved"]}
Stored(m, i) == rows' = rows \cup {[id |-> i, msg |-> m, status |-> "unsent"]}
Marked(c) == rows' = {IF r.id \in resend[c].listed THEN [r EXCEPT !.status = "sent"] ELSE r : r \in rows}

\* What a step does to the table, and which step does it.
LEMMA RowSteps ==
  ASSUME TableInv, [StoreNext]_allVars
  PROVE  \/ UNCHANGED rows
         \/ \E m \in Msgs : SaveChat(m) /\ Saved(m)
         \/ \E s \in Servers : \E i \in FreshIds \ UsedIds :
              /\ Store(s) /\ hand[s] \in Copies /\ hand[s].id = NoId
              /\ Stored(hand[s].msg, i)
         \/ \E c \in Conns : Mark(c) /\ Marked(c)
<1>1. ASSUME NEW m \in Msgs, HandleMessage(m)
      PROVE  UNCHANGED rows \/ (SaveChat(m) /\ Saved(m))
  BY <1>1 DEF HandleMessage, SaveChat, SendChat, Answer, SendPublish, SendMessage, Saved
<1>2. ASSUME NEW s \in Servers, ProcessMessage(s)
      PROVE  \/ UNCHANGED rows
             \/ \E i \in FreshIds \ UsedIds :
                  /\ Store(s) /\ hand[s] \in Copies /\ hand[s].id = NoId
                  /\ Stored(hand[s].msg, i)
  <2>1. CASE Store(s) /\ ~UNCHANGED rows
    <3>1. hand[s] \in Copies
      BY <2>1 DEF Store, Working, TableInv, StoreTypes, HandOK
    <3>2. /\ hand[s].id = NoId /\ FreshIds \ UsedIds # {}
          /\ rows' = rows \cup {Unsent(NewId, hand[s])}
      BY <2>1 DEF Store
    <3>3. NewId \in FreshIds \ UsedIds
      BY <3>2 DEF NewId
    <3> QED
      BY <2>1, <3>1, <3>2, <3>3 DEF Stored, Unsent
  <2> QED
    BY <1>2, <2>1 DEF ProcessMessage, Take, Collect, Deliver, PassFull, PassClosed, Panic
<1>3. ASSUME NEW c \in Conns, SendOfflineMessages(c)
      PROVE  UNCHANGED rows \/ (Mark(c) /\ Marked(c))
  BY <1>3 DEF SendOfflineMessages, Query, ResendEnqueue, ResendPublish, Mark, Marked
<1>4. ManagerStep => UNCHANGED rows
  BY DEF ManagerStep, Carried
<1>5. \A s \in Servers : Receive(s) => UNCHANGED rows
  BY DEF Receive
<1> QED
  BY <1>1, <1>2, <1>3, <1>4, <1>5 DEF StoreNext, allVars, msgVars

\* Every row after a step was there, or its id is new.
LEMMA RowsAfter ==
  ASSUME TableInv, [StoreNext]_allVars
  PROVE  /\ rows' \subseteq [id : Ids, msg : Msgs, status : {"saved", "unsent", "sent"}]
         /\ RowsOK'
         /\ \A r \in rows : RowKept(r, rows')
         /\ \A r \in rows' : ~RowKept(r, rows) => r.id \notin UsedIds /\ r.status # "sent"
         /\ \A r \in rows' : r.status = "sent" =>
              \E q \in rows : /\ q.id = r.id /\ q.msg = r.msg
                              /\ \/ q.status = "sent"
                                 \/ \E c \in Conns : Mark(c) /\ q.id \in resend[c].listed
<1>0. /\ rows \subseteq [id : Ids, msg : Msgs, status : {"saved", "unsent", "sent"}]
      /\ RowsOK
  BY DEF TableInv, StoreTypes
<1>1. CASE UNCHANGED rows
  BY <1>0, <1>1 DEF RowsOK, RowKept
<1>2. ASSUME NEW m \in Msgs, Saved(m)
      PROVE  /\ rows' \subseteq [id : Ids, msg : Msgs, status : {"saved", "unsent", "sent"}]
             /\ RowsOK'
             /\ \A r \in rows : RowKept(r, rows')
             /\ \A r \in rows' : ~RowKept(r, rows) => r.id \notin UsedIds /\ r.status # "sent"
             /\ \A r \in rows' : r.status = "sent" =>
                  \E q \in rows : q.id = r.id /\ q.msg = r.msg /\ q.status = "sent"
  <2>1. m \in UsedIds => \E q \in rows : q.id = m /\ q.msg = m
    BY <1>0, <1>2 DEF UsedIds, RowsOK
  <2>2. rows' \subseteq [id : Ids, msg : Msgs, status : {"saved", "unsent", "sent"}]
    BY <1>0, <1>2 DEF Saved, Ids
  <2>3. RowsOK'
    BY <1>0, <1>2 DEF Saved, RowsOK
  <2>4. /\ \A r \in rows : RowKept(r, rows')
        /\ \A r \in rows' : ~RowKept(r, rows) => r.id \notin UsedIds /\ r.status # "sent"
        /\ \A r \in rows' : r.status = "sent" =>
             \E q \in rows : q.id = r.id /\ q.msg = r.msg /\ q.status = "sent"
    BY <1>0, <1>2, <2>1 DEF Saved, RowKept
  <2> QED
    BY <2>2, <2>3, <2>4
<1>3. ASSUME NEW m \in Msgs, NEW i \in FreshIds \ UsedIds, Stored(m, i)
      PROVE  /\ rows' \subseteq [id : Ids, msg : Msgs, status : {"saved", "unsent", "sent"}]
             /\ RowsOK'
             /\ \A r \in rows : RowKept(r, rows')
             /\ \A r \in rows' : ~RowKept(r, rows) => r.id \notin UsedIds /\ r.status # "sent"
             /\ \A r \in rows' : r.status = "sent" =>
                  \E q \in rows : q.id = r.id /\ q.msg = r.msg /\ q.status = "sent"
  <2>1. i \notin Msgs /\ \A r \in rows : r.id # i
    BY MsgAssumption DEF UsedIds
  <2>2. rows' \subseteq [id : Ids, msg : Msgs, status : {"saved", "unsent", "sent"}]
    BY <1>0, <1>3 DEF Stored, Ids
  <2>3. RowsOK'
    BY <1>0, <1>3, <2>1 DEF Stored, RowsOK
  <2>4. /\ \A r \in rows : RowKept(r, rows')
        /\ \A r \in rows' : ~RowKept(r, rows) => r.id \notin UsedIds /\ r.status # "sent"
        /\ \A r \in rows' : r.status = "sent" =>
             \E q \in rows : q.id = r.id /\ q.msg = r.msg /\ q.status = "sent"
    BY <1>0, <1>3 DEF Stored, RowKept
  <2> QED
    BY <2>2, <2>3, <2>4
<1>4. ASSUME NEW c \in Conns, Mark(c), Marked(c)
      PROVE  /\ rows' \subseteq [id : Ids, msg : Msgs, status : {"saved", "unsent", "sent"}]
             /\ RowsOK'
             /\ \A r \in rows : RowKept(r, rows')
             /\ \A r \in rows' : RowKept(r, rows)
             /\ \A r \in rows' : r.status = "sent" =>
                  \E q \in rows : /\ q.id = r.id /\ q.msg = r.msg
                                  /\ q.status = "sent" \/ q.id \in resend[c].listed
  <2> DEFINE M(r) == IF r.id \in resend[c].listed THEN [r EXCEPT !.status = "sent"] ELSE r
  <2>1. \A r \in rows : /\ M(r) \in [id : Ids, msg : Msgs, status : {"saved", "unsent", "sent"}]
                        /\ M(r).id = r.id /\ M(r).msg = r.msg
                        /\ M(r).status = "sent" => r.status = "sent" \/ r.id \in resend[c].listed
    BY <1>0
  <2>2. rows' = {M(r) : r \in rows}
    BY <1>4 DEF Marked
  <2> HIDE DEF M
  <2>3. \A r \in rows' : \E q \in rows : r = M(q)
    BY <2>2
  <2>4. \A r \in rows : M(r) \in rows'
    BY <2>2
  <2>5. \A r \in rows' : \E q \in rows :
          /\ q.id = r.id /\ q.msg = r.msg
          /\ r.status = "sent" => q.status = "sent" \/ q.id \in resend[c].listed
    BY <2>1, <2>3
  <2>6. RowsOK'
    BY <1>0, <2>5 DEF RowsOK
  <2>7. rows' \subseteq [id : Ids, msg : Msgs, status : {"saved", "unsent", "sent"}]
    BY <2>1, <2>3
  <2>8. /\ \A r \in rows : RowKept(r, rows')
        /\ \A r \in rows' : RowKept(r, rows)
    BY <2>1, <2>4, <2>5 DEF RowKept
  <2> QED
    BY <2>5, <2>6, <2>7, <2>8
<1>5. \A s \in Servers : hand[s] \in Copies => hand[s].msg \in Msgs
  BY DEF Copies
<1> QED
  BY <1>1, <1>2, <1>3, <1>4, <1>5, RowSteps

\* What enters and leaves a queue.
LEMMA QueueSteps ==
  ASSUME NEW q \in Seq(Copies)
  PROVE  /\ Len(q) \in Nat
         /\ \A copy \in Copies : Append(q, copy) \in Seq(Copies) /\ Len(Append(q, copy)) = Len(q) + 1
         /\ q # << >> => Head(q) \in Copies /\ Tail(q) \in Seq(Copies) /\ Len(Tail(q)) = Len(q) - 1
<1>1. \A copy \in Copies : Append(q, copy) \in Seq(Copies) /\ Len(Append(q, copy)) = Len(q) + 1
  BY AppendProperties
<1>2. q # << >> => Head(q) \in Copies /\ Tail(q) \in Seq(Copies) /\ Len(Tail(q)) = Len(q) - 1
  BY HeadTailProperties
<1>3. Len(q) \in Nat
  BY LenProperties
<1> QED
  BY <1>1, <1>2, <1>3

\* What is sent is a copy.
LEMMA SentCopies ==
  ASSUME TableInv
  PROVE  /\ \A m \in Msgs : SenderCopy(m) \in Copies
         /\ \A c \in Conns : \A i \in UsedIds :
              /\ RowCopy(c, i) \in Copies /\ RowCopy(c, i).id = i
              /\ \A r \in rows : r.id = i => RowCopy(c, i).msg = r.msg
         /\ \A copy \in Copies : Relayed(copy) \in Copies /\ Item(Relayed(copy)) = Item(copy)
<1>1. \A m \in Msgs : SenderCopy(m) \in Copies
  BY DEF SenderCopy, Copies, Ids, Origins
<1>2. ASSUME NEW c \in Conns, NEW i \in UsedIds
      PROVE  /\ RowCopy(c, i) \in Copies /\ RowCopy(c, i).id = i
             /\ \A r \in rows : r.id = i => RowCopy(c, i).msg = r.msg
  <2>1. \E r \in rows : r.id = i
    BY DEF UsedIds
  <2> DEFINE row == CHOOSE r \in rows : r.id = i
  <2>2. row \in rows /\ row.id = i
    BY <2>1
  <2>3. RowCopy(c, i) = [msg |-> row.msg, id |-> i, from |-> c]
    BY DEF RowCopy
  <2> HIDE DEF row
  <2>4. row.msg \in Msgs /\ i \in Ids
    BY <2>2 DEF TableInv, StoreTypes
  <2>5. RowCopy(c, i) \in Copies
    BY <2>3, <2>4 DEF Copies, Origins
  <2> QED
    BY <2>2, <2>3, <2>5 DEF TableInv, RowsOK
<1>3. \A copy \in Copies : Relayed(copy) \in Copies /\ Item(Relayed(copy)) = Item(copy)
  BY DEF Copies, Relayed, Item, Origins
<1> QED
  BY <1>1, <1>2, <1>3

Lines ==
  /\ queue \in [Servers -> Seq(Copies)]
  /\ pending \in [Servers -> Seq(Copies)]
  /\ \A s \in Servers : Len(queue[s]) <= QueueCap

\* A copy is put into a queue only if there is room.
LEMMA EnqueueLines ==
  ASSUME Lines, NEW s \in Servers, NEW copy \in Copies, Enqueue(s, copy)
  PROVE  /\ queue' \in [Servers -> Seq(Copies)]
         /\ \A t \in Servers : Len(queue'[t]) <= QueueCap
<1>1. CASE Len(queue[s]) < QueueCap
  <2>1. queue' = [queue EXCEPT ![s] = Append(queue[s], copy)]
    BY <1>1 DEF Enqueue
  <2>2. /\ Append(queue[s], copy) \in Seq(Copies) /\ Len(Append(queue[s], copy)) = Len(queue[s]) + 1
        /\ Len(queue[s]) \in Nat /\ QueueCap \in Nat
    BY QueueSteps, CapAssumption DEF Lines
  <2>3. Len(queue[s]) + 1 <= QueueCap
    BY <1>1, <2>2
  <2> QED
    BY <2>1, <2>2, <2>3 DEF Lines
<1>2. CASE ~(Len(queue[s]) < QueueCap)
  BY <1>2 DEF Enqueue, Lines
<1> QED
  BY <1>1, <1>2

\* A copy is put at the end of what Redis still has to deliver.
LEMMA PublishLines ==
  ASSUME Lines, NEW s \in Servers, NEW copy \in Copies, Relayed(copy) \in Copies, Publish(s, copy)
  PROVE  pending' \in [Servers -> Seq(Copies)]
<1>1. \A t \in Servers : Append(pending[t], Relayed(copy)) \in Seq(Copies)
  BY QueueSteps DEF Lines
<1> QED
  BY <1>1 DEF Publish, Lines

\* Queues and channels keep their types.
LEMMA LinesStep ==
  ASSUME TableInv, [StoreNext]_allVars
  PROVE  Lines'
<1>0. Lines
  BY DEF TableInv, StoreTypes, Lines
<1>1. CASE UNCHANGED <<queue, pending>>
  BY <1>0, <1>1 DEF Lines
<1>2. ASSUME NEW m \in Msgs, SendMessage(m) PROVE Lines'
  <2>1. SenderCopy(m) \in Copies /\ MsgServer[m] \in Servers
    BY SentCopies, MsgAssumption
  <2> QED
    BY <1>0, <1>2, <2>1, EnqueueLines DEF SendMessage, Lines
<1>3. ASSUME NEW m \in Msgs, SendPublish(m) PROVE Lines'
  <2>1. SenderCopy(m) \in Copies /\ MsgServer[m] \in Servers /\ Relayed(SenderCopy(m)) \in Copies
    BY SentCopies, MsgAssumption
  <2> QED
    BY <1>0, <1>3, <2>1, PublishLines DEF SendPublish, Lines
<1>4. ASSUME NEW s \in Servers, Receive(s) PROVE Lines'
  <2>1. /\ Head(pending[s]) \in Copies /\ Tail(pending[s]) \in Seq(Copies)
        /\ pending' = [pending EXCEPT ![s] = Tail(pending[s])]
    BY <1>0, <1>4, QueueSteps DEF Receive, Lines
  <2>2. pending' \in [Servers -> Seq(Copies)]
    BY <1>0, <2>1 DEF Lines
  <2>3. Enqueue(s, Head(pending[s])) \/ UNCHANGED queue
    BY <1>4 DEF Receive
  <2> QED
    BY <1>0, <2>1, <2>2, <2>3, EnqueueLines DEF Lines
<1>5. ASSUME NEW s \in Servers, Take(s) PROVE Lines'
  <2>1. /\ Tail(queue[s]) \in Seq(Copies) /\ Len(Tail(queue[s])) = Len(queue[s]) - 1
        /\ queue' = [queue EXCEPT ![s] = Tail(queue[s])] /\ pending' = pending
        /\ Len(queue[s]) \in Nat /\ QueueCap \in Nat
    BY <1>0, <1>5, QueueSteps, CapAssumption DEF Take, Lines
  <2>2. Len(queue[s]) - 1 <= QueueCap
    BY <1>0, <2>1 DEF Lines
  <2> QED
    BY <1>0, <2>1, <2>2 DEF Lines
<1>6. ASSUME NEW s \in Servers, Panic(s) PROVE Lines'
  <2>1. << >> \in Seq(Copies) /\ Len(<< >>) = 0 /\ 0 <= QueueCap
    BY EmptySeq, CapAssumption
  <2>2. queue' = [queue EXCEPT ![s] = << >>] /\ pending' = [pending EXCEPT ![s] = << >>]
    BY <1>6 DEF Panic
  <2> QED
    BY <1>0, <2>1, <2>2 DEF Lines
<1>7. ASSUME NEW c \in Conns, ResendEnqueue(c) PROVE Lines'
  <2>1. ConnServer[c] \in Servers
    BY ConnAssumption
  <2>2. PICK i \in resend[c].todo : Enqueue(ConnServer[c], RowCopy(c, i))
    BY <1>7 DEF ResendEnqueue
  <2>3. RowCopy(c, i) \in Copies
    BY SentCopies DEF TableInv, ResendOK
  <2>4. pending' = pending
    BY <1>7 DEF ResendEnqueue
  <2> QED
    BY <1>0, <2>1, <2>2, <2>3, <2>4, EnqueueLines DEF Lines
<1>8. ASSUME NEW c \in Conns, ResendPublish(c) PROVE Lines'
  <2>1. ConnServer[c] \in Servers
    BY ConnAssumption
  <2>2. resend[c].now \in UsedIds
    BY <1>8 DEF ResendPublish, Resending, TableInv, ResendOK
  <2>3. RowCopy(c, resend[c].now) \in Copies /\ Relayed(RowCopy(c, resend[c].now)) \in Copies
    BY <2>2, SentCopies
  <2>4. Publish(ConnServer[c], RowCopy(c, resend[c].now)) /\ queue' = queue
    BY <1>8 DEF ResendPublish
  <2> QED
    BY <1>0, <2>1, <2>3, <2>4, PublishLines DEF Lines
<1>9. ManagerStep => UNCHANGED <<queue, pending>>
  BY DEF ManagerStep, Carried
<1>10. ASSUME NEW m \in Msgs, HandleMessage(m) PROVE Lines'
  BY <1>1, <1>2, <1>3, <1>10 DEF HandleMessage, SaveChat, SendChat, Answer
<1>11. ASSUME NEW s \in Servers, ProcessMessage(s) PROVE Lines'
  BY <1>1, <1>5, <1>6, <1>11 DEF ProcessMessage, Collect, Deliver, PassFull, PassClosed, Store
<1>12. ASSUME NEW c \in Conns, SendOfflineMessages(c) PROVE Lines'
  BY <1>1, <1>7, <1>8, <1>12 DEF SendOfflineMessages, Query, Mark
<1> QED
  BY <1>1, <1>4, <1>9, <1>10, <1>11, <1>12 DEF StoreNext, allVars, msgVars

\* A message goes through the stages of its sender.
LEMMA SendingStep ==
  ASSUME TableInv, [StoreNext]_allVars
  PROVE  sending' \in [Msgs -> {"new", "saved", "refused", "publish", "sent"}]
<1>0. sending \in [Msgs -> {"new", "saved", "refused", "publish", "sent"}]
  BY DEF TableInv, StoreTypes
<1>1. ASSUME NEW m \in Msgs, HandleMessage(m)
      PROVE  \E step \in {"saved", "refused", "publish", "sent"} : Advance(m, step)
  BY <1>1 DEF HandleMessage, SaveChat, SendChat, Answer, SendPublish, SendMessage
<1>2. (~\E m \in Msgs : HandleMessage(m)) => UNCHANGED sending
  BY DEF StoreNext, allVars, msgVars, ManagerStep, Carried, Receive, ProcessMessage, Take, Collect, Deliver,
         PassFull, PassClosed, Panic, Store, SendOfflineMessages, Query, ResendEnqueue, ResendPublish, Mark
<1> QED
  BY <1>0, <1>1, <1>2 DEF Advance

\* Run holds a message in hand whenever it collects or tries connections.
LEMMA HandStep ==
  ASSUME TableInv, [StoreNext]_allVars
  PROVE  /\ hand' \in [Servers -> Copies \cup {NoCopy}]
         /\ phase' \in [Servers -> {"take", "collect", "try"}]
         /\ HandOK'
<1>0. /\ hand \in [Servers -> Copies \cup {NoCopy}] /\ phase \in [Servers -> {"take", "collect", "try"}]
      /\ HandOK
  BY DEF TableInv, StoreTypes
<1>1. CASE UNCHANGED <<hand, phase>>
  BY <1>0, <1>1 DEF HandOK
<1>2. ASSUME NEW s \in Servers, LetGo(s)
      PROVE  /\ hand' \in [Servers -> Copies \cup {NoCopy}]
             /\ phase' \in [Servers -> {"take", "collect", "try"}]
             /\ HandOK'
  BY <1>0, <1>2 DEF LetGo, HandOK
<1>3. ASSUME NEW s \in Servers, Take(s)
      PROVE  /\ hand' \in [Servers -> Copies \cup {NoCopy}]
             /\ phase' \in [Servers -> {"take", "collect", "try"}]
             /\ HandOK'
  <2>1. Head(queue[s]) \in Copies
    BY <1>3, QueueSteps DEF Take, TableInv, StoreTypes
  <2>2. hand' = [hand EXCEPT ![s] = Head(queue[s])]
    BY <1>3 DEF Take
  <2>3. \E step \in {"try", "collect"} : phase' = [phase EXCEPT ![s] = step]
    BY <1>3 DEF Take
  <2> QED
    BY <1>0, <2>1, <2>2, <2>3, CopyAssumption DEF HandOK
<1>4. ASSUME NEW s \in Servers, Collect(s)
      PROVE  /\ hand' \in [Servers -> Copies \cup {NoCopy}]
             /\ phase' \in [Servers -> {"take", "collect", "try"}]
             /\ HandOK'
  BY <1>0, <1>4 DEF Collect, Working, HandOK
<1>5. ASSUME NEW s \in Servers, ProcessMessage(s)
      PROVE  UNCHANGED <<hand, phase>> \/ LetGo(s) \/ Take(s) \/ Collect(s)
  BY <1>5 DEF ProcessMessage, Deliver, PassFull, PassClosed, Panic, Store
<1>6. (~\E s \in Servers : ProcessMessage(s)) => UNCHANGED <<hand, phase>>
  BY DEF StoreNext, allVars, msgVars, runVars, ManagerStep, Carried, Receive, HandleMessage, SaveChat, SendChat,
         Answer, SendPublish, SendMessage, SendOfflineMessages, Query, ResendEnqueue, ResendPublish, Mark
<1> QED
  BY <1>1, <1>2, <1>3, <1>4, <1>5, <1>6

ResendTypes ==
  resend \in [Conns -> [at : {"idle", "query", "enqueue", "publish", "mark", "done"},
                        todo : SUBSET Ids, listed : SUBSET Ids, now : Ids \cup {NoId}]]

\* A goroutine that resends has listed rows of the table, and sends one of them at a
\* time.
LEMMA ResendStep ==
  ASSUME TableInv, [StoreNext]_allVars
  PROVE  ResendTypes' /\ ResendOK'
<1> DEFINE Quiet(step) == [at |-> step, todo |-> {}, listed |-> {}, now |-> NoId]
           Goal(c) ==
             /\ resend'[c] \in [at : {"idle", "query", "enqueue", "publish", "mark", "done"},
                                todo : SUBSET Ids, listed : SUBSET Ids, now : Ids \cup {NoId}]
             /\ resend'[c].todo \subseteq UsedIds
             /\ resend'[c].listed \subseteq UsedIds
             /\ resend'[c].at = "publish" => resend'[c].now \in UsedIds
             /\ resend'[c].at = "mark" => resend'[c].todo = {}
<1>0. ResendTypes /\ ResendOK /\ UsedIds \subseteq Ids /\ \A step : Resend(step) = Quiet(step)
  BY DEF TableInv, StoreTypes, ResendTypes, UsedIds, Resend
<1>1. UsedIds \subseteq UsedIds'
  BY RowsAfter DEF UsedIds, RowKept
<1>2. \A c \in Conns : resend'[c] = resend[c] => Goal(c)
  BY <1>0 DEF ResendTypes, ResendOK
<1>3. \A c \in Conns : \A step \in {"query", "done"} : resend'[c] = Quiet(step) => Goal(c)
  BY <1>0
<1>4. CASE UNCHANGED resend
  BY <1>0, <1>1, <1>4 DEF ResendTypes, ResendOK
<1>5. ASSUME resend' = [c \in Conns |-> resend'[c]], \A c \in Conns : Goal(c)
      PROVE  ResendTypes' /\ ResendOK'
  <2>1. ResendTypes'
    BY <1>5 DEF ResendTypes
  <2> QED
    BY <1>1, <1>5, <2>1 DEF ResendOK
<1> HIDE DEF Goal, Quiet
<1>6. CASE ManagerStep
  <2>1. resend' = [c \in Conns |-> IF pc[c] = "online" /\ pc'[c] = "serve" THEN Resend("query") ELSE resend[c]]
    BY <1>6 DEF ManagerStep, Carried
  <2> QED
    BY <1>0, <1>2, <1>3, <1>5, <2>1
<1>7. ASSUME NEW s \in Servers, Panic(s) PROVE ResendTypes' /\ ResendOK'
  <2>1. resend' = [c \in Conns |-> IF ConnServer[c] = s THEN Resend("done") ELSE resend[c]]
    BY <1>7 DEF Panic
  <2> QED
    BY <1>0, <1>2, <1>3, <1>5, <2>1
<1>8. ASSUME NEW c \in Conns, NEW r, resend' = [resend EXCEPT ![c] = r],
             /\ r \in [at : {"idle", "query", "enqueue", "publish", "mark", "done"},
                       todo : SUBSET Ids, listed : SUBSET Ids, now : Ids \cup {NoId}]
             /\ r.todo \subseteq UsedIds
             /\ r.listed \subseteq UsedIds
             /\ r.at = "publish" => r.now \in UsedIds
             /\ r.at = "mark" => r.todo = {}
      PROVE  ResendTypes' /\ ResendOK'
  <2>1. resend' = [d \in Conns |-> resend'[d]] /\ \A d \in Conns : resend'[d] = IF d = c THEN r ELSE resend[d]
    BY <1>0, <1>8 DEF ResendTypes
  <2>2. Goal(c)
    BY <1>8, <2>1 DEF Goal
  <2> QED
    BY <1>2, <1>5, <2>1, <2>2
<1>9. ASSUME NEW c \in Conns, Query(c) PROVE ResendTypes' /\ ResendOK'
  <2> DEFINE found == {r.id : r \in {r \in rows : r.status = "unsent" /\ MsgTo[r.msg] = ConnUser[c]}}
  <2>1. found \subseteq UsedIds
    BY DEF UsedIds
  <2>2. CASE resend' = [resend EXCEPT ![c] = Resend("done")]
    <3>1. PICK r : r = Resend("done")
      OBVIOUS
    <3>2. resend' = [resend EXCEPT ![c] = r]
      BY <2>2, <3>1
    <3>3. /\ r.at = "done" /\ r.todo = {} /\ r.listed = {}
          /\ r \in [at : {"idle", "query", "enqueue", "publish", "mark", "done"},
                    todo : SUBSET Ids, listed : SUBSET Ids, now : Ids \cup {NoId}]
      BY <3>1 DEF Resend
    <3> QED
      BY <1>8, <3>2, <3>3
  <2>3. CASE resend' = [resend EXCEPT ![c] =
                 [Resend(IF found = {} THEN "done" ELSE "enqueue") EXCEPT !.todo = found, !.listed = found]]
    <3> HIDE DEF found
    <3>1. PICK r : r = [Resend(IF found = {} THEN "done" ELSE "enqueue") EXCEPT !.todo = found, !.listed = found]
      OBVIOUS
    <3>2. resend' = [resend EXCEPT ![c] = r]
      BY <2>3, <3>1
    <3>3. /\ r.at \in {"done", "enqueue"} /\ r.todo = found /\ r.listed = found
          /\ r = [at |-> r.at, todo |-> found, listed |-> found, now |-> NoId]
      BY <3>1 DEF Resend
    <3>4. r \in [at : {"idle", "query", "enqueue", "publish", "mark", "done"},
                 todo : SUBSET Ids, listed : SUBSET Ids, now : Ids \cup {NoId}]
      BY <1>0, <2>1, <3>3
    <3> QED
      BY <1>8, <2>1, <3>2, <3>3, <3>4
  <2> QED
    BY <1>9, <2>2, <2>3 DEF Query
<1>10. ASSUME NEW c \in Conns, ResendEnqueue(c) PROVE ResendTypes' /\ ResendOK'
  <2>1. PICK i \in resend[c].todo :
          resend' = [resend EXCEPT
            ![c].todo = @ \ {i},
            ![c].now = IF Refused(ConnServer[c]) THEN NoId ELSE i,
            ![c].at = IF ~Refused(ConnServer[c]) THEN "publish"
                      ELSE IF resend[c].todo = {i} THEN "mark" ELSE "enqueue"]
    BY <1>10 DEF ResendEnqueue
  <2>2. /\ resend[c] \in [at : {"idle", "query", "enqueue", "publish", "mark", "done"},
                          todo : SUBSET Ids, listed : SUBSET Ids, now : Ids \cup {NoId}]
        /\ resend[c].todo \subseteq UsedIds /\ resend[c].listed \subseteq UsedIds
        /\ resend \in [Conns -> [at : {"idle", "query", "enqueue", "publish", "mark", "done"},
                                 todo : SUBSET Ids, listed : SUBSET Ids, now : Ids \cup {NoId}]]
    BY <1>0 DEF ResendTypes, ResendOK
  <2>3. PICK r : r = [resend[c] EXCEPT
            !.todo = @ \ {i},
            !.now = IF Refused(ConnServer[c]) THEN NoId ELSE i,
            !.at = IF ~Refused(ConnServer[c]) THEN "publish"
                   ELSE IF resend[c].todo = {i} THEN "mark" ELSE "enqueue"]
    OBVIOUS
  <2>5. resend' = [resend EXCEPT ![c] = r]
    BY <2>1, <2>2, <2>3
  <2>4. /\ r.todo = resend[c].todo \ {i} /\ r.listed = resend[c].listed
        /\ r.at = "publish" => r.now = i
        /\ r.at = "mark" => resend[c].todo = {i}
        /\ r \in [at : {"idle", "query", "enqueue", "publish", "mark", "done"},
                  todo : SUBSET Ids, listed : SUBSET Ids, now : Ids \cup {NoId}]
    BY <2>2, <2>3
  <2> QED
    BY <1>8, <2>2, <2>4, <2>5
<1>11. ASSUME NEW c \in Conns, ResendPublish(c) PROVE ResendTypes' /\ ResendOK'
  <2>2. /\ resend[c] \in [at : {"idle", "query", "enqueue", "publish", "mark", "done"},
                          todo : SUBSET Ids, listed : SUBSET Ids, now : Ids \cup {NoId}]
        /\ resend[c].todo \subseteq UsedIds /\ resend[c].listed \subseteq UsedIds
        /\ resend \in [Conns -> [at : {"idle", "query", "enqueue", "publish", "mark", "done"},
                                 todo : SUBSET Ids, listed : SUBSET Ids, now : Ids \cup {NoId}]]
    BY <1>0 DEF ResendTypes, ResendOK
  <2>3. PICK r : r = [resend[c] EXCEPT !.now = NoId, !.at = IF resend[c].todo = {} THEN "mark" ELSE "enqueue"]
    OBVIOUS
  <2>4. resend' = [resend EXCEPT ![c] = r]
    <3>1. resend' = [resend EXCEPT ![c].now = NoId, ![c].at = IF resend[c].todo = {} THEN "mark" ELSE "enqueue"]
      BY <1>11 DEF ResendPublish
    <3> QED
      BY <2>2, <2>3, <3>1
  <2>5. /\ r.todo = resend[c].todo /\ r.listed = resend[c].listed
        /\ r.at # "publish"
        /\ r.at = "mark" => resend[c].todo = {}
        /\ r \in [at : {"idle", "query", "enqueue", "publish", "mark", "done"},
                  todo : SUBSET Ids, listed : SUBSET Ids, now : Ids \cup {NoId}]
    BY <2>2, <2>3
  <2> QED
    BY <1>8, <2>2, <2>4, <2>5
<1>12. ASSUME NEW c \in Conns, Mark(c) PROVE ResendTypes' /\ ResendOK'
  <2>1. PICK r : r = Resend("done")
    OBVIOUS
  <2>2. resend' = [resend EXCEPT ![c] = r]
    BY <1>12, <2>1 DEF Mark
  <2>3. /\ r.at = "done" /\ r.todo = {} /\ r.listed = {}
        /\ r \in [at : {"idle", "query", "enqueue", "publish", "mark", "done"},
                  todo : SUBSET Ids, listed : SUBSET Ids, now : Ids \cup {NoId}]
    BY <2>1 DEF Resend
  <2> QED
    BY <1>8, <2>2, <2>3
<1> QED
  BY <1>4, <1>6, <1>7, <1>9, <1>10, <1>11, <1>12
  DEF StoreNext, allVars, msgVars, Receive, HandleMessage, SaveChat, SendChat, Answer, SendPublish, SendMessage,
      SendOfflineMessages, ProcessMessage, Take, Collect, Deliver, PassFull, PassClosed, Store

\* Every step keeps the types, and what ids and goroutines have to do with rows.
LEMMA TableStep ==
  ASSUME TableInv, [StoreNext]_allVars
  PROVE  TableInv'
<1>1. HandlerInv'
  BY StoreSteps, HandlerKept DEF TableInv
<1>2. Lines' /\ HandOK' /\ ResendTypes' /\ ResendOK'
  BY LinesStep, HandStep, ResendStep
<1> QED
  BY <1>1, <1>2, RowsAfter, SendingStep, HandStep DEF TableInv, StoreTypes, Lines, ResendTypes

\* Nothing is stored or sent in the beginning.
LEMMA TableInit ==
  ASSUME StoreInit
  PROVE  TableInv
<1>1. << >> \in Seq(Copies) /\ Len(<< >>) = 0 /\ 0 <= QueueCap
  BY EmptySeq, CapAssumption
<1>2. HandlerInv
  BY HandlerInit DEF StoreInit
<1>3. StoreTypes
  BY <1>1 DEF StoreInit, StoreTypes, Resend
<1>4. HandOK /\ RowsOK /\ ResendOK
  BY DEF StoreInit, HandOK, RowsOK, ResendOK, Resend
<1> QED
  BY <1>2, <1>3, <1>4 DEF TableInv

-----------------------------------------------------------------------------
(* Nothing that is on its way is dropped.                                  *)

Holds(q, item) == \E j \in DOMAIN q : Item(q[j]) = item
InHand(s, item) == hand[s] # NoCopy /\ Item(hand[s]) = item

\* A message, with its id, is on its way or has come to an end.
SafeItem(item) == item \in ended \/ OnItsWay(item)

\* A server's memory of messages is its queue and the hand of Run.
LEMMA MemoryIs ==
  ASSUME NEW s \in Servers, NEW item
  PROVE  item \in InMemory(s) <=> (Holds(queue[s], item) \/ InHand(s, item))
BY DEF InMemory, Holds, InHand

\* A queue that grows holds what it held and the new copy; without its head it
\* misses only that.
LEMMA HoldsMore ==
  ASSUME NEW q \in Seq(Copies), NEW copy \in Copies, NEW item
  PROVE  /\ Holds(q, item) => Holds(Append(q, copy), item)
         /\ Item(copy) = item => Holds(Append(q, copy), item)
         /\ q # << >> /\ Holds(q, item) => Item(Head(q)) = item \/ Holds(Tail(q), item)
<1>1. DOMAIN q = 1 .. Len(q) /\ Len(q) \in Nat
  BY LenProperties
<1>2. /\ DOMAIN Append(q, copy) = 1 .. Len(q) + 1
      /\ \A i \in 1 .. Len(q) : Append(q, copy)[i] = q[i]
      /\ Append(q, copy)[Len(q) + 1] = copy
  <2>1. /\ Append(q, copy) \in Seq(Copies) /\ Len(Append(q, copy)) = Len(q) + 1
        /\ \A i \in 1 .. Len(q) : Append(q, copy)[i] = q[i]
        /\ Append(q, copy)[Len(q) + 1] = copy
    BY AppendProperties
  <2>2. DOMAIN Append(q, copy) = 1 .. Len(Append(q, copy))
    BY <2>1, LenProperties
  <2> QED
    BY <2>1, <2>2
<1>3. Holds(q, item) => Holds(Append(q, copy), item)
  BY <1>1, <1>2 DEF Holds
<1>4. Item(copy) = item => Holds(Append(q, copy), item)
  BY <1>1, <1>2 DEF Holds
<1>5. ASSUME q # << >>, NEW j \in DOMAIN q, Item(q[j]) = item, Item(Head(q)) # item
      PROVE  Holds(Tail(q), item)
  <2>1. /\ Tail(q) \in Seq(Copies) /\ Len(Tail(q)) = Len(q) - 1
        /\ \A i \in 1 .. Len(Tail(q)) : Tail(q)[i] = q[i + 1]
    BY <1>5, HeadTailProperties
  <2>2. DOMAIN Tail(q) = 1 .. Len(Tail(q))
    BY <2>1, LenProperties
  <2>3. Head(q) = q[1]
    BY <1>5
  <2>4. j - 1 \in 1 .. Len(Tail(q)) /\ (j - 1) + 1 = j
    BY <1>1, <1>5, <2>1, <2>3
  <2>5. Tail(q)[j - 1] = q[j]
    BY <2>1, <2>4
  <2> QED
    BY <1>5, <2>2, <2>4, <2>5 DEF Holds
<1> QED
  BY <1>3, <1>4, <1>5 DEF Holds

\* A copy that a queue has taken, or refused, is on its way or has ended, and what
\* was so before still is.
LEMMA EnqueueIsSafe ==
  ASSUME TableInv, NEW s \in Servers, NEW copy \in Copies, Enqueue(s, copy), UNCHANGED <<hand, life>>, NEW item
  PROVE  /\ SafeItem(item) => SafeItem(item)'
         /\ Item(copy) = item => SafeItem(item)'
<1>0. \A t \in Servers : queue[t] \in Seq(Copies)
  BY DEF TableInv, StoreTypes
<1>1. queue' = [queue EXCEPT ![s] = Append(queue[s], copy)] \/ queue' = queue
  BY DEF Enqueue
<1>2. \A t \in Servers : Holds(queue[t], item) => Holds(queue'[t], item)
  <2>1. Holds(queue[s], item) => Holds(Append(queue[s], copy), item)
    BY <1>0, HoldsMore
  <2> QED
    BY <1>1, <2>1 DEF TableInv, StoreTypes
<1>3. SafeItem(item) => SafeItem(item)'
  <2>1. \A t \in Servers : item \in InMemory(t) => item \in InMemory(t)'
    <3>1. \A t \in Servers : item \in InMemory(t)' <=> (Holds(queue'[t], item) \/ InHand(t, item))
      BY DEF InMemory, Holds, InHand
    <3> QED
      BY <1>2, <3>1, MemoryIs
  <2>2. ended \subseteq ended'
    BY DEF Enqueue
  <2> QED
    BY <2>1, <2>2 DEF SafeItem, OnItsWay
<1>4. ASSUME Item(copy) = item PROVE SafeItem(item)'
  <2>1. CASE Len(queue[s]) < QueueCap /\ life[s] = "up"
    <3>1. queue'[s] = Append(queue[s], copy)
      BY <2>1 DEF Enqueue, TableInv, StoreTypes
    <3>2. Holds(queue'[s], item)
      BY <1>0, <1>4, <3>1, HoldsMore
    <3>3. item \in InMemory(s)'
      BY <3>2 DEF InMemory, Holds
    <3> QED
      BY <2>1, <3>3 DEF SafeItem, OnItsWay
  <2>2. CASE ~(Len(queue[s]) < QueueCap /\ life[s] = "up")
    BY <1>4, <2>2 DEF Enqueue, SafeItem
  <2> QED
    BY <2>1, <2>2
<1> QED
  BY <1>3, <1>4

\* An item is safe until it ends, or, without an id, until it is stored.
LEMMA StaysSafe ==
  ASSUME TableInv, [StoreNext]_allVars, NEW item, SafeItem(item)
  PROVE  SafeItem(item)' \/ (item[2] = NoId /\ \E r \in rows' : r.msg = item[1])
<1>0. \A t \in Servers : queue[t] \in Seq(Copies)
  BY DEF TableInv, StoreTypes
<1>1. ASSUME ended \subseteq ended',
             \A t \in Servers : life[t] = "up" /\ item \in InMemory(t)
                                  => item \in ended' \/ (life'[t] = "up" /\ item \in InMemory(t)')
      PROVE  SafeItem(item)'
  BY <1>1 DEF SafeItem, OnItsWay
<1>2. \A t \in Servers : item \in InMemory(t)' <=> (Holds(queue'[t], item) \/ InHand(t, item)')
  BY DEF InMemory, Holds, InHand
<1>3. ASSUME UNCHANGED <<queue, hand, life, ended>> PROVE SafeItem(item)'
  BY <1>3 DEF SafeItem, OnItsWay, InMemory
<1>4. ASSUME NEW s \in Servers, UNCHANGED <<queue, hand>>, ended' = ended \cup InMemory(s),
             \A t \in Servers : t # s => life'[t] = life[t]
      PROVE  SafeItem(item)'
  <2>1. \A t \in Servers : InMemory(t)' = InMemory(t)
    BY <1>4 DEF InMemory
  <2> QED
    BY <1>1, <1>4, <2>1
<1>5. CASE ManagerStep
  <2>1. queue' = queue /\ hand' = hand
    BY <1>5 DEF ManagerStep, Carried
  <2>2. ASSUME NEW s \in Servers, CloseManager(s) PROVE \A t \in Servers : t # s => life'[t] = life[t]
    BY <2>2 DEF CloseManager, TableInv, HandlerInv
  <2>3. ClientStep => life' = life
    BY DEF ClientStep, Accept, ReaderCloses
  <2>4. ASSUME NEW p, UnregisterConnection(p) PROVE life' = life
    BY <2>4 DEF UnregisterConnection, Remove, CloseRemoved, DeleteMember, DeleteListed, CheckOthers, MarkOffline
  <2>5. ASSUME NEW c, RegisterConnection(c) \/ Leave(c) PROVE life' = life
    BY <2>5 DEF RegisterConnection, AddConnection, AddMember, AddListed, MarkOnline, Leave
  <2> QED
    BY <1>3, <1>4, <1>5, <2>1, <2>2, <2>3, <2>4, <2>5, FlagAssumption DEF ManagerStep, HandlerStep
<1>6. ASSUME NEW m \in Msgs, HandleMessage(m) PROVE SafeItem(item)'
  <2>1. life' = life /\ hand' = hand
    BY <1>6 DEF HandleMessage, SaveChat, SendChat, Answer, SendPublish, SendMessage, vars, runVars
  <2>2. CASE SendMessage(m)
    <3>1. SenderCopy(m) \in Copies /\ MsgServer[m] \in Servers
      BY SentCopies, MsgAssumption
    <3> QED
      BY <2>1, <2>2, <3>1, EnqueueIsSafe DEF SendMessage
  <2>3. SendMessage(m) \/ UNCHANGED <<queue, ended>>
    BY <1>6 DEF HandleMessage, SaveChat, SendChat, Answer, SendPublish
  <2> QED
    BY <1>3, <2>1, <2>2, <2>3
<1>7. ASSUME NEW s \in Servers, Receive(s) PROVE SafeItem(item)'
  <2>1. UNCHANGED <<hand, life>>
    BY <1>7 DEF Receive, vars, runVars
  <2>2. Head(pending[s]) \in Copies
    BY <1>7, QueueSteps DEF Receive, TableInv, StoreTypes
  <2> QED
    <3>1. Enqueue(s, Head(pending[s])) \/ UNCHANGED <<queue, ended>>
      BY <1>7 DEF Receive
    <3> QED
      BY <1>3, <2>1, <2>2, <3>1, EnqueueIsSafe
<1>8. ASSUME NEW c \in Conns, SendOfflineMessages(c) PROVE SafeItem(item)'
  <2>1. UNCHANGED <<hand, life>>
    BY <1>8 DEF SendOfflineMessages, Query, ResendEnqueue, ResendPublish, Mark, vars, runVars
  <2>2. CASE ResendEnqueue(c)
    <3>1. PICK i \in resend[c].todo : Enqueue(ConnServer[c], RowCopy(c, i))
      BY <2>2 DEF ResendEnqueue
    <3>2. RowCopy(c, i) \in Copies /\ ConnServer[c] \in Servers
      BY SentCopies, ConnAssumption DEF TableInv, ResendOK
    <3> QED
      BY <2>1, <3>1, <3>2, EnqueueIsSafe
  <2> QED
    <3>1. ResendEnqueue(c) \/ UNCHANGED <<queue, ended>>
      BY <1>8 DEF SendOfflineMessages, Query, ResendPublish, Mark
    <3> QED
      BY <1>3, <2>1, <2>2, <3>1
<1>9. ASSUME NEW s \in Servers, Take(s) PROVE SafeItem(item)'
  <2>1. /\ hand[s] = NoCopy /\ queue[s] # << >> /\ Head(queue[s]) \in Copies
        /\ queue' = [queue EXCEPT ![s] = Tail(queue[s])]
        /\ hand' = [hand EXCEPT ![s] = Head(queue[s])]
        /\ UNCHANGED <<life, ended>>
    <3>1. Head(queue[s]) \in Copies
      BY <1>0, <1>9, QueueSteps DEF Take
    <3> QED
      BY <1>9, <3>1 DEF Take, Working, TableInv, HandOK, vars
  <2>2. ASSUME NEW t \in Servers, item \in InMemory(t) PROVE item \in InMemory(t)'
    <3>1. Holds(queue[t], item) \/ InHand(t, item)
      BY <2>2, MemoryIs
    <3>2. CASE t # s
      BY <1>2, <2>1, <3>1, <3>2 DEF InHand, TableInv, StoreTypes
    <3>3. CASE t = s
      <4>1. Holds(queue[s], item)
        BY <2>1, <3>1, <3>3 DEF InHand
      <4>2. Item(Head(queue[s])) = item \/ Holds(Tail(queue[s]), item)
        BY <1>0, <2>1, <4>1, HoldsMore
      <4>3. queue'[s] = Tail(queue[s]) /\ hand'[s] = Head(queue[s])
        BY <2>1 DEF TableInv, StoreTypes
      <4> QED
        BY <1>2, <2>1, <3>3, <4>2, <4>3, CopyAssumption DEF InHand
    <3> QED
      BY <3>2, <3>3
  <2> QED
    BY <1>1, <2>1, <2>2
<1>10. ASSUME NEW s \in Servers, LetGo(s), UNCHANGED <<queue, life>>, Item(hand[s]) \in ended', ended \subseteq ended'
       PROVE  SafeItem(item)'
  <2>1. \A t \in Servers : t # s => hand'[t] = hand[t]
    BY <1>10 DEF LetGo, TableInv, StoreTypes
  <2>2. ASSUME NEW t \in Servers, item \in InMemory(t) PROVE item \in ended' \/ item \in InMemory(t)'
    <3>1. Holds(queue[t], item) \/ InHand(t, item)
      BY <2>2, MemoryIs
    <3> QED
      BY <1>2, <1>10, <2>1, <3>1 DEF InHand
  <2> QED
    BY <1>1, <1>10, <2>2
<1>11. ASSUME NEW s \in Servers, Deliver(s) PROVE SafeItem(item)'
  BY <1>10, <1>11 DEF Deliver, vars
<1>12. ASSUME NEW s \in Servers, Collect(s) \/ PassFull(s) \/ PassClosed(s) PROVE SafeItem(item)'
  <2>1. UNCHANGED <<queue, hand, life, ended>>
    BY <1>12 DEF Collect, PassFull, PassClosed, BeginDrop, vars
  <2> QED
    BY <1>3, <2>1
<1>13. ASSUME NEW s \in Servers, Panic(s) PROVE SafeItem(item)'
  <2>1. /\ ended' = ended \cup InMemory(s)
        /\ \A t \in Servers : t # s => queue'[t] = queue[t] /\ hand'[t] = hand[t] /\ life'[t] = life[t]
    BY <1>13 DEF Panic, LetGo, ProcessGone, TableInv, StoreTypes, HandlerInv
  <2>2. \A t \in Servers : t # s => InMemory(t)' = InMemory(t)
    BY <2>1 DEF InMemory
  <2> QED
    BY <1>1, <2>1, <2>2
<1>14. ASSUME NEW s \in Servers, Store(s)
       PROVE  SafeItem(item)' \/ (item[2] = NoId /\ \E r \in rows' : r.msg = item[1])
  <2>0. LetGo(s) /\ UNCHANGED <<queue, life>> /\ ended \subseteq ended'
    BY <1>14 DEF Store, vars
  <2>1. CASE Item(hand[s]) \in ended'
    BY <1>10, <2>0, <2>1
  <2>2. CASE Item(hand[s]) \notin ended'
    <3>1. hand[s].id = NoId /\ rows' = rows \cup {Unsent(NewId, hand[s])} /\ ended' = ended
      BY <1>14, <2>2 DEF Store
    <3>2. CASE Item(hand[s]) = item
      <4>1. Unsent(NewId, hand[s]) \in rows' /\ Unsent(NewId, hand[s]).msg = hand[s].msg
        BY <3>1 DEF Unsent
      <4>2. item[1] = hand[s].msg /\ item[2] = hand[s].id
        BY <3>2 DEF Item
      <4> QED
        BY <3>1, <4>1, <4>2
    <3>3. CASE Item(hand[s]) # item
      <4>1. \A t \in Servers : t # s => hand'[t] = hand[t]
        BY <2>0 DEF LetGo, TableInv, StoreTypes
      <4>2. ASSUME NEW t \in Servers, item \in InMemory(t) PROVE item \in InMemory(t)'
        <5>1. Holds(queue[t], item) \/ InHand(t, item)
          BY <4>2, MemoryIs
        <5> QED
          BY <1>2, <2>0, <3>3, <4>1, <5>1 DEF InHand
      <4> QED
        BY <1>1, <2>0, <4>2
    <3> QED
      BY <3>2, <3>3
  <2> QED
    BY <2>1, <2>2
<1>15. ASSUME NEW s \in Servers, ProcessMessage(s)
       PROVE  SafeItem(item)' \/ (item[2] = NoId /\ \E r \in rows' : r.msg = item[1])
  BY <1>9, <1>11, <1>12, <1>13, <1>14, <1>15 DEF ProcessMessage
<1> QED
  BY <1>3, <1>5, <1>6, <1>7, <1>8, <1>15 DEF StoreNext, allVars, msgVars, vars

-----------------------------------------------------------------------------
(* What is kept, and what is marked.                                       *)

\* An answer that was accepted is safe or stored; a client's message is saved.
KeptInv ==
  \A m \in Msgs : sending[m] \in {"publish", "sent"} =>
    SafeItem(<<m, NoId>>) \/ \E r \in rows : r.msg = m

\* What a goroutine has listed and already sent again, and what is marked as sent,
\* is safe.
MarkInv ==
  /\ \A c \in Conns : \A i \in resend[c].listed \ resend[c].todo :
       \A r \in rows : r.id = i => SafeItem(<<r.msg, r.id>>)
  /\ \A r \in rows : r.status = "sent" => SafeItem(<<r.msg, r.id>>)

\* A saved message stays in the table.
LEMMA SavedStep ==
  ASSUME TableInv, SavedOK, [StoreNext]_allVars
  PROVE  SavedOK'
<1>1. \A m \in Msgs : m \in UsedIds => m \in UsedIds'
  BY RowsAfter DEF UsedIds, RowKept
<1>2. ASSUME NEW m \in Msgs, HandleMessage(m) PROVE SavedOK'
  <2>1. CASE UNCHANGED sending
    BY <1>1, <2>1 DEF SavedOK
  <2>2. CASE Saved(m) /\ Advance(m, "saved")
    <3>1. [id |-> m, msg |-> m, status |-> "saved"] \in rows'
      BY <2>2 DEF Saved
    <3>2. m \in UsedIds'
      BY <3>1 DEF UsedIds
    <3> QED
      BY <1>1, <2>2, <3>2 DEF Advance, SavedOK, TableInv, StoreTypes
  <2>3. ASSUME NEW step \in {"refused", "publish", "sent"}, Advance(m, step) PROVE SavedOK'
    BY <1>1, <2>3 DEF Advance, SavedOK, TableInv, StoreTypes
  <2> QED
    BY <1>2, <2>2, <2>3 DEF HandleMessage, SaveChat, SendChat, Answer, SendPublish, SendMessage, Saved
<1>3. (~\E m \in Msgs : HandleMessage(m)) => UNCHANGED sending
  BY DEF StoreNext, allVars, msgVars, ManagerStep, Carried, Receive, ProcessMessage, Take, Collect, Deliver,
         PassFull, PassClosed, Panic, Store, SendOfflineMessages, Query, ResendEnqueue, ResendPublish, Mark
<1> QED
  BY <1>1, <1>2, <1>3 DEF SavedOK

\* An answer leaves the queues only by a delivery, a row or a loss that is recorded.
LEMMA KeptStep ==
  ASSUME TableInv, SavedOK, KeptInv, [StoreNext]_allVars
  PROVE  KeptInv'
<1> SUFFICES ASSUME NEW m \in Msgs, sending'[m] \in {"publish", "sent"}
             PROVE  SafeItem(<<m, NoId>>)' \/ \E r \in rows' : r.msg = m
  BY DEF KeptInv
<1>1. CASE sending[m] \in {"publish", "sent"}
  <2>1. CASE \E r \in rows : r.msg = m
    BY <2>1, RowsAfter DEF RowKept
  <2>2. CASE SafeItem(<<m, NoId>>)
    <3>1. PICK item : item = <<m, NoId>>
      OBVIOUS
    <3>2. item[1] = m
      BY <3>1
    <3>3. SafeItem(item)' \/ \E r \in rows' : r.msg = item[1]
      BY <2>2, <3>1, StaysSafe
    <3> QED
      BY <3>1, <3>2, <3>3
  <2> QED
    BY <1>1, <2>1, <2>2 DEF KeptInv
<1>2. CASE sending[m] \notin {"publish", "sent"}
  <2>1. \E x \in Msgs : SendChat(x) \/ Answer(x) \/ SendPublish(x) \/ SaveChat(x)
    <3>1. ~UNCHANGED sending
      BY <1>2
    <3> QED
      BY <3>1 DEF StoreNext, allVars, msgVars, ManagerStep, Carried, Receive, ProcessMessage, Take, Collect,
         Deliver, PassFull, PassClosed, Panic, Store, SendOfflineMessages, Query, ResendEnqueue, ResendPublish,
         Mark, HandleMessage
  <2>2. PICK x \in Msgs : SendChat(x) \/ Answer(x) \/ SendPublish(x) \/ SaveChat(x)
    BY <2>1
  <2>3. \E step \in {"saved", "refused", "publish", "sent"} : Advance(x, step)
    BY <2>2 DEF SaveChat, SendChat, Answer, SendPublish, SendMessage
  <2>4. x = m
    BY <1>2, <2>3 DEF Advance, TableInv, StoreTypes
  <2>5. ~SaveChat(m) /\ ~SendPublish(m)
    <3>1. SendPublish(m) => sending[m] = "publish"
      BY DEF SendPublish, Sending
    <3>2. SaveChat(m) => sending'[m] \in {"saved", "refused"}
      BY DEF SaveChat, Advance, TableInv, StoreTypes
    <3> QED
      BY <1>2, <3>1, <3>2
  <2>6. SendMessage(m) /\ sending'[m] = "publish"
    <3>1. SendMessage(m)
      BY <2>2, <2>4, <2>5 DEF SendChat, Answer
    <3> QED
      BY <3>1 DEF SendMessage, Advance, TableInv, StoreTypes
  <2>7. CASE m \in UsedIds
    <3>1. \E r \in rows : r.msg = m
      BY <2>7 DEF UsedIds, TableInv, RowsOK
    <3> QED
      BY <3>1, RowsAfter DEF RowKept
  <2>8. CASE m \notin UsedIds
    <3>1. PICK item : item = <<m, NoId>>
      OBVIOUS
    <3>2. Item(SenderCopy(m)) = item /\ SenderCopy(m) \in Copies /\ MsgServer[m] \in Servers
      BY <2>8, <3>1, SentCopies, MsgAssumption DEF Item, SenderCopy
    <3>3. Enqueue(MsgServer[m], SenderCopy(m)) /\ UNCHANGED <<hand, life>>
      BY <2>6 DEF SendMessage, vars, runVars
    <3>4. SafeItem(item)'
      BY <3>2, <3>3, EnqueueIsSafe
    <3> QED
      BY <3>1, <3>4
  <2> QED
    BY <2>7, <2>8
<1> QED
  BY <1>1, <1>2

\* A row is marked after a copy of it was handed over, which stays so.
LEMMA MarkStep ==
  ASSUME TableInv, MarkInv, [StoreNext]_allVars
  PROVE  MarkInv'
<1>0. resend \in [Conns -> [at : {"idle", "query", "enqueue", "publish", "mark", "done"},
                            todo : SUBSET Ids, listed : SUBSET Ids, now : Ids \cup {NoId}]]
  BY DEF TableInv, StoreTypes
<1>1. ASSUME NEW r \in rows, SafeItem(<<r.msg, r.id>>) PROVE SafeItem(<<r.msg, r.id>>)'
  <2>1. PICK item : item = <<r.msg, r.id>>
    OBVIOUS
  <2>2. r.id \in Ids
    BY DEF TableInv, StoreTypes
  <2>3. item[2] # NoId
    BY <2>1, <2>2, MsgAssumption DEF Ids
  <2>4. SafeItem(item)'
    BY <1>1, <2>1, <2>3, StaysSafe
  <2>5. SafeItem(<<r.msg, r.id>>)' <=> SafeItem(item)'
    BY <2>1
  <2> QED
    BY <2>4, <2>5
<1>2. ASSUME NEW c \in Conns, NEW i \in resend'[c].listed \ resend'[c].todo,
             NEW r \in rows, r.id = i
      PROVE  SafeItem(<<r.msg, r.id>>)'
  <2>1. CASE i \in resend[c].listed \ resend[c].todo
    BY <1>1, <1>2, <2>1 DEF MarkInv
  <2>2. CASE i \notin resend[c].listed \ resend[c].todo
    <3>1. ResendEnqueue(c) /\ i \in resend[c].listed
      <4>0. resend'[c] # resend[c] /\ resend'[c].listed # {}
        BY <1>2, <2>2
      <4>1. \A step : Resend(step).listed = {} /\ Resend(step).todo = {}
        BY DEF Resend
      <4>2. ~ManagerStep
        <5>1. ManagerStep => resend'[c] \in {Resend("query"), resend[c]}
          BY DEF ManagerStep, Carried
        <5> QED
          BY <4>0, <4>1, <5>1
      <4>3. ASSUME NEW s \in Servers PROVE ~ProcessMessage(s)
        <5>1. Panic(s) => resend'[c] \in {Resend("done"), resend[c]}
          BY DEF Panic
        <5>2. ProcessMessage(s) => Panic(s) \/ UNCHANGED resend
          BY DEF ProcessMessage, Take, Collect, Deliver, PassFull, PassClosed, Store
        <5> QED
          BY <4>0, <4>1, <5>1, <5>2
      <4>4. ASSUME NEW d \in Conns, SendOfflineMessages(d) PROVE d = c
        <5>1. \E x : resend' = [resend EXCEPT ![d] = x]
          <6>1. Query(d) \/ Mark(d) => \E x : resend' = [resend EXCEPT ![d] = x]
            BY DEF Query, Mark
          <6>2. ResendEnqueue(d) => \E x : resend' = [resend EXCEPT ![d] = x]
            BY DEF ResendEnqueue
          <6>3. ResendPublish(d) => \E x : resend' = [resend EXCEPT ![d] = x]
            BY DEF ResendPublish
          <6> QED
            BY <4>4, <6>1, <6>2, <6>3 DEF SendOfflineMessages
        <5> QED
          BY <1>0, <4>0, <5>1
      <4>5. ~Mark(c)
        <5>1. Mark(c) => resend'[c] = Resend("done")
          BY <1>0 DEF Mark
        <5> QED
          BY <4>0, <4>1, <5>1
      <4>6. ~ResendPublish(c)
        <5>1. ResendPublish(c) => resend'[c].listed = resend[c].listed /\ resend'[c].todo = resend[c].todo
          BY <1>0 DEF ResendPublish
        <5> QED
          BY <1>2, <2>2, <5>1
      <4>7. ~Query(c)
        <5> DEFINE found == {q.id : q \in {q \in rows : q.status = "unsent" /\ MsgTo[q.msg] = ConnUser[c]}}
                   step == IF found = {} THEN "done" ELSE "enqueue"
        <5>1. Query(c) => \/ resend'[c] = [Resend(step) EXCEPT !.todo = found, !.listed = found]
                          \/ resend'[c] = Resend("done")
          BY <1>0 DEF Query
        <5> HIDE DEF found, step
        <5>2. [Resend(step) EXCEPT !.todo = found, !.listed = found].todo = found
              /\ [Resend(step) EXCEPT !.todo = found, !.listed = found].listed = found
          BY DEF Resend
        <5> QED
          BY <1>2, <4>0, <4>1, <5>1, <5>2
      <4>8. (~\E d \in Conns : SendOfflineMessages(d)) => resend' = resend
        BY <4>2, <4>3 DEF StoreNext, allVars, msgVars, HandleMessage, SaveChat, SendChat, Answer, SendPublish,
                          SendMessage, Receive
      <4>9. ResendEnqueue(c)
        BY <4>0, <4>4, <4>5, <4>6, <4>7, <4>8 DEF SendOfflineMessages
      <4>10. resend'[c].listed = resend[c].listed
        BY <1>0, <4>9 DEF ResendEnqueue
      <4> QED
        BY <1>2, <4>9, <4>10
    <3>2. PICK j \in resend[c].todo :
            /\ Enqueue(ConnServer[c], RowCopy(c, j))
            /\ resend'[c].todo = resend[c].todo \ {j}
      BY <1>0, <3>1 DEF ResendEnqueue
    <3>3. j = i
      BY <1>2, <2>2, <3>1, <3>2
    <3>4. PICK item : item = <<r.msg, r.id>>
      OBVIOUS
    <3>5. i \in UsedIds /\ RowCopy(c, i) \in Copies /\ RowCopy(c, i).id = i /\ RowCopy(c, i).msg = r.msg
      <4>1. i \in UsedIds
        BY <1>2 DEF UsedIds
      <4> QED
        BY <1>2, <4>1, SentCopies
    <3>6. Item(RowCopy(c, i)) = item
      BY <1>2, <3>4, <3>5 DEF Item
    <3>7. UNCHANGED <<hand, life>> /\ ConnServer[c] \in Servers
      BY <3>1, ConnAssumption DEF ResendEnqueue, vars, runVars
    <3>8. SafeItem(item)'
      BY <3>2, <3>3, <3>5, <3>6, <3>7, EnqueueIsSafe
    <3>9. SafeItem(<<r.msg, r.id>>)' <=> SafeItem(item)'
      BY <3>4
    <3> QED
      BY <3>8, <3>9
  <2> QED
    BY <2>1, <2>2
<1>3. ASSUME NEW c \in Conns, NEW i \in resend'[c].listed \ resend'[c].todo,
             NEW q \in rows', q.id = i
      PROVE  SafeItem(<<q.msg, q.id>>)'
  <2>1. CASE RowKept(q, rows)
    <3>1. PICK r \in rows : r.id = q.id /\ r.msg = q.msg
      BY <2>1 DEF RowKept
    <3>2. SafeItem(<<r.msg, r.id>>)'
      BY <1>2, <1>3, <3>1
    <3>3. <<r.msg, r.id>> = <<q.msg, q.id>>
      BY <3>1
    <3> QED
      BY <3>2, <3>3
  <2>2. CASE ~RowKept(q, rows)
    <3>1. i \notin UsedIds /\ UNCHANGED resend
      <4>1. /\ q.id \notin UsedIds /\ q.status # "sent"
            /\ ~UNCHANGED rows
            /\ ~\E d \in Conns : Mark(d)
        <5>1. q.id \notin UsedIds /\ q.status # "sent"
          BY <2>2, RowsAfter
        <5>2. ~UNCHANGED rows
          BY <2>2 DEF RowKept
        <5>3. ASSUME NEW d \in Conns, Mark(d) PROVE FALSE
          <6>1. Marked(d)
            BY <5>2, <5>3 DEF Mark, Marked
          <6>2. \A r \in rows : /\ [r EXCEPT !.status = "sent"].id = r.id
                                /\ [r EXCEPT !.status = "sent"].msg = r.msg
            BY DEF TableInv, StoreTypes
          <6> QED
            BY <2>2, <6>1, <6>2 DEF Marked, RowKept
        <5> QED
          BY <5>1, <5>2, <5>3
      <4>2. (\E m \in Msgs : SaveChat(m)) \/ (\E s \in Servers : Store(s))
        BY <4>1, RowSteps
      <4> QED
        BY <1>3, <4>1, <4>2 DEF SaveChat, Store
    <3> QED
      BY <1>3, <3>1 DEF TableInv, ResendOK
  <2> QED
    BY <2>1, <2>2
<1>4. ASSUME NEW q \in rows', q.status = "sent" PROVE SafeItem(<<q.msg, q.id>>)'
  <2>1. PICK r \in rows : /\ r.id = q.id /\ r.msg = q.msg
                          /\ \/ r.status = "sent"
                             \/ \E c \in Conns : Mark(c) /\ r.id \in resend[c].listed
    BY <1>4, RowsAfter
  <2>2. SafeItem(<<r.msg, r.id>>)
    <3>1. ASSUME NEW c \in Conns, Mark(c), r.id \in resend[c].listed PROVE SafeItem(<<r.msg, r.id>>)
      <4>1. resend[c].todo = {}
        BY <3>1 DEF Mark, Resending, TableInv, ResendOK
      <4> QED
        BY <3>1, <4>1 DEF MarkInv
    <3> QED
      BY <2>1, <3>1 DEF MarkInv
  <2>3. SafeItem(<<r.msg, r.id>>)'
    BY <1>1, <2>2
  <2>4. <<r.msg, r.id>> = <<q.msg, q.id>>
    BY <2>1
  <2> QED
    BY <2>3, <2>4
<1> QED
  BY <1>3, <1>4 DEF MarkInv

\* There is nothing to keep in the beginning.
LEMMA MarkInit ==
  ASSUME StoreInit
  PROVE  SavedOK /\ KeptInv /\ MarkInv
BY DEF StoreInit, SavedOK, KeptInv, MarkInv, Resend

\* The table, the queues and the goroutines, of any number of each.
THEOREM TableInvariant == StoreSpec => [](TableInv /\ SavedOK /\ KeptInv /\ MarkInv)
<1>1. TableInv /\ SavedOK /\ KeptInv /\ MarkInv /\ [StoreNext]_allVars
        => (TableInv /\ SavedOK /\ KeptInv /\ MarkInv)'
  BY TableStep, SavedStep, KeptStep, MarkStep
<1> QED
  BY <1>1, TableInit, MarkInit, PTL DEF StoreSpec

\* KeptOrDelivered: what SendMessage has accepted, and no table holds, is in a
\* queue or in hand until a connection takes it, it is stored, or it ends for a
\* reason the code reports.
THEOREM AcceptedIsKept == StoreSpec => []KeptOrDelivered
<1>1. TableInv /\ KeptInv => KeptOrDelivered
  <2> SUFFICES ASSUME TableInv, KeptInv, NEW m \in Msgs, sending[m] \in {"publish", "sent"}
               PROVE  \/ Item(SenderCopy(m)) \in ended \/ OnItsWay(Item(SenderCopy(m)))
                      \/ \E r \in rows : r.msg = m
    BY DEF KeptOrDelivered
  <2>1. CASE m \in UsedIds
    BY <2>1 DEF UsedIds, TableInv, RowsOK
  <2>2. CASE m \notin UsedIds
    <3>1. Item(SenderCopy(m)) = <<m, NoId>>
      BY <2>2 DEF SenderCopy, Item
    <3> QED
      BY <3>1 DEF KeptInv, SafeItem
  <2> QED
    BY <2>1, <2>2
<1> QED
  BY <1>1, TableInvariant, PTL

\* MarkedWasSent: a goroutine marks all it has listed, and all of it has been
\* handed to the queue, or refused, before.
THEOREM MarkedWasHandedOver == StoreSpec => []MarkedWasSent
<1>1. MarkInv => MarkedWasSent
  BY DEF MarkInv, MarkedWasSent, SafeItem
<1> QED
  BY <1>1, TableInvariant, PTL
-----------------------------------------------------------------------------
(* The types of the manager, whose Run gets its arguments from a message.  *)

Arguments == [user : Users \cup {NoUser}, type : ConnTypes \cup {NoType}]

\* They may get another user or another type.
LEMMA ArgumentTypes ==
  ASSUME call \in [Procs -> Arguments], NEW p \in Procs, NEW u \in Users \cup {NoUser},
         NEW t \in ConnTypes \cup {NoType}
  PROVE  /\ [call EXCEPT ![p].user = u] \in [Procs -> Arguments]
         /\ [call EXCEPT ![p].type = t] \in [Procs -> Arguments]
BY DEF Arguments

\* A running UnregisterConnection keeps the types.
LEMMA UnregisterTypes ==
  ASSUME TypeOK, NEW p \in Procs, UnregisterConnection(p)
  PROVE  TypeOK'
<1> USE DEF TypeOK, Steps, RegisterSteps, UnregisterSteps, Goto, AfterClose, mapVars, redisVars
<1>1. CASE Remove(p)
  BY <1>1 DEF Remove, OfType, UserConns
<1>2. CASE CloseRemoved(p)
  BY <1>2 DEF CloseRemoved
<1>3. CASE DeleteMember(p)
  BY <1>3 DEF DeleteMember
<1>4. CASE DeleteListed(p)
  BY <1>4 DEF DeleteListed
<1>5. ASSUME UNCHANGED <<mapVars, redisVars, toClose, life>>, Return(p),
             online' \in [Servers -> SUBSET Users]
      PROVE  TypeOK'
  <2>1. pc' \in [Procs -> Steps]
    BY <1>5 DEF Return
  <2>2. call' = [call EXCEPT ![p].user = NoUser] \/ UNCHANGED call
    BY <1>5 DEF Return
  <2>3. call' \in [Procs -> [user : Users \cup {NoUser}, type : ConnTypes \cup {NoType}]]
    <3>1. NoUser \in Users \cup {NoUser} /\ NoType \in ConnTypes \cup {NoType}
      OBVIOUS
    <3>2. call \in [Procs -> Arguments]
      BY DEF Arguments
    <3>3. [call EXCEPT ![p].user = NoUser] \in [Procs -> Arguments]
      BY <3>1, <3>2, ArgumentTypes
    <3> QED
      BY <2>2, <3>2, <3>3 DEF Arguments
  <2> HIDE DEF Steps, RegisterSteps, UnregisterSteps
  <2> QED
    BY <1>5, <2>1, <2>3
<1>6. CASE CheckOthers(p)
  BY <1>5, <1>6 DEF CheckOthers
<1>7. CASE MarkOffline(p)
  BY <1>5, <1>7 DEF MarkOffline
<1> QED
  BY <1>1, <1>2, <1>3, <1>4, <1>6, <1>7 DEF UnregisterConnection

\* So does every step of the composition: Run unregisters the recipient of the
\* message it has in hand, who is a user.
LEMMA ManagerTypes ==
  ASSUME TypeOK, TableInv, [StoreNext]_allVars
  PROVE  TypeOK'
<1> USE DEF TypeOK, Steps, RegisterSteps, UnregisterSteps, Goto, mapVars, redisVars, procVars
<1>1. CASE ClientStep
  <2>1. ASSUME NEW c \in Conns, Accept(c) PROVE TypeOK'
    <3>1. pc' \in [Procs -> Steps]
      BY <2>1 DEF Accept
    <3>2. call' = [call EXCEPT ![c].type = "websocket"] \/ UNCHANGED call
      BY <2>1 DEF Accept
    <3>3. call' \in [Procs -> [user : Users \cup {NoUser}, type : ConnTypes \cup {NoType}]]
      <4>1. /\ c \in Procs /\ NoUser \in Users \cup {NoUser}
            /\ "websocket" \in ConnTypes \cup {NoType}
        BY DEF Procs, ConnTypes
      <4>2. call \in [Procs -> Arguments]
        BY DEF Arguments
      <4>3. [call EXCEPT ![c].type = "websocket"] \in [Procs -> Arguments]
        BY <4>1, <4>2, ArgumentTypes
      <4> QED
        BY <3>2, <4>2, <4>3 DEF Arguments
    <3> QED
      BY <2>1, <3>1, <3>3 DEF Accept
  <2>2. ASSUME NEW c \in Conns, ReaderCloses(c) PROVE TypeOK'
    BY <2>2 DEF ReaderCloses
  <2> QED
    BY <1>1, <2>1, <2>2 DEF ClientStep
<1>2. ASSUME NEW c \in Conns, RegisterConnection(c) \/ Leave(c) PROVE TypeOK'
  <2>1. CASE AddConnection(c)
    BY <2>1, ConnAssumption DEF AddConnection
  <2>2. CASE AddMember(c) \/ AddListed(c)
    <3>1. ConnUser[c] \in Users /\ ConnType[c] \in ConnTypes
      BY ConnAssumption
    <3>2. pc' \in [Procs -> Steps]
      BY <2>2 DEF AddMember, AddListed
    <3> QED
      BY <2>2, <3>1, <3>2 DEF AddMember, AddListed
  <2>4. CASE MarkOnline(c)
    <3>1. ConnUser[c] \in Users /\ ConnServer[c] \in Servers
      BY ConnAssumption
    <3>2. pc' \in [Procs -> Steps] /\ online' \in [Servers -> SUBSET Users]
      BY <2>4, <3>1 DEF MarkOnline
    <3> QED
      BY <2>4, <3>2 DEF MarkOnline
  <2>3. CASE Leave(c)
    BY <2>3, ConnAssumption DEF Leave, Procs
  <2> QED
    BY <1>2, <2>1, <2>2, <2>3, <2>4 DEF RegisterConnection
<1>3. ASSUME NEW s \in Servers, CloseManager(s) \/ ProcessGone(s) PROVE TypeOK'
  BY <1>3 DEF CloseManager, ProcessGone
<1>4. ASSUME NEW s \in Servers, PassClosed(s) PROVE TypeOK'
  <2>1. hand[s] \in Copies
    BY <1>4 DEF PassClosed, Working, TableInv, HandOK, StoreTypes
  <2>2. Recipient(s) \in Users
    BY <2>1, MsgAssumption DEF Recipient, Copies
  <2>3. BeginDrop(s, Recipient(s))
    BY <1>4 DEF PassClosed
  <2> QED
    BY <2>2, <2>3 DEF BeginDrop, Procs
<1>5. CASE UNCHANGED vars
  BY <1>5 DEF vars
<1>6. ASSUME NEW s \in Servers, ProcessMessage(s) PROVE TypeOK'
  <2>1. CASE Panic(s)
    BY <1>3, <2>1 DEF Panic
  <2>2. CASE Take(s) \/ Collect(s) \/ Deliver(s) \/ PassFull(s) \/ Store(s)
    BY <1>5, <2>2 DEF Take, Collect, Deliver, PassFull, Store
  <2> QED
    BY <1>4, <1>6, <2>1, <2>2 DEF ProcessMessage
<1>7. CASE ManagerStep
  BY <1>1, <1>2, <1>3, <1>7, UnregisterTypes, FlagAssumption DEF ManagerStep, HandlerStep, Procs
<1>8. CASE UNCHANGED allVars
  BY <1>5, <1>8 DEF allVars
<1>9. CASE \/ \E m \in Msgs : HandleMessage(m)
           \/ \E s \in Servers : Receive(s)
           \/ \E c \in Conns : SendOfflineMessages(c)
  BY <1>5, <1>9, SendersLeaveMaps
<1> QED
  BY <1>6, <1>7, <1>8, <1>9 DEF StoreNext

\* Every variable of the manager keeps its type: the two maps, the sets in Redis
\* and the arguments of every running UnregisterConnection.
THEOREM ManagerTyped == StoreSpec => []TypeOK
<1>1. StoreInit => TypeOK
  BY ConnAssumption DEF StoreInit, Init, TypeOK, Procs, Steps, RegisterSteps, UnregisterSteps
<1>2. TypeOK /\ TableInv /\ [StoreNext]_allVars => TypeOK'
  BY ManagerTypes
<1> QED
  BY <1>1, <1>2, TableInvariant, PTL DEF StoreSpec
=============================================================================
