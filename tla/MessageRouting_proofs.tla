------------------------ MODULE MessageRouting_proofs ------------------------
(***************************************************************************)
(* Proofs about the connection manager and the way of a message through    *)
(* it, for any servers, users, connections and messages, any capacity of   *)
(* the queues, with Redis failing, connections coming and going and        *)
(* servers stopping and crashing at any step.                              *)
(*                                                                         *)
(* First ConnectionManager: its types, that nothing of a connection is     *)
(* left behind, and that a patient user is reachable.  Then MessageRouting:*)
(* its types, that it is a connection manager, that a message is in one    *)
(* place, in order, and not lost while its recipient is reachable.         *)
(***************************************************************************)
EXTENDS MessageRouting, SequenceTheorems, TLAPS

-----------------------------------------------------------------------------
(* The types of the manager.                                               *)

\* A goroutine is at a known step, and its server is a server.
LEMMA ServerOfProc == \A p \in Procs : ServerOf(p) \in Servers
BY ConnAssumption DEF Procs, ServerOf

\* UnregisterConnection returns to a known step of its caller.
LEMMA ReturnedStep == \A p \in Procs : Returned(p) \in Steps
BY DEF Procs, Returned, Steps, RegisterSteps

\* Every step is one of these, of some goroutine, handler, server or route.
LEMMA NextSteps ==
  ASSUME [Next]_vars
  PROVE  \/ \E p \in Procs : UnregisterConnection(p)
         \/ \E c \in Conns : \/ Accept(c) \/ AddConnection(c) \/ AddLocalUser(c) \/ SetRoute(c)
                           \/ AddMember(c) \/ MarkOnline(c) \/ AnnounceOnline(c)
                           \/ ReaderCloses(c) \/ AnnounceOffline(c)
         \/ \E s \in Servers, u \in Addressees : DropClosed(s, u)
         \/ \E s \in Servers : \/ BeginStop(s) \/ ReadMembers(s) \/ SweepUser(s) \/ DeleteMembers(s)
                             \/ CloseAll(s) \/ ProcessGone(s) \/ Restart(s)
         \/ \E u \in Users : RouteExpires(u)
         \/ UNCHANGED vars
<1>1. ASSUME NEW c \in Conns, HandlerStep(c)
      PROVE  \/ \E p \in Procs : UnregisterConnection(p)
             \/ AddConnection(c) \/ AddLocalUser(c) \/ SetRoute(c)
             \/ AddMember(c) \/ MarkOnline(c) \/ AnnounceOnline(c) \/ AnnounceOffline(c)
  BY <1>1 DEF HandlerStep, RegisterConnection, Procs
<1>2. ASSUME NEW s \in Servers, UnregisterConnection(s)
      PROVE  \E p \in Procs : UnregisterConnection(p)
  BY <1>2 DEF Procs
<1>3. ASSUME NEW s \in StopServers, BeginStop(s) \/ StopStep(s)
      PROVE  /\ s \in Servers
             /\ \/ BeginStop(s) \/ ReadMembers(s) \/ SweepUser(s) \/ DeleteMembers(s)
                \/ CloseAll(s) \/ ProcessGone(s)
  BY <1>3, FlagAssumption DEF StopStep, Exit
<1>4. ASSUME NEW s \in CrashServers, Crash(s)
      PROVE  s \in Servers /\ ProcessGone(s)
  BY <1>4, FlagAssumption DEF Crash
<1>. QED
  BY <1>1, <1>2, <1>3, <1>4 DEF Next

\* The arguments of a call of UnregisterConnection.
Calls == [user : Users \cup {NoUser}, type : ConnTypes \cup {NoType}]

\* A goroutine that goes to a known step, and a call that gets another type or
\* another user, stay within their types.
LEMMA ProcTyped ==
  ASSUME TypeOK, NEW p \in Procs
  PROVE  /\ \A step \in Steps : Goto(p, step) => pc' \in [Procs -> Steps]
         /\ \A type \in ConnTypes : call' = [call EXCEPT ![p].type = type] => call' \in [Procs -> Calls]
         /\ \A user \in Users : call' = [call EXCEPT ![p].user = user] => call' \in [Procs -> Calls]
<1>1. call \in [Procs -> Calls] /\ call[p] \in Calls
  BY DEF TypeOK, Calls
<1>2. ASSUME NEW step \in Steps, Goto(p, step) PROVE pc' \in [Procs -> Steps]
  BY <1>2 DEF TypeOK, Goto
<1>3. ASSUME NEW type \in ConnTypes, call' = [call EXCEPT ![p].type = type]
      PROVE  call' \in [Procs -> Calls]
  <2>1. call' = [call EXCEPT ![p] = [call[p] EXCEPT !.type = type]]
    BY <1>3
  <2>2. [call[p] EXCEPT !.type = type] \in Calls
    BY <1>1 DEF Calls
  <2>. QED
    BY <1>1, <2>1, <2>2
<1>4. ASSUME NEW user \in Users, call' = [call EXCEPT ![p].user = user]
      PROVE  call' \in [Procs -> Calls]
  <2>1. call' = [call EXCEPT ![p] = [call[p] EXCEPT !.user = user]]
    BY <1>4
  <2>2. [call[p] EXCEPT !.user = user] \in Calls
    BY <1>1 DEF Calls
  <2>. QED
    BY <1>1, <2>1, <2>2
<1>. QED
  BY <1>2, <1>3, <1>4

\* What an update of a user's status makes of what the friends have been told.
LEMMA UpdateTyped ==
  ASSUME TypeOK, NEW u \in Users, NEW status \in {"online", "offline"},
         SendStatusUpdate(u, status)
  PROVE  /\ announced' \in [Users -> [status : {"none", "online", "offline"}, missed : BOOLEAN]]
         /\ \A v \in Users : v # u => announced'[v] = announced[v]
         /\ u \in Befriended => announced'[u].missed \/ announced'[u].status = status
<1> USE DEF TypeOK
<1>1. announced[u] \in [status : {"none", "online", "offline"}, missed : BOOLEAN]
  OBVIOUS
<1>2. CASE UNCHANGED announced /\ u \notin Befriended
  BY <1>2
<1>3. CASE announced' = [announced EXCEPT ![u] = [status |-> status, missed |-> FALSE]]
  BY <1>3
<1>4. CASE announced' = [announced EXCEPT ![u].missed = TRUE]
  BY <1>1, <1>4
<1>. QED
  BY <1>2, <1>3, <1>4 DEF SendStatusUpdate

\* Every step keeps the types.
LEMMA NextTypeOK ==
  ASSUME TypeOK, [Next]_vars
  PROVE  TypeOK'
<1> USE ConnAssumption, ServerOfProc, ReturnedStep
    DEF TypeOK, mapVars, memoryVars, redisVars, procVars, serverVars, Goto, AfterClose
<1>1. ASSUME NEW p \in Procs, Remove(p) PROVE TypeOK'
  BY <1>1 DEF Remove, UserConns, Steps, UnregisterSteps
<1>2. ASSUME NEW p \in Procs, CloseRemoved(p) PROVE TypeOK'
  BY <1>2 DEF CloseRemoved, Steps, UnregisterSteps
<1>3. ASSUME NEW p \in Procs, CheckOthers(p) PROVE TypeOK'
  BY <1>3 DEF CheckOthers, Steps, UnregisterSteps
<1>4. ASSUME NEW p \in Procs, DeleteLocalUser(p) PROVE TypeOK'
  BY <1>4 DEF DeleteLocalUser, Steps, UnregisterSteps
<1>5. ASSUME NEW p \in Procs, DeleteRoute(p) PROVE TypeOK'
  BY <1>5 DEF DeleteRoute, Steps, UnregisterSteps
<1>6. ASSUME NEW p \in Procs, DeleteMember(p) PROVE TypeOK'
  <2>0. \/ serverUsers' = [serverUsers EXCEPT ![ServerOf(p)] = @ \ {call[p].user}]
        \/ serverUsers' = serverUsers
    BY <1>6 DEF DeleteMember
  <2>1. serverUsers' \in [Servers -> SUBSET Users]
    <3>1. serverUsers \in [Servers -> SUBSET Users]
      OBVIOUS
    <3>2. CASE serverUsers' = serverUsers
      BY <3>1, <3>2
    <3>3. CASE serverUsers' = [serverUsers EXCEPT ![ServerOf(p)] = @ \ {call[p].user}]
      BY <3>1, <3>3
    <3>. QED
      BY <2>0, <3>2, <3>3
  <2>2. pc' \in [Procs -> Steps]
    BY <1>6 DEF DeleteMember, Steps, UnregisterSteps
  <2>. QED
    BY <2>1, <2>2, <1>6 DEF DeleteMember
<1>7. ASSUME NEW p \in Procs, RecheckOthers(p) PROVE TypeOK'
  BY <1>7 DEF RecheckOthers, Steps, UnregisterSteps
<1>8. ASSUME NEW p \in Procs, MarkOffline(p) PROVE TypeOK'
  BY <1>8 DEF MarkOffline
<1>9. ASSUME NEW c \in Conns, AddConnection(c) PROVE TypeOK'
  BY <1>9 DEF AddConnection, Procs, Steps, RegisterSteps
<1>10. ASSUME NEW c \in Conns, AddLocalUser(c) PROVE TypeOK'
  BY <1>10 DEF AddLocalUser, Procs, Steps, RegisterSteps
<1>11. ASSUME NEW c \in Conns, SetRoute(c) PROVE TypeOK'
  <2>1. \/ registry' = [registry EXCEPT ![ConnUser[c]] = ConnServer[c]]
        \/ registry' = registry
    BY <1>11 DEF SetRoute
  <2>2. registry' \in [Users -> Servers \cup {NoServer}]
    BY <2>1
  <2>3. pc' \in [Procs -> Steps]
    BY <1>11, ProcTyped DEF SetRoute, Procs, Steps, RegisterSteps
  <2>. QED
    BY <1>11, <2>2, <2>3 DEF SetRoute
<1>12. ASSUME NEW c \in Conns, AddMember(c) PROVE TypeOK'
  <2>0. \/ serverUsers' = [serverUsers EXCEPT ![ConnServer[c]] = @ \cup {ConnUser[c]}]
        \/ serverUsers' = serverUsers
    BY <1>12 DEF AddMember
  <2>1. serverUsers' \in [Servers -> SUBSET Users]
    <3>1. ConnUser[c] \in Users /\ serverUsers \in [Servers -> SUBSET Users]
      OBVIOUS
    <3>2. CASE serverUsers' = serverUsers
      BY <3>1, <3>2
    <3>3. CASE serverUsers' = [serverUsers EXCEPT ![ConnServer[c]] = @ \cup {ConnUser[c]}]
      BY <3>1, <3>3
    <3>. QED
      BY <2>0, <3>2, <3>3
  <2>2. pc' \in [Procs -> Steps]
    BY <1>12 DEF AddMember, Procs, Steps, RegisterSteps
  <2>. QED
    BY <2>1, <2>2, <1>12 DEF AddMember
<1>13. ASSUME NEW c \in Conns, MarkOnline(c) PROVE TypeOK'
  BY <1>13 DEF MarkOnline, Procs, Steps, RegisterSteps
<1>14. ASSUME NEW c \in Conns, Accept(c) PROVE TypeOK'
  <2>0. /\ call' = [call EXCEPT ![c].type = "websocket"] \/ call' = call
        /\ pc' = [pc EXCEPT ![c] = "remove"] \/ pc' = [pc EXCEPT ![c] = "register"]
    BY <1>14 DEF Accept
  <2>1. call' \in [Procs -> Calls]
    <3>1. CASE call' = call
      BY <3>1 DEF Calls
    <3>2. CASE call' = [call EXCEPT ![c].type = "websocket"]
      BY <3>2, ProcTyped DEF Procs, ConnTypes
    <3>. QED
      BY <2>0, <3>1, <3>2
  <2>2. pc' \in [Procs -> Steps]
    BY <2>0 DEF Procs, Steps, RegisterSteps, UnregisterSteps
  <2>. QED
    BY <2>1, <2>2, <1>14 DEF Accept, Calls
<1>15. ASSUME NEW c \in Conns, AnnounceOnline(c) PROVE TypeOK'
  <2>1. announced' \in [Users -> [status : {"none", "online", "offline"}, missed : BOOLEAN]]
    BY <1>15, UpdateTyped DEF AnnounceOnline
  <2>. QED
    BY <1>15, <2>1 DEF AnnounceOnline, Procs, Steps
<1>16. ASSUME NEW c \in Conns, ReaderCloses(c) PROVE TypeOK'
  BY <1>16 DEF ReaderCloses
<1>17. ASSUME NEW c \in Conns, AnnounceOffline(c) PROVE TypeOK'
  <2>1. call' \in [Procs -> Calls]
    BY <1>17, ProcTyped DEF AnnounceOffline, Procs
  <2>2. pc' \in [Procs -> Steps]
    BY <1>17, ProcTyped DEF AnnounceOffline, Procs, Steps, UnregisterSteps
  <2>3. announced' \in [Users -> [status : {"none", "online", "offline"}, missed : BOOLEAN]]
    BY <1>17, UpdateTyped DEF AnnounceOffline
  <2>. QED
    BY <1>17, <2>1, <2>2, <2>3 DEF AnnounceOffline, Calls
<1>18. ASSUME NEW s \in Servers, NEW u \in Addressees, DropClosed(s, u) PROVE TypeOK'
  <2>1. call' \in [Procs -> Calls]
    BY <1>18, ProcTyped, FlagAssumption DEF DropClosed, Procs
  <2>2. pc' \in [Procs -> Steps]
    BY <1>18, ProcTyped DEF DropClosed, Procs, Steps, UnregisterSteps
  <2>. QED
    BY <1>18, <2>1, <2>2 DEF DropClosed, Calls
<1>19. ASSUME NEW s \in Servers, BeginStop(s) PROVE TypeOK'
  BY <1>19 DEF BeginStop, Stages
<1>20. ASSUME NEW s \in Servers, ReadMembers(s) PROVE TypeOK'
  <2>1. \/ sweep' = [sweep EXCEPT ![s] = serverUsers[s]]
        \/ sweep' = sweep
    BY <1>20 DEF ReadMembers
  <2>2. sweep' \in [Servers -> SUBSET Users]
    BY <2>1
  <2>3. stage' \in [Servers -> Stages]
    BY <1>20 DEF ReadMembers, Stages
  <2>. QED
    BY <1>20, <2>2, <2>3 DEF ReadMembers
<1>21. ASSUME NEW s \in Servers, SweepUser(s) PROVE TypeOK'
  <2>1. PICK u \in sweep[s] :
          /\ sweep' = [sweep EXCEPT ![s] = @ \ {u}]
          /\ registry' = [registry EXCEPT ![u] = NoServer] \/ UNCHANGED registry
    BY <1>21 DEF SweepUser
  <2>2. registry' \in [Users -> Servers \cup {NoServer}]
    BY <2>1
  <2>3. sweep' \in [Servers -> SUBSET Users]
    BY <2>1
  <2>. QED
    BY <2>2, <2>3, <1>21 DEF SweepUser
<1>22. ASSUME NEW s \in Servers, DeleteMembers(s) PROVE TypeOK'
  BY <1>22 DEF DeleteMembers, Stages
<1>23. ASSUME NEW s \in Servers, CloseAll(s) PROVE TypeOK'
  BY <1>23 DEF CloseAll, Stages
<1>24. ASSUME NEW s \in Servers, ProcessGone(s) PROVE TypeOK'
  <2>1. pc' \in [Procs -> Steps]
    BY <1>24 DEF ProcessGone, Steps
  <2>. QED
    BY <2>1, <1>24 DEF ProcessGone, Stages
<1>25. ASSUME NEW s \in Servers, Restart(s) PROVE TypeOK'
  <2>1. lives' \in [Servers -> 1 .. MaxLives]
    BY <1>25, FlagAssumption DEF Restart
  <2>. QED
    BY <2>1, <1>25 DEF Restart, Stages
<1>26. ASSUME NEW u \in Users, RouteExpires(u) PROVE TypeOK'
  BY <1>26 DEF RouteExpires
<1>27. CASE UNCHANGED vars
  BY <1>27 DEF vars
<1>. QED
  BY <1>1, <1>2, <1>3, <1>4, <1>5, <1>6, <1>7, <1>8, <1>9, <1>10, <1>11, <1>12, <1>13,
     <1>14, <1>15, <1>16, <1>17, <1>18, <1>19, <1>20, <1>21, <1>22, <1>23, <1>24, <1>25,
     <1>26, <1>27, NextSteps
  DEF UnregisterConnection

\* Everything is as typed when no connection has been accepted yet.
LEMMA InitTypeOK == Init => TypeOK
<1> SUFFICES ASSUME Init PROVE TypeOK
  OBVIOUS
<1>1. call \in [Procs -> [user : Users \cup {NoUser}, type : ConnTypes \cup {NoType}]]
  BY ConnAssumption, NameAssumption DEF Init, Procs
<1>2. pc \in [Procs -> Steps]
  BY DEF Init, Steps
<1>3. lives \in [Servers -> 1 .. MaxLives]
  BY FlagAssumption DEF Init
<1>. QED
  BY <1>1, <1>2, <1>3 DEF Init, TypeOK, Stages

\* Every variable keeps its type.
THEOREM TypeInvariant == Spec => []TypeOK
BY InitTypeOK, NextTypeOK, PTL DEF Spec

-----------------------------------------------------------------------------
(* The strengthening shared by the invariants below.                       *)

\* The arguments a goroutine calls UnregisterConnection with.
CallOK ==
  /\ \A c \in Conns : call[c].user = ConnUser[c] /\ call[c].type \in {ConnType[c], "websocket"}
  /\ \A s \in Servers : call[s].type = NoType

\* Only a call at its close step has connections to close, all of its server.
ClosingOK ==
  \A p \in Procs : \A c \in toClose[p] : pc[p] = "close" /\ ConnServer[c] = ServerOf(p)

\* Without Redis nothing enters the registry, and no goroutine tries.
RegistrySteps == {"local", "route", "member", "check", "unlocal", "unroute", "unmember"}
MemoryOnly ==
  ~RedisEnabled =>
    /\ \A s \in Servers : localUsers[s] = {} /\ serverUsers[s] = {}
    /\ \A u \in Users : registry[u] = NoServer
    /\ \A p \in Procs : pc[p] \notin RegistrySteps

SupportInv == CallOK /\ ClosingOK /\ MemoryOnly

\* Before anything runs, no call has arguments and no set has members.
LEMMA InitSupportInv == Init => SupportInv
BY ConnAssumption, NameAssumption DEF Init, SupportInv, CallOK, ClosingOK, MemoryOnly, RegistrySteps, Procs

\* Every step keeps the strengthening.
LEMMA NextSupportInv ==
  ASSUME TypeOK, SupportInv, [Next]_vars
  PROVE  SupportInv'
<1> SUFFICES CallOK' /\ ClosingOK' /\ MemoryOnly'
  BY DEF SupportInv
<1> USE ConnAssumption, NameAssumption, ServerOfProc
    DEF TypeOK, SupportInv, mapVars, memoryVars, redisVars, procVars, serverVars, Goto
<1>1. ASSUME NEW p \in Procs, Remove(p) PROVE CallOK' /\ ClosingOK' /\ MemoryOnly'
  <2>1. CallOK'
    BY <1>1 DEF Remove, CallOK
  <2>2. ClosingOK'
    BY <1>1 DEF Remove, ClosingOK, UserConns
  <2>3. MemoryOnly'
    BY <1>1 DEF Remove, MemoryOnly, RegistrySteps, AfterClose
  <2>. QED
    BY <2>1, <2>2, <2>3
<1>2. ASSUME NEW p \in Procs, CloseRemoved(p) PROVE CallOK' /\ ClosingOK' /\ MemoryOnly'
  <2>1. CallOK'
    BY <1>2 DEF CloseRemoved, CallOK
  <2>2. ClosingOK'
    BY <1>2 DEF CloseRemoved, ClosingOK
  <2>3. MemoryOnly'
    BY <1>2 DEF CloseRemoved, MemoryOnly, RegistrySteps, AfterClose
  <2>. QED
    BY <2>1, <2>2, <2>3
<1>3. ASSUME NEW p \in Procs, CheckOthers(p) PROVE CallOK' /\ ClosingOK' /\ MemoryOnly'
  <2>1. CallOK'
    BY <1>3 DEF CheckOthers, CallOK
  <2>2. ClosingOK'
    BY <1>3 DEF CheckOthers, ClosingOK
  <2>3. MemoryOnly'
    BY <1>3 DEF CheckOthers, MemoryOnly, RegistrySteps
  <2>. QED
    BY <2>1, <2>2, <2>3
<1>4. ASSUME NEW p \in Procs, DeleteLocalUser(p) PROVE CallOK' /\ ClosingOK' /\ MemoryOnly'
  <2>1. CallOK'
    BY <1>4 DEF DeleteLocalUser, CallOK
  <2>2. ClosingOK'
    BY <1>4 DEF DeleteLocalUser, ClosingOK
  <2>3. MemoryOnly'
    BY <1>4 DEF DeleteLocalUser, MemoryOnly, RegistrySteps
  <2>. QED
    BY <2>1, <2>2, <2>3
<1>5. ASSUME NEW p \in Procs, DeleteRoute(p) PROVE CallOK' /\ ClosingOK' /\ MemoryOnly'
  <2>1. CallOK'
    BY <1>5 DEF DeleteRoute, CallOK
  <2>2. ClosingOK'
    BY <1>5 DEF DeleteRoute, ClosingOK
  <2>3. MemoryOnly'
    BY <1>5 DEF DeleteRoute, MemoryOnly, RegistrySteps
  <2>. QED
    BY <2>1, <2>2, <2>3
<1>6. ASSUME NEW p \in Procs, DeleteMember(p) PROVE CallOK' /\ ClosingOK' /\ MemoryOnly'
  <2>1. CallOK'
    BY <1>6 DEF DeleteMember, CallOK
  <2>2. ClosingOK'
    BY <1>6 DEF DeleteMember, ClosingOK
  <2>3. MemoryOnly'
    BY <1>6 DEF DeleteMember, MemoryOnly, RegistrySteps
  <2>. QED
    BY <2>1, <2>2, <2>3
<1>7. ASSUME NEW p \in Procs, RecheckOthers(p) PROVE CallOK' /\ ClosingOK' /\ MemoryOnly'
  <2>1. CallOK'
    BY <1>7 DEF RecheckOthers, CallOK
  <2>2. ClosingOK'
    BY <1>7 DEF RecheckOthers, ClosingOK
  <2>3. MemoryOnly'
    BY <1>7 DEF RecheckOthers, MemoryOnly, RegistrySteps, Returned
  <2>. QED
    BY <2>1, <2>2, <2>3
<1>8. ASSUME NEW p \in Procs, MarkOffline(p) PROVE CallOK' /\ ClosingOK' /\ MemoryOnly'
  <2>1. CallOK'
    BY <1>8 DEF MarkOffline, CallOK
  <2>2. ClosingOK'
    BY <1>8 DEF MarkOffline, ClosingOK
  <2>3. MemoryOnly'
    BY <1>8 DEF MarkOffline, MemoryOnly, RegistrySteps, Returned
  <2>. QED
    BY <2>1, <2>2, <2>3
<1>9. ASSUME NEW c \in Conns, AddConnection(c) PROVE CallOK' /\ ClosingOK' /\ MemoryOnly'
  <2>1. CallOK'
    BY <1>9 DEF AddConnection, CallOK
  <2>2. ClosingOK'
    BY <1>9 DEF AddConnection, ClosingOK, Procs
  <2>3. MemoryOnly'
    BY <1>9 DEF AddConnection, MemoryOnly, RegistrySteps, Procs
  <2>. QED
    BY <2>1, <2>2, <2>3
<1>10. ASSUME NEW c \in Conns, AddLocalUser(c) PROVE CallOK' /\ ClosingOK' /\ MemoryOnly'
  <2>1. CallOK'
    BY <1>10 DEF AddLocalUser, CallOK
  <2>2. ClosingOK'
    BY <1>10 DEF AddLocalUser, ClosingOK, Procs
  <2>3. MemoryOnly'
    BY <1>10 DEF AddLocalUser, MemoryOnly, RegistrySteps, Procs
  <2>. QED
    BY <2>1, <2>2, <2>3
<1>11. ASSUME NEW c \in Conns, SetRoute(c) PROVE CallOK' /\ ClosingOK' /\ MemoryOnly'
  <2>1. CallOK'
    BY <1>11 DEF SetRoute, CallOK
  <2>2. ClosingOK'
    BY <1>11 DEF SetRoute, ClosingOK, Procs
  <2>3. MemoryOnly'
    BY <1>11 DEF SetRoute, MemoryOnly, RegistrySteps, Procs
  <2>. QED
    BY <2>1, <2>2, <2>3
<1>12. ASSUME NEW c \in Conns, AddMember(c) PROVE CallOK' /\ ClosingOK' /\ MemoryOnly'
  <2>1. CallOK'
    BY <1>12 DEF AddMember, CallOK
  <2>2. ClosingOK'
    BY <1>12 DEF AddMember, ClosingOK, Procs
  <2>3. MemoryOnly'
    BY <1>12 DEF AddMember, MemoryOnly, RegistrySteps, Procs
  <2>. QED
    BY <2>1, <2>2, <2>3
<1>13. ASSUME NEW c \in Conns, MarkOnline(c) PROVE CallOK' /\ ClosingOK' /\ MemoryOnly'
  <2>1. CallOK'
    BY <1>13 DEF MarkOnline, CallOK
  <2>2. ClosingOK'
    BY <1>13 DEF MarkOnline, ClosingOK, Procs
  <2>3. MemoryOnly'
    BY <1>13 DEF MarkOnline, MemoryOnly, RegistrySteps, Procs
  <2>. QED
    BY <2>1, <2>2, <2>3
<1>14. ASSUME NEW c \in Conns, Accept(c) PROVE CallOK' /\ ClosingOK' /\ MemoryOnly'
  <2>1. CallOK'
    <3>1. call' = [call EXCEPT ![c].type = "websocket"] \/ call' = call
      BY <1>14 DEF Accept
    <3>2. \A d \in Conns : call'[d].user = call[d].user
                          /\ call'[d].type \in {call[d].type, "websocket"}
      <4> SUFFICES ASSUME NEW d \in Conns
                   PROVE  /\ call'[d].user = call[d].user
                          /\ call'[d].type \in {call[d].type, "websocket"}
        OBVIOUS
      <4>1. CASE call' = call
        BY <4>1
      <4>2. CASE call' = [call EXCEPT ![c].type = "websocket"]
        <5>1. call \in [Procs -> [user : Users \cup {NoUser}, type : ConnTypes \cup {NoType}]]
          OBVIOUS
        <5>2. c \in Procs /\ d \in Procs
          BY DEF Procs
        <5>. QED
          BY <4>2, <5>1, <5>2
      <4>. QED
        BY <3>1, <4>1, <4>2
    <3>3. \A s \in Servers : call'[s] = call[s]
      BY <3>1 DEF Procs
    <3>. QED
      BY <3>2, <3>3 DEF CallOK
  <2>2. ClosingOK'
    BY <1>14 DEF Accept, ClosingOK, Procs
  <2>3. MemoryOnly'
    BY <1>14 DEF Accept, MemoryOnly, RegistrySteps, Procs
  <2>. QED
    BY <2>1, <2>2, <2>3
<1>15. ASSUME NEW c \in Conns, AnnounceOnline(c) PROVE CallOK' /\ ClosingOK' /\ MemoryOnly'
  <2>1. CallOK'
    BY <1>15 DEF AnnounceOnline, CallOK
  <2>2. ClosingOK'
    BY <1>15 DEF AnnounceOnline, ClosingOK, Procs
  <2>3. MemoryOnly'
    BY <1>15 DEF AnnounceOnline, MemoryOnly, RegistrySteps, Procs
  <2>. QED
    BY <2>1, <2>2, <2>3
<1>16. ASSUME NEW c \in Conns, ReaderCloses(c) PROVE CallOK' /\ ClosingOK' /\ MemoryOnly'
  <2>1. CallOK'
    BY <1>16 DEF ReaderCloses, CallOK
  <2>2. ClosingOK'
    BY <1>16 DEF ReaderCloses, ClosingOK, Procs
  <2>3. MemoryOnly'
    BY <1>16 DEF ReaderCloses, MemoryOnly, RegistrySteps, Procs
  <2>. QED
    BY <2>1, <2>2, <2>3
<1>17. ASSUME NEW c \in Conns, AnnounceOffline(c) PROVE CallOK' /\ ClosingOK' /\ MemoryOnly'
  <2>1. CallOK'
    BY <1>17 DEF AnnounceOffline, CallOK, Procs
  <2>2. ClosingOK'
    BY <1>17 DEF AnnounceOffline, ClosingOK, Procs
  <2>3. MemoryOnly'
    BY <1>17 DEF AnnounceOffline, MemoryOnly, RegistrySteps, Procs
  <2>. QED
    BY <2>1, <2>2, <2>3
<1>18. ASSUME NEW s \in Servers, NEW u \in Addressees, DropClosed(s, u) PROVE CallOK' /\ ClosingOK' /\ MemoryOnly'
  <2>1. CallOK'
    BY <1>18 DEF DropClosed, CallOK, Procs
  <2>2. ClosingOK'
    BY <1>18 DEF DropClosed, ClosingOK, Procs
  <2>3. MemoryOnly'
    BY <1>18 DEF DropClosed, MemoryOnly, RegistrySteps, Procs
  <2>. QED
    BY <2>1, <2>2, <2>3
<1>19. ASSUME NEW s \in Servers, BeginStop(s) PROVE CallOK' /\ ClosingOK' /\ MemoryOnly'
  <2>1. CallOK'
    BY <1>19 DEF BeginStop, CallOK
  <2>2. ClosingOK'
    BY <1>19 DEF BeginStop, ClosingOK, Procs
  <2>3. MemoryOnly'
    BY <1>19 DEF BeginStop, MemoryOnly, RegistrySteps, Procs
  <2>. QED
    BY <2>1, <2>2, <2>3
<1>20. ASSUME NEW s \in Servers, ReadMembers(s) PROVE CallOK' /\ ClosingOK' /\ MemoryOnly'
  <2>1. CallOK'
    BY <1>20 DEF ReadMembers, CallOK
  <2>2. ClosingOK'
    BY <1>20 DEF ReadMembers, ClosingOK, Procs
  <2>3. MemoryOnly'
    BY <1>20 DEF ReadMembers, MemoryOnly, RegistrySteps, Procs
  <2>. QED
    BY <2>1, <2>2, <2>3
<1>21. ASSUME NEW s \in Servers, SweepUser(s) PROVE CallOK' /\ ClosingOK' /\ MemoryOnly'
  <2>1. CallOK'
    BY <1>21 DEF SweepUser, CallOK
  <2>2. ClosingOK'
    BY <1>21 DEF SweepUser, ClosingOK, Procs
  <2>3. MemoryOnly'
    BY <1>21 DEF SweepUser, MemoryOnly, RegistrySteps, Procs
  <2>. QED
    BY <2>1, <2>2, <2>3
<1>22. ASSUME NEW s \in Servers, DeleteMembers(s) PROVE CallOK' /\ ClosingOK' /\ MemoryOnly'
  <2>1. CallOK'
    BY <1>22 DEF DeleteMembers, CallOK
  <2>2. ClosingOK'
    BY <1>22 DEF DeleteMembers, ClosingOK, Procs
  <2>3. MemoryOnly'
    BY <1>22 DEF DeleteMembers, MemoryOnly, RegistrySteps, Procs
  <2>. QED
    BY <2>1, <2>2, <2>3
<1>23. ASSUME NEW s \in Servers, CloseAll(s) PROVE CallOK' /\ ClosingOK' /\ MemoryOnly'
  <2>1. CallOK'
    BY <1>23 DEF CloseAll, CallOK
  <2>2. ClosingOK'
    BY <1>23 DEF CloseAll, ClosingOK, Procs
  <2>3. MemoryOnly'
    BY <1>23 DEF CloseAll, MemoryOnly, RegistrySteps, Procs
  <2>. QED
    BY <2>1, <2>2, <2>3
<1>24. ASSUME NEW s \in Servers, ProcessGone(s) PROVE CallOK' /\ ClosingOK' /\ MemoryOnly'
  <2>1. CallOK'
    BY <1>24 DEF ProcessGone, CallOK
  <2>2. ClosingOK'
    BY <1>24 DEF ProcessGone, ClosingOK, Procs
  <2>3. MemoryOnly'
    BY <1>24 DEF ProcessGone, MemoryOnly, RegistrySteps, Procs
  <2>. QED
    BY <2>1, <2>2, <2>3
<1>25. ASSUME NEW s \in Servers, Restart(s) PROVE CallOK' /\ ClosingOK' /\ MemoryOnly'
  <2>1. CallOK'
    BY <1>25 DEF Restart, CallOK
  <2>2. ClosingOK'
    BY <1>25 DEF Restart, ClosingOK, Procs
  <2>3. MemoryOnly'
    BY <1>25 DEF Restart, MemoryOnly, RegistrySteps, Procs
  <2>. QED
    BY <2>1, <2>2, <2>3
<1>26. ASSUME NEW u \in Users, RouteExpires(u) PROVE CallOK' /\ ClosingOK' /\ MemoryOnly'
  <2>1. CallOK'
    BY <1>26 DEF RouteExpires, CallOK
  <2>2. ClosingOK'
    BY <1>26 DEF RouteExpires, ClosingOK
  <2>3. MemoryOnly'
    BY <1>26 DEF RouteExpires, MemoryOnly, RegistrySteps
  <2>. QED
    BY <2>1, <2>2, <2>3
<1>27. CASE UNCHANGED vars
  BY <1>27 DEF vars, CallOK, ClosingOK, MemoryOnly
<1>. QED
  BY <1>1, <1>2, <1>3, <1>4, <1>5, <1>6, <1>7, <1>8, <1>9, <1>10, <1>11, <1>12, <1>13,
     <1>14, <1>15, <1>16, <1>17, <1>18, <1>19, <1>20, <1>21, <1>22, <1>23, <1>24, <1>25,
     <1>26, <1>27, NextSteps
  DEF UnregisterConnection

\* The strengthening is an invariant.
THEOREM SupportInvariant == Spec => []SupportInv
BY InitSupportInv, NextSupportInv, TypeInvariant, PTL DEF Spec

-----------------------------------------------------------------------------
(* The map of connections.                                                 *)

\* The map is empty in the beginning.
LEMMA InitNoLeakedEntry == Init => NoLeakedEntry
BY ConnAssumption DEF Init, NoLeakedEntry, Engaged, Leaving, Procs

\* Every step keeps a handler for every entry of the map.  The step that matters
\* is the handler's own Remove: the type it passes is that of its connection
\* (SupportInv), so its own entry is among those it removes.
LEMMA NextNoLeakedEntry ==
  ASSUME TypeOK, SupportInv, NoLeakedEntry, [Next]_vars
  PROVE  NoLeakedEntry'
<1> USE ConnAssumption, NameAssumption DEF TypeOK, mapVars, memoryVars, redisVars, procVars, serverVars, Goto
<1>1. ASSUME NEW p \in Procs, Remove(p) PROVE NoLeakedEntry'
  BY <1>1 DEF Remove, NoLeakedEntry, Engaged, Leaving, UserConns, SupportInv, CallOK, ServerOf, Procs
<1>2. ASSUME NEW p \in Procs, CloseRemoved(p) PROVE NoLeakedEntry'
  BY <1>2 DEF CloseRemoved, NoLeakedEntry, Engaged, Leaving
<1>3. ASSUME NEW p \in Procs, CheckOthers(p) PROVE NoLeakedEntry'
  BY <1>3 DEF CheckOthers, NoLeakedEntry, Engaged, Leaving
<1>4. ASSUME NEW p \in Procs, DeleteLocalUser(p) PROVE NoLeakedEntry'
  BY <1>4 DEF DeleteLocalUser, NoLeakedEntry, Engaged, Leaving
<1>5. ASSUME NEW p \in Procs, DeleteRoute(p) PROVE NoLeakedEntry'
  BY <1>5 DEF DeleteRoute, NoLeakedEntry, Engaged, Leaving
<1>6. ASSUME NEW p \in Procs, DeleteMember(p) PROVE NoLeakedEntry'
  BY <1>6 DEF DeleteMember, NoLeakedEntry, Engaged, Leaving
<1>7. ASSUME NEW p \in Procs, RecheckOthers(p) PROVE NoLeakedEntry'
  BY <1>7 DEF RecheckOthers, NoLeakedEntry, Engaged, Leaving
<1>8. ASSUME NEW p \in Procs, MarkOffline(p) PROVE NoLeakedEntry'
  BY <1>8 DEF MarkOffline, NoLeakedEntry, Engaged, Leaving
<1>9. ASSUME NEW c \in Conns, AddConnection(c) PROVE NoLeakedEntry'
  BY <1>9 DEF AddConnection, NoLeakedEntry, Engaged, Leaving, Procs
<1>10. ASSUME NEW c \in Conns, AddLocalUser(c) PROVE NoLeakedEntry'
  BY <1>10 DEF AddLocalUser, NoLeakedEntry, Engaged, Leaving, Procs
<1>11. ASSUME NEW c \in Conns, SetRoute(c) PROVE NoLeakedEntry'
  BY <1>11 DEF SetRoute, NoLeakedEntry, Engaged, Leaving, Procs
<1>12. ASSUME NEW c \in Conns, AddMember(c) PROVE NoLeakedEntry'
  BY <1>12 DEF AddMember, NoLeakedEntry, Engaged, Leaving, Procs
<1>13. ASSUME NEW c \in Conns, MarkOnline(c) PROVE NoLeakedEntry'
  BY <1>13 DEF MarkOnline, NoLeakedEntry, Engaged, Leaving, Procs
<1>14. ASSUME NEW c \in Conns, Accept(c) PROVE NoLeakedEntry'
  <2>1. pc[c] = "idle" /\ connections' = connections
    BY <1>14 DEF Accept
  <2>2. c \notin connections
    BY <2>1 DEF NoLeakedEntry, Engaged, Leaving
  <2>3. \A d \in Conns \ {c} : pc'[d] = pc[d] /\ call'[d] = call[d]
    BY <1>14 DEF Accept, Procs
  <2>. QED
    BY <2>1, <2>2, <2>3 DEF NoLeakedEntry, Engaged, Leaving
<1>15. ASSUME NEW c \in Conns, AnnounceOnline(c) PROVE NoLeakedEntry'
  BY <1>15 DEF AnnounceOnline, NoLeakedEntry, Engaged, Leaving, Procs
<1>16. ASSUME NEW c \in Conns, AnnounceOffline(c) PROVE NoLeakedEntry'
  BY <1>16 DEF AnnounceOffline, NoLeakedEntry, Engaged, Leaving, Procs
<1>17. ASSUME NEW s \in Servers, NEW u \in Addressees, DropClosed(s, u) PROVE NoLeakedEntry'
  BY <1>17 DEF DropClosed, NoLeakedEntry, Engaged, Leaving, Procs
<1>18. ASSUME NEW s \in Servers, CloseAll(s) PROVE NoLeakedEntry'
  BY <1>18 DEF CloseAll, NoLeakedEntry, Engaged, Leaving, Procs
<1>19. ASSUME NEW s \in Servers, ProcessGone(s) PROVE NoLeakedEntry'
  BY <1>19 DEF ProcessGone, NoLeakedEntry, Engaged, Leaving, Procs
<1>20. ASSUME UNCHANGED <<connections, pc, call>> PROVE NoLeakedEntry'
  BY <1>20 DEF NoLeakedEntry, Engaged, Leaving
<1>. QED
  BY <1>1, <1>2, <1>3, <1>4, <1>5, <1>6, <1>7, <1>8, <1>9, <1>10, <1>11, <1>12, <1>13,
     <1>14, <1>15, <1>16, <1>17, <1>18, <1>19, <1>20, NextSteps
  DEF vars, UnregisterConnection, ReaderCloses, BeginStop, ReadMembers, SweepUser,
      DeleteMembers, Restart, RouteExpires

\* An entry of the map always has a handler that will take it out.
THEOREM NoLeakedEntryTheorem == Spec => []NoLeakedEntry
BY InitNoLeakedEntry, NextNoLeakedEntry, TypeInvariant, SupportInvariant, PTL DEF Spec

\* A connection that was taken out of the map is closed or held by the call that
\* took it out: a call never forgets connections it has still to close, because it
\* begins with none (SupportInv).
THEOREM NoUnreachableTheorem == Spec => []NoUnreachableConnection
<1>1. Init => NoUnreachableConnection
  BY ConnAssumption DEF Init, NoUnreachableConnection, Engaged, Leaving, Procs
<1>2. TypeOK /\ SupportInv /\ NoUnreachableConnection /\ [Next]_vars => NoUnreachableConnection'
  <2> SUFFICES ASSUME TypeOK, SupportInv, NoUnreachableConnection, [Next]_vars PROVE NoUnreachableConnection'
    OBVIOUS
  <2> USE ConnAssumption, NameAssumption DEF TypeOK, mapVars, memoryVars, redisVars, procVars, serverVars, Goto
  <2>1. ASSUME NEW p \in Procs, Remove(p) PROVE NoUnreachableConnection'
    <3> SUFFICES ASSUME NEW c \in Conns, Engaged(c)', c \notin connections'
                 PROVE  c \in closed' \/ \E q \in Procs : c \in toClose'[q]
      BY DEF NoUnreachableConnection
    <3>1. c # p /\ Engaged(c)
      BY <2>1 DEF Remove, Engaged, Leaving, AfterClose
    <3>2. CASE c \in connections
      BY <2>1, <3>2 DEF Remove, UserConns
    <3>3. CASE c \notin connections
      <4>1. c \in closed \/ \E q \in Procs : c \in toClose[q]
        BY <3>1, <3>3 DEF NoUnreachableConnection
      <4>2. \A q \in Procs : c \in toClose[q] => q # p
        BY <2>1 DEF Remove, SupportInv, ClosingOK
      <4>. QED
        BY <2>1, <4>1, <4>2 DEF Remove
    <3>. QED
      BY <3>2, <3>3
  <2>2. ASSUME NEW p \in Procs, CloseRemoved(p) PROVE NoUnreachableConnection'
    <3> SUFFICES ASSUME NEW c \in Conns, Engaged(c)', c \notin connections'
                 PROVE  c \in closed' \/ \E q \in Procs : c \in toClose'[q]
      BY DEF NoUnreachableConnection
    <3>1. Engaged(c) /\ c \notin connections
      BY <2>2 DEF CloseRemoved, Engaged, Leaving, AfterClose
    <3>2. c \in closed \/ \E q \in Procs : c \in toClose[q]
      BY <3>1 DEF NoUnreachableConnection
    <3>3. PICK d \in toClose[p] :
             /\ closed' = closed \cup {d}
             /\ toClose' = [toClose EXCEPT ![p] = toClose[p] \ {d}]
             /\ pc' = [pc EXCEPT ![p] = IF toClose[p] = {d} THEN AfterClose ELSE "close"]
      BY <2>2 DEF CloseRemoved
    <3>4. CASE c \in closed \/ c = d
      BY <3>3, <3>4
    <3>5. ASSUME NEW q \in Procs, c \in toClose[q], c # d
          PROVE  c \in toClose'[q]
      BY <3>3, <3>5
    <3>. QED
      BY <3>2, <3>4, <3>5
  <2>3. ASSUME NEW p \in Procs, CheckOthers(p) PROVE NoUnreachableConnection'
    BY <2>3 DEF CheckOthers, NoUnreachableConnection, Engaged, Leaving
  <2>4. ASSUME NEW p \in Procs, DeleteLocalUser(p) PROVE NoUnreachableConnection'
    BY <2>4 DEF DeleteLocalUser, NoUnreachableConnection, Engaged, Leaving
  <2>5. ASSUME NEW p \in Procs, DeleteRoute(p) PROVE NoUnreachableConnection'
    BY <2>5 DEF DeleteRoute, NoUnreachableConnection, Engaged, Leaving
  <2>6. ASSUME NEW p \in Procs, DeleteMember(p) PROVE NoUnreachableConnection'
    BY <2>6 DEF DeleteMember, NoUnreachableConnection, Engaged, Leaving
  <2>7. ASSUME NEW p \in Procs, RecheckOthers(p) PROVE NoUnreachableConnection'
    BY <2>7 DEF RecheckOthers, Returned, NoUnreachableConnection, Engaged, Leaving
  <2>8. ASSUME NEW p \in Procs, MarkOffline(p) PROVE NoUnreachableConnection'
    BY <2>8 DEF MarkOffline, Returned, NoUnreachableConnection, Engaged, Leaving
  <2>9. ASSUME NEW c \in Conns, AddConnection(c) PROVE NoUnreachableConnection'
    BY <2>9 DEF AddConnection, NoUnreachableConnection, Engaged, Leaving, Procs
  <2>10. ASSUME NEW c \in Conns, AddLocalUser(c) PROVE NoUnreachableConnection'
    BY <2>10 DEF AddLocalUser, NoUnreachableConnection, Engaged, Leaving, Procs
  <2>11. ASSUME NEW c \in Conns, SetRoute(c) PROVE NoUnreachableConnection'
    <3>1. UNCHANGED <<connections, closed, call, toClose>> /\ Engaged(c)
      BY <2>11 DEF SetRoute, Engaged
    <3>2. \A d \in Conns \ {c} : pc'[d] = pc[d]
      BY <2>11 DEF SetRoute, Procs
    <3>. QED
      BY <3>1, <3>2 DEF NoUnreachableConnection, Engaged, Leaving
  <2>12. ASSUME NEW c \in Conns, AddMember(c) PROVE NoUnreachableConnection'
    BY <2>12 DEF AddMember, NoUnreachableConnection, Engaged, Leaving, Procs
  <2>13. ASSUME NEW c \in Conns, MarkOnline(c) PROVE NoUnreachableConnection'
    BY <2>13 DEF MarkOnline, NoUnreachableConnection, Engaged, Leaving, Procs
  <2>14. ASSUME NEW c \in Conns, Accept(c) PROVE NoUnreachableConnection'
    <3>1. \A d \in Conns : Engaged(d)' => Engaged(d)
      <4> SUFFICES ASSUME NEW d \in Conns, Engaged(d)' PROVE Engaged(d)
        OBVIOUS
      <4>1. CASE d # c
        BY <2>14, <4>1 DEF Accept, Engaged, Leaving, Procs
      <4>2. CASE d = c
        BY <2>14, <4>2 DEF Accept, Engaged, Leaving, Procs
      <4>. QED
        BY <4>1, <4>2
    <3>. QED
      BY <2>14, <3>1 DEF Accept, NoUnreachableConnection
  <2>15. ASSUME NEW c \in Conns, AnnounceOnline(c) PROVE NoUnreachableConnection'
    BY <2>15 DEF AnnounceOnline, NoUnreachableConnection, Engaged, Leaving, Procs
  <2>16. ASSUME NEW c \in Conns, ReaderCloses(c) PROVE NoUnreachableConnection'
    BY <2>16 DEF ReaderCloses, NoUnreachableConnection, Engaged, Leaving, Procs
  <2>17. ASSUME NEW c \in Conns, AnnounceOffline(c) PROVE NoUnreachableConnection'
    BY <2>17 DEF AnnounceOffline, NoUnreachableConnection, Engaged, Leaving, Procs
  <2>18. ASSUME NEW s \in Servers, NEW u \in Addressees, DropClosed(s, u) PROVE NoUnreachableConnection'
    BY <2>18 DEF DropClosed, NoUnreachableConnection, Engaged, Leaving, Procs
  <2>19. ASSUME NEW s \in Servers, CloseAll(s) PROVE NoUnreachableConnection'
    <3>1. UNCHANGED <<pc, call, toClose>> /\ closed \subseteq closed'
      BY <2>19 DEF CloseAll
    <3>2. connections \ connections' \subseteq closed'
      BY <2>19 DEF CloseAll
    <3>. QED
      BY <3>1, <3>2 DEF NoUnreachableConnection, Engaged, Leaving
  <2>20. ASSUME NEW s \in Servers, ProcessGone(s) PROVE NoUnreachableConnection'
    <3> SUFFICES ASSUME NEW c \in Conns, Engaged(c)', c \notin connections'
                 PROVE  c \in closed' \/ \E q \in Procs : c \in toClose'[q]
      BY DEF NoUnreachableConnection
    <3>1. ConnServer[c] # s /\ pc'[c] = pc[c] /\ call'[c] = call[c]
      BY <2>20 DEF ProcessGone, Engaged, Leaving, Procs
    <3>2. Engaged(c) /\ c \notin connections
      BY <2>20, <3>1 DEF ProcessGone, Engaged, Leaving
    <3>3. CASE c \in closed
      BY <2>20, <3>3 DEF ProcessGone
    <3>4. ASSUME NEW q \in Procs, c \in toClose[q] PROVE c \in toClose'[q]
      <4>1. ServerOf(q) # s
        BY <3>1, <3>4 DEF SupportInv, ClosingOK
      <4>. QED
        BY <2>20, <3>4, <4>1 DEF ProcessGone, ServerOf, Procs
    <3>. QED
      BY <3>2, <3>3, <3>4 DEF NoUnreachableConnection
  <2>21. ASSUME UNCHANGED <<connections, closed, pc, call, toClose>> PROVE NoUnreachableConnection'
    BY <2>21 DEF NoUnreachableConnection, Engaged, Leaving
  <2>22. ASSUME NEW s \in Servers,
                BeginStop(s) \/ ReadMembers(s) \/ SweepUser(s) \/ DeleteMembers(s) \/ Restart(s)
         PROVE  NoUnreachableConnection'
    BY <2>21, <2>22 DEF BeginStop, ReadMembers, SweepUser, DeleteMembers, Restart
  <2>23. ASSUME NEW u \in Users, RouteExpires(u) PROVE NoUnreachableConnection'
    BY <2>21, <2>23 DEF RouteExpires
  <2>24. CASE UNCHANGED vars
    BY <2>21, <2>24 DEF vars
  <2>. HIDE DEF TypeOK
  <2>. QED
    BY <2>1, <2>2, <2>3, <2>4, <2>5, <2>6, <2>7, <2>8, <2>9, <2>10, <2>11, <2>12, <2>13,
       <2>14, <2>15, <2>16, <2>17, <2>18, <2>19, <2>20, <2>22, <2>23, <2>24, NextSteps
    DEF UnregisterConnection
<1>. QED
  BY <1>1, <1>2, TypeInvariant, SupportInvariant, PTL DEF Spec

-----------------------------------------------------------------------------
(* No ghosts.                                                               *)

\* What one step does to the handler of connection c.  Unless its process ends, a
\* handler that is engaged stays so or begins to leave, and one that is leaving
\* goes on through UnregisterConnection.
HandlerMoves(c) ==
  \/ pc'[c] = pc[c] /\ call'[c] = call[c]
  \/ ~Engaged(c) /\ ~Leaving(c, UnregisterSteps)
  \/ Engaged(c) /\ Engaged(c)'
  \/ Leaving(c, {"remove", "close"}) /\ Leaving(c, {"close", AfterClose})'
  \/ Leaving(c, {"check"}) /\ CheckOthers(c)
  \/ Leaving(c, {"unlocal"}) /\ DeleteLocalUser(c)
  \/ Leaving(c, {"unroute"}) /\ DeleteRoute(c)
  \/ Leaving(c, {"unmember"}) /\ DeleteMember(c)
  \/ Leaving(c, {"recheck"}) /\ RecheckOthers(c)
  \/ Leaving(c, {"offline"}) /\ MarkOffline(c)
  \/ ProcessGone(ConnServer[c])

\* Every step of the manager does one of these things to the handler of c.
LEMMA HandlerStepMoves ==
  ASSUME TypeOK, SupportInv, [Next]_vars, NEW c \in Conns
  PROVE  HandlerMoves(c)
<1> USE ConnAssumption, NameAssumption DEF TypeOK, mapVars, memoryVars, redisVars, procVars, serverVars, Goto
<1> DEFINE Same == pc'[c] = pc[c] /\ call'[c] = call[c]
<1>0. Same => HandlerMoves(c)
  BY DEF HandlerMoves
<1>00. c \in Procs
  BY DEF Procs
<1>1. ASSUME NEW p \in Procs, Remove(p) PROVE HandlerMoves(c)
  <2>1. CASE p # c
    BY <1>1, <2>1, <1>0, <1>00 DEF Remove
  <2>2. CASE p = c /\ call[c].type = ConnType[c]
    BY <1>1, <2>2, <1>00 DEF Remove, HandlerMoves, Leaving, Engaged, AfterClose
  <2>3. CASE p = c /\ call[c].type # ConnType[c]
    BY <1>1, <2>3, <1>00 DEF Remove, HandlerMoves, Leaving, Engaged, UnregisterSteps
  <2>. QED
    BY <2>1, <2>2, <2>3
<1>2. ASSUME NEW p \in Procs, CloseRemoved(p) PROVE HandlerMoves(c)
  <2>1. CASE p # c
    BY <1>2, <2>1, <1>0, <1>00 DEF CloseRemoved
  <2>2. CASE p = c /\ call[c].type = ConnType[c]
    BY <1>2, <2>2, <1>00 DEF CloseRemoved, HandlerMoves, Leaving, Engaged, AfterClose
  <2>3. CASE p = c /\ call[c].type # ConnType[c]
    BY <1>2, <2>3, <1>00 DEF CloseRemoved, HandlerMoves, Leaving, Engaged, UnregisterSteps
  <2>. QED
    BY <2>1, <2>2, <2>3
<1>3. ASSUME NEW p \in Procs, CheckOthers(p) PROVE HandlerMoves(c)
  <2>1. CASE p # c
    BY <1>3, <2>1, <1>0, <1>00 DEF CheckOthers
  <2>2. CASE p = c /\ call[c].type = ConnType[c]
    BY <1>3, <2>2, <1>00 DEF CheckOthers, HandlerMoves, Leaving, Engaged, AfterClose
  <2>3. CASE p = c /\ call[c].type # ConnType[c]
    BY <1>3, <2>3, <1>00 DEF CheckOthers, HandlerMoves, Leaving, Engaged, UnregisterSteps
  <2>. QED
    BY <2>1, <2>2, <2>3
<1>4. ASSUME NEW p \in Procs, DeleteLocalUser(p) PROVE HandlerMoves(c)
  <2>1. CASE p # c
    BY <1>4, <2>1, <1>0, <1>00 DEF DeleteLocalUser
  <2>2. CASE p = c /\ call[c].type = ConnType[c]
    BY <1>4, <2>2, <1>00 DEF DeleteLocalUser, HandlerMoves, Leaving, Engaged, AfterClose
  <2>3. CASE p = c /\ call[c].type # ConnType[c]
    BY <1>4, <2>3, <1>00 DEF DeleteLocalUser, HandlerMoves, Leaving, Engaged, UnregisterSteps
  <2>. QED
    BY <2>1, <2>2, <2>3
<1>5. ASSUME NEW p \in Procs, DeleteRoute(p) PROVE HandlerMoves(c)
  <2>1. CASE p # c
    BY <1>5, <2>1, <1>0, <1>00 DEF DeleteRoute
  <2>2. CASE p = c /\ call[c].type = ConnType[c]
    BY <1>5, <2>2, <1>00 DEF DeleteRoute, HandlerMoves, Leaving, Engaged, AfterClose
  <2>3. CASE p = c /\ call[c].type # ConnType[c]
    BY <1>5, <2>3, <1>00 DEF DeleteRoute, HandlerMoves, Leaving, Engaged, UnregisterSteps
  <2>. QED
    BY <2>1, <2>2, <2>3
<1>6. ASSUME NEW p \in Procs, DeleteMember(p) PROVE HandlerMoves(c)
  <2>1. CASE p # c
    BY <1>6, <2>1, <1>0, <1>00 DEF DeleteMember
  <2>2. CASE p = c /\ call[c].type = ConnType[c]
    BY <1>6, <2>2, <1>00 DEF DeleteMember, HandlerMoves, Leaving, Engaged, AfterClose
  <2>3. CASE p = c /\ call[c].type # ConnType[c]
    BY <1>6, <2>3, <1>00 DEF DeleteMember, HandlerMoves, Leaving, Engaged, UnregisterSteps
  <2>. QED
    BY <2>1, <2>2, <2>3
<1>7. ASSUME NEW p \in Procs, RecheckOthers(p) PROVE HandlerMoves(c)
  <2>1. CASE p # c
    BY <1>7, <2>1, <1>0, <1>00 DEF RecheckOthers
  <2>2. CASE p = c /\ call[c].type = ConnType[c]
    BY <1>7, <2>2, <1>00 DEF RecheckOthers, HandlerMoves, Leaving, Engaged, AfterClose
  <2>3. CASE p = c /\ call[c].type # ConnType[c]
    BY <1>7, <2>3, <1>00 DEF RecheckOthers, HandlerMoves, Leaving, Engaged, UnregisterSteps
  <2>. QED
    BY <2>1, <2>2, <2>3
<1>8. ASSUME NEW p \in Procs, MarkOffline(p) PROVE HandlerMoves(c)
  <2>1. CASE p # c
    BY <1>8, <2>1, <1>0, <1>00 DEF MarkOffline
  <2>2. CASE p = c /\ call[c].type = ConnType[c]
    BY <1>8, <2>2, <1>00 DEF MarkOffline, HandlerMoves, Leaving, Engaged, AfterClose
  <2>3. CASE p = c /\ call[c].type # ConnType[c]
    BY <1>8, <2>3, <1>00 DEF MarkOffline, HandlerMoves, Leaving, Engaged, UnregisterSteps
  <2>. QED
    BY <2>1, <2>2, <2>3
<1>9. ASSUME NEW d \in Conns, AddConnection(d) PROVE HandlerMoves(c)
  <2>1. CASE d # c
    BY <1>9, <2>1, <1>0, <1>00 DEF AddConnection, Procs
  <2>2. CASE d = c
    BY <1>9, <2>2, <1>00 DEF AddConnection, HandlerMoves, Leaving, Engaged, UnregisterSteps
  <2>. QED
    BY <2>1, <2>2
<1>10. ASSUME NEW d \in Conns, AddLocalUser(d) PROVE HandlerMoves(c)
  <2>1. CASE d # c
    BY <1>10, <2>1, <1>0, <1>00 DEF AddLocalUser, Procs
  <2>2. CASE d = c
    BY <1>10, <2>2, <1>00 DEF AddLocalUser, HandlerMoves, Leaving, Engaged, UnregisterSteps
  <2>. QED
    BY <2>1, <2>2
<1>11. ASSUME NEW d \in Conns, SetRoute(d) PROVE HandlerMoves(c)
  <2>1. CASE d # c
    BY <1>11, <2>1, <1>0, <1>00 DEF SetRoute, Procs
  <2>2. CASE d = c
    BY <1>11, <2>2, <1>00 DEF SetRoute, HandlerMoves, Leaving, Engaged, UnregisterSteps
  <2>. QED
    BY <2>1, <2>2
<1>12. ASSUME NEW d \in Conns, AddMember(d) PROVE HandlerMoves(c)
  <2>1. CASE d # c
    BY <1>12, <2>1, <1>0, <1>00 DEF AddMember, Procs
  <2>2. CASE d = c
    BY <1>12, <2>2, <1>00 DEF AddMember, HandlerMoves, Leaving, Engaged, UnregisterSteps
  <2>. QED
    BY <2>1, <2>2
<1>13. ASSUME NEW d \in Conns, MarkOnline(d) PROVE HandlerMoves(c)
  <2>1. CASE d # c
    BY <1>13, <2>1, <1>0, <1>00 DEF MarkOnline, Procs
  <2>2. CASE d = c
    BY <1>13, <2>2, <1>00 DEF MarkOnline, HandlerMoves, Leaving, Engaged, UnregisterSteps
  <2>. QED
    BY <2>1, <2>2
<1>14. ASSUME NEW d \in Conns, Accept(d) PROVE HandlerMoves(c)
  <2>1. CASE d # c
    BY <1>14, <2>1, <1>0, <1>00 DEF Accept, Procs
  <2>2. CASE d = c
    BY <1>14, <2>2, <1>00 DEF Accept, HandlerMoves, Leaving, Engaged, UnregisterSteps
  <2>. QED
    BY <2>1, <2>2
<1>15. ASSUME NEW d \in Conns, AnnounceOnline(d) PROVE HandlerMoves(c)
  <2>1. CASE d # c
    BY <1>15, <2>1, <1>0, <1>00 DEF AnnounceOnline, Procs
  <2>2. CASE d = c
    BY <1>15, <2>2, <1>00 DEF AnnounceOnline, HandlerMoves, Leaving, Engaged, UnregisterSteps
  <2>. QED
    BY <2>1, <2>2
<1>16. ASSUME NEW d \in Conns, ReaderCloses(d) PROVE HandlerMoves(c)
  BY <1>16, <1>0 DEF ReaderCloses
<1>17. ASSUME NEW d \in Conns, AnnounceOffline(d) PROVE HandlerMoves(c)
  <2>1. CASE d # c
    BY <1>17, <2>1, <1>0, <1>00 DEF AnnounceOffline, Procs
  <2>2. CASE d = c
    BY <1>17, <2>2, <1>00 DEF AnnounceOffline, HandlerMoves, Leaving, Engaged, UnregisterSteps
  <2>. QED
    BY <2>1, <2>2
<1>18. ASSUME NEW s \in Servers, NEW u \in Addressees, DropClosed(s, u) PROVE HandlerMoves(c)
  BY <1>18, <1>0, <1>00 DEF DropClosed, Procs
<1>19. ASSUME NEW s \in Servers, BeginStop(s) PROVE HandlerMoves(c)
  BY <1>19, <1>0 DEF BeginStop
<1>20. ASSUME NEW s \in Servers, ReadMembers(s) PROVE HandlerMoves(c)
  BY <1>20, <1>0 DEF ReadMembers
<1>21. ASSUME NEW s \in Servers, SweepUser(s) PROVE HandlerMoves(c)
  BY <1>21, <1>0 DEF SweepUser
<1>22. ASSUME NEW s \in Servers, DeleteMembers(s) PROVE HandlerMoves(c)
  BY <1>22, <1>0 DEF DeleteMembers
<1>23. ASSUME NEW s \in Servers, CloseAll(s) PROVE HandlerMoves(c)
  BY <1>23, <1>0 DEF CloseAll
<1>24. ASSUME NEW s \in Servers, ProcessGone(s) PROVE HandlerMoves(c)
  <2>1. CASE s = ConnServer[c]
    BY <1>24, <2>1 DEF HandlerMoves
  <2>2. CASE s # ConnServer[c]
    BY <1>24, <2>2, <1>0, <1>00 DEF ProcessGone
  <2>. QED
    BY <2>1, <2>2
<1>25. ASSUME NEW s \in Servers, Restart(s) PROVE HandlerMoves(c)
  BY <1>25, <1>0 DEF Restart
<1>26. ASSUME NEW u \in Users, RouteExpires(u) PROVE HandlerMoves(c)
  BY <1>26, <1>0 DEF RouteExpires
<1>27. CASE UNCHANGED vars
  BY <1>27, <1>0 DEF vars
<1>. QED
  BY <1>1, <1>2, <1>3, <1>4, <1>5, <1>6, <1>7, <1>8, <1>9, <1>10, <1>11, <1>12, <1>13,
     <1>14, <1>15, <1>16, <1>17, <1>18, <1>19, <1>20, <1>21, <1>22, <1>23, <1>24, <1>25,
     <1>26, <1>27, NextSteps
  DEF UnregisterConnection

\* Only AddLocalUser, run for a connection of the user, adds a user to a local set.
LEMMA NewLocalUser ==
  ASSUME TypeOK, [Next]_vars, NEW s \in Servers, NEW u \in localUsers'[s], u \notin localUsers[s]
  PROVE  \E c \in Conns : AddLocalUser(c) /\ ConnServer[c] = s /\ ConnUser[c] = u
<1> USE ConnAssumption DEF TypeOK, mapVars, memoryVars, redisVars, procVars, serverVars
<1> DEFINE Added == \E c \in Conns : AddLocalUser(c) /\ ConnServer[c] = s /\ ConnUser[c] = u
<1>1. ASSUME NEW d \in Conns, AddLocalUser(d) PROVE Added
  BY <1>1 DEF AddLocalUser
<1>2. ASSUME NEW p \in Procs, DeleteLocalUser(p) PROVE Added
  BY <1>2 DEF DeleteLocalUser
<1>3. ASSUME NEW r \in Servers, ProcessGone(r) PROVE Added
  BY <1>3 DEF ProcessGone
<1>4. ASSUME UNCHANGED localUsers PROVE Added
  BY <1>4
<1>. QED
  BY <1>1, <1>2, <1>3, <1>4, NextSteps
  DEF vars, UnregisterConnection, Remove, CloseRemoved, CheckOthers, DeleteRoute,
      DeleteMember, RecheckOthers, MarkOffline, AddConnection, SetRoute, AddMember,
      MarkOnline, Accept, AnnounceOnline, ReaderCloses, AnnounceOffline, DropClosed,
      BeginStop, ReadMembers, SweepUser, DeleteMembers, CloseAll, Restart, RouteExpires

\* Only MarkOnline, run for a connection of the user, shows the user as online.
LEMMA NewOnline ==
  ASSUME TypeOK, [Next]_vars, NEW s \in Servers, NEW u \in online'[s], u \notin online[s]
  PROVE  \E c \in Conns : MarkOnline(c) /\ ConnServer[c] = s /\ ConnUser[c] = u
<1> USE ConnAssumption DEF TypeOK, mapVars, memoryVars, redisVars, procVars, serverVars
<1> DEFINE Added == \E c \in Conns : MarkOnline(c) /\ ConnServer[c] = s /\ ConnUser[c] = u
<1>1. ASSUME NEW d \in Conns, MarkOnline(d) PROVE Added
  BY <1>1 DEF MarkOnline
<1>2. ASSUME NEW p \in Procs, MarkOffline(p) PROVE Added
  BY <1>2 DEF MarkOffline
<1>3. ASSUME NEW r \in Servers, ProcessGone(r) PROVE Added
  BY <1>3 DEF ProcessGone
<1>4. ASSUME UNCHANGED online PROVE Added
  BY <1>4
<1>. QED
  BY <1>1, <1>2, <1>3, <1>4, NextSteps
  DEF vars, UnregisterConnection, Remove, CloseRemoved, CheckOthers, DeleteLocalUser,
      DeleteRoute, DeleteMember, RecheckOthers, AddConnection, AddLocalUser, SetRoute,
      AddMember, Accept, AnnounceOnline, ReaderCloses, AnnounceOffline, DropClosed,
      BeginStop, ReadMembers, SweepUser, DeleteMembers, CloseAll, Restart, RouteExpires

\* Only SetRoute, run for a connection of the user, makes a route name a server.
LEMMA NewRoute ==
  ASSUME TypeOK, [Next]_vars, NEW s \in Servers, NEW u \in Users, registry'[u] = s, registry[u] # s
  PROVE  \E c \in Conns : SetRoute(c) /\ pc'[c] = "member" /\ ConnServer[c] = s /\ ConnUser[c] = u
<1> USE ConnAssumption, NameAssumption DEF TypeOK, mapVars, memoryVars, redisVars, procVars, serverVars
<1> DEFINE Added == \E c \in Conns : SetRoute(c) /\ pc'[c] = "member" /\ ConnServer[c] = s /\ ConnUser[c] = u
<1>1. ASSUME NEW d \in Conns, SetRoute(d) PROVE Added
  <2>1. registry' = [registry EXCEPT ![ConnUser[d]] = ConnServer[d]] /\ Goto(d, "member")
    BY <1>1 DEF SetRoute
  <2>2. ConnServer[d] = s /\ ConnUser[d] = u
    BY <2>1
  <2>3. pc'[d] = "member"
    BY <2>1 DEF Goto, Procs
  <2>. QED
    BY <1>1, <2>2, <2>3
<1>2. ASSUME NEW p \in Procs, DeleteRoute(p) PROVE Added
  BY <1>2 DEF DeleteRoute
<1>3. ASSUME NEW r \in Servers, SweepUser(r) PROVE Added
  BY <1>3 DEF SweepUser
<1>4. ASSUME NEW v \in Users, RouteExpires(v) PROVE Added
  BY <1>4 DEF RouteExpires
<1>5. ASSUME UNCHANGED registry PROVE Added
  BY <1>5
<1>. QED
  BY <1>1, <1>2, <1>3, <1>4, <1>5, NextSteps
  DEF vars, UnregisterConnection, Remove, CloseRemoved, CheckOthers, DeleteLocalUser,
      DeleteMember, RecheckOthers, MarkOffline, AddConnection, AddLocalUser, AddMember,
      MarkOnline, Accept, AnnounceOnline, ReaderCloses, AnnounceOffline, DropClosed,
      BeginStop, ReadMembers, DeleteMembers, CloseAll, ProcessGone, Restart

\* Only AddMember, run for a connection of the user, puts a user into a server's set.
LEMMA NewMember ==
  ASSUME TypeOK, [Next]_vars, NEW s \in Servers, NEW u \in serverUsers'[s], u \notin serverUsers[s]
  PROVE  \E c \in Conns : AddMember(c) /\ ConnServer[c] = s /\ ConnUser[c] = u
<1> USE ConnAssumption DEF TypeOK, mapVars, memoryVars, redisVars, procVars, serverVars
<1> DEFINE Added == \E c \in Conns : AddMember(c) /\ ConnServer[c] = s /\ ConnUser[c] = u
<1>1. ASSUME NEW d \in Conns, AddMember(d) PROVE Added
  <2>1. serverUsers' = [serverUsers EXCEPT ![ConnServer[d]] = @ \cup {ConnUser[d]}]
    BY <1>1 DEF AddMember
  <2>2. ConnServer[d] = s
    BY <2>1
  <2>3. ConnUser[d] = u
    BY <2>1
  <2>. QED
    BY <1>1, <2>2, <2>3
<1>2. ASSUME NEW p \in Procs, DeleteMember(p) PROVE Added
  BY <1>2 DEF DeleteMember
<1>3. ASSUME NEW r \in Servers, DeleteMembers(r) PROVE Added
  BY <1>3 DEF DeleteMembers
<1>4. ASSUME UNCHANGED serverUsers PROVE Added
  BY <1>4
<1>. QED
  BY <1>1, <1>2, <1>3, <1>4, NextSteps
  DEF vars, UnregisterConnection, Remove, CloseRemoved, CheckOthers, DeleteLocalUser,
      DeleteRoute, RecheckOthers, MarkOffline, AddConnection, AddLocalUser, SetRoute,
      MarkOnline, Accept, AnnounceOnline, ReaderCloses, AnnounceOffline, DropClosed,
      BeginStop, ReadMembers, SweepUser, CloseAll, ProcessGone, Restart, RouteExpires

\* Nobody is left behind in a local set.  A handler that skips UnregisterUser does
\* so because it saw another entry in the map, and that entry has a handler still
\* to come (NoLeakedEntry): the duty passes from handler to handler and the last
\* one finds the map empty.
THEOREM NoGhostLocalUserTheorem == Spec => []NoGhostLocalUser
<1>1. Init => NoGhostLocalUser
  BY ConnAssumption, NameAssumption DEF Init, NoGhostLocalUser, Procs
<1>2. TypeOK /\ SupportInv /\ NoLeakedEntry /\ NoGhostLocalUser /\ [Next]_vars => NoGhostLocalUser'
  <2> SUFFICES ASSUME TypeOK, SupportInv, NoLeakedEntry, NoGhostLocalUser, [Next]_vars,
                      NEW s \in Servers, NEW u \in localUsers'[s]
               PROVE  \E c \in Conns :
                        /\ ConnServer[c] = s /\ ConnUser[c] = u
                        /\ (Engaged(c) \/ Leaving(c, {"close", "check", "unlocal"}))'
    BY DEF NoGhostLocalUser
  <2> USE ConnAssumption, NameAssumption DEF TypeOK, mapVars, memoryVars, redisVars, procVars, serverVars, Goto
  <2> DEFINE Owing(c) == (Engaged(c) \/ Leaving(c, {"close", "check", "unlocal"}))
  <2>1. CASE u \notin localUsers[s]
    <3>1. PICK c \in Conns : AddLocalUser(c) /\ ConnServer[c] = s /\ ConnUser[c] = u
      BY <2>1, NewLocalUser
    <3>2. Owing(c)'
      BY <3>1 DEF AddLocalUser, Engaged, Procs
    <3>. QED
      BY <3>1, <3>2
  <2>2. CASE ~(u \notin localUsers[s])
    <3>1. PICK c \in Conns : ConnServer[c] = s /\ ConnUser[c] = u /\ Owing(c)
      BY <2>2 DEF NoGhostLocalUser
    <3>2. HandlerMoves(c)
      BY HandlerStepMoves
    <3>3. c \in Procs /\ ServerOf(c) = s /\ call[c].user = u
      BY <3>1 DEF Procs, ServerOf, SupportInv, CallOK
    <3>4. CASE pc'[c] = pc[c] /\ call'[c] = call[c]
      BY <3>1, <3>4 DEF Engaged, Leaving
    <3>5. CASE Engaged(c) /\ Engaged(c)'
      BY <3>1, <3>5
    <3>6. CASE Leaving(c, {"remove", "close"}) /\ Leaving(c, {"close", AfterClose})'
      <4>1. RedisEnabled
        BY <2>2 DEF SupportInv, MemoryOnly
      <4>. QED
        BY <4>1, <3>1, <3>6 DEF Leaving, AfterClose
    <3>7. CASE Leaving(c, {"check"}) /\ CheckOthers(c)
      <4>1. CASE HasOtherConns(s, u)
        <5>1. PICK d \in connections : ConnServer[d] = s /\ ConnUser[d] = u
          BY <4>1 DEF HasOtherConns, UserConns
        <5>2. Engaged(d) /\ d \in Conns /\ d \in Procs
          BY <5>1 DEF NoLeakedEntry, Procs
        <5>3. d # c
          BY <5>2, <3>7 DEF Engaged, Leaving
        <5>4. pc'[d] = pc[d] /\ call'[d] = call[d]
          BY <5>2, <5>3, <3>7 DEF CheckOthers
        <5>. QED
          BY <5>1, <5>2, <5>4 DEF Engaged, Leaving
      <4>2. CASE ~HasOtherConns(s, u)
        <5>1. Leaving(c, {"unlocal"})'
          BY <4>2, <3>3, <3>7 DEF CheckOthers, Leaving
        <5>. QED
          BY <5>1, <3>1 DEF Leaving
      <4>. QED
        BY <4>1, <4>2
    <3>8. CASE Leaving(c, {"unlocal"}) /\ DeleteLocalUser(c)
      BY <3>3, <3>8 DEF DeleteLocalUser
    <3>9. CASE ProcessGone(ConnServer[c])
      BY <3>1, <3>9 DEF ProcessGone
    <3>. QED
      BY <3>1, <3>2, <3>4, <3>5, <3>6, <3>7, <3>8, <3>9
      DEF HandlerMoves, Leaving, Engaged, UnregisterSteps
  <2>. QED
    BY <2>1, <2>2
<1>. QED
  BY <1>1, <1>2, TypeInvariant, SupportInvariant, NoLeakedEntryTheorem, PTL DEF Spec

\* The same argument for the status cache, with the second evaluation of
\* hasOtherConns.
THEOREM NoGhostOnlineTheorem == Spec => []NoGhostOnline
<1>1. Init => NoGhostOnline
  BY ConnAssumption, NameAssumption DEF Init, NoGhostOnline, Procs
<1>2. TypeOK /\ SupportInv /\ NoLeakedEntry /\ NoGhostOnline /\ [Next]_vars => NoGhostOnline'
  <2> SUFFICES ASSUME TypeOK, SupportInv, NoLeakedEntry, NoGhostOnline, [Next]_vars,
                      NEW s \in Servers, NEW u \in online'[s]
               PROVE  \E c \in Conns :
                        /\ ConnServer[c] = s /\ ConnUser[c] = u
                        /\ (Engaged(c) \/ Leaving(c, UnregisterSteps))'
    BY DEF NoGhostOnline
  <2> USE ConnAssumption, NameAssumption DEF TypeOK, mapVars, memoryVars, redisVars, procVars, serverVars, Goto
  <2> DEFINE Owing(c) == (Engaged(c) \/ Leaving(c, UnregisterSteps))
  <2>1. CASE u \notin online[s]
    <3>1. PICK c \in Conns : MarkOnline(c) /\ ConnServer[c] = s /\ ConnUser[c] = u
      BY <2>1, NewOnline
    <3>2. Owing(c)'
      BY <3>1 DEF MarkOnline, Engaged, Procs
    <3>. QED
      BY <3>1, <3>2
  <2>2. CASE ~(u \notin online[s])
    <3>1. PICK c \in Conns : ConnServer[c] = s /\ ConnUser[c] = u /\ Owing(c)
      BY <2>2 DEF NoGhostOnline
    <3>2. HandlerMoves(c)
      BY HandlerStepMoves
    <3>3. c \in Procs /\ ServerOf(c) = s /\ call[c].user = u
      BY <3>1 DEF Procs, ServerOf, SupportInv, CallOK
    <3>4. CASE pc'[c] = pc[c] /\ call'[c] = call[c]
      BY <3>1, <3>4 DEF Engaged, Leaving
    <3>5. CASE Engaged(c) /\ Engaged(c)'
      BY <3>1, <3>5
    <3>6. CASE Leaving(c, {"remove", "close"}) /\ Leaving(c, {"close", AfterClose})'
      BY <3>1, <3>6 DEF Leaving, AfterClose, UnregisterSteps
    <3>7. CASE Leaving(c, {"recheck"}) /\ RecheckOthers(c)
      <4>1. CASE HasOtherConns(s, u)
        <5>1. PICK d \in connections : ConnServer[d] = s /\ ConnUser[d] = u
          BY <4>1 DEF HasOtherConns, UserConns
        <5>2. Engaged(d) /\ d \in Conns /\ d \in Procs
          BY <5>1 DEF NoLeakedEntry, Procs
        <5>3. d # c
          BY <5>2, <3>7 DEF Engaged, Leaving
        <5>4. pc'[d] = pc[d] /\ call'[d] = call[d]
          BY <5>2, <5>3, <3>7 DEF RecheckOthers
        <5>. QED
          BY <5>1, <5>2, <5>4 DEF Engaged, Leaving
      <4>2. CASE ~HasOtherConns(s, u)
        <5>1. Leaving(c, {"offline"})'
          BY <4>2, <3>3, <3>7 DEF RecheckOthers, Leaving
        <5>. QED
          BY <5>1, <3>1 DEF Leaving, UnregisterSteps
      <4>. QED
        BY <4>1, <4>2
    <3>8. CASE Leaving(c, {"offline"}) /\ MarkOffline(c)
      BY <3>3, <3>8 DEF MarkOffline
    <3>9. CASE ProcessGone(ConnServer[c])
      BY <3>1, <3>9 DEF ProcessGone
    <3>10. CASE \/ Leaving(c, {"check"}) /\ CheckOthers(c)
                \/ Leaving(c, {"unlocal"}) /\ DeleteLocalUser(c)
                \/ Leaving(c, {"unroute"}) /\ DeleteRoute(c)
                \/ Leaving(c, {"unmember"}) /\ DeleteMember(c)
      <4>1. Leaving(c, UnregisterSteps)'
        BY <3>3, <3>10 DEF CheckOthers, DeleteLocalUser, DeleteRoute, DeleteMember, Leaving, UnregisterSteps
      <4>. QED
        BY <4>1, <3>1
    <3>. QED
      BY <3>1, <3>2, <3>4, <3>5, <3>6, <3>7, <3>8, <3>9, <3>10
      DEF HandlerMoves, Leaving, Engaged
  <2>. QED
    BY <2>1, <2>2
<1>. QED
  BY <1>1, <1>2, TypeInvariant, SupportInvariant, NoLeakedEntryTheorem, PTL DEF Spec

\* A server in its first life that has not closed has not come back from the dead.
LEMMA FirstLife ==
  ASSUME TypeOK, [Next]_vars, NEW s \in Servers,
         lives'[s] = 1, stage'[s] \notin {"closed", "down"}
  PROVE  lives[s] = 1 /\ stage[s] \notin {"closed", "down"}
<1> USE DEF TypeOK, serverVars
<1>1. ASSUME NEW r \in Servers, BeginStop(r) \/ ReadMembers(r) \/ DeleteMembers(r) \/ CloseAll(r)
      PROVE  lives[s] = 1 /\ stage[s] \notin {"closed", "down"}
  BY <1>1 DEF BeginStop, ReadMembers, DeleteMembers, CloseAll
<1>2. ASSUME NEW r \in Servers, ProcessGone(r) PROVE lives[s] = 1 /\ stage[s] \notin {"closed", "down"}
  BY <1>2 DEF ProcessGone
<1>3. ASSUME NEW r \in Servers, Restart(r) PROVE lives[s] = 1 /\ stage[s] \notin {"closed", "down"}
  BY <1>3, FlagAssumption DEF Restart
<1>4. ASSUME UNCHANGED <<stage, lives>> PROVE lives[s] = 1 /\ stage[s] \notin {"closed", "down"}
  BY <1>4
<1>. QED
  BY <1>1, <1>2, <1>3, <1>4, NextSteps
  DEF vars, UnregisterConnection, Remove, CloseRemoved, CheckOthers, DeleteLocalUser,
      DeleteRoute, DeleteMember, RecheckOthers, MarkOffline, AddConnection, AddLocalUser,
      SetRoute, AddMember, MarkOnline, Accept, AnnounceOnline, ReaderCloses,
      AnnounceOffline, DropClosed, SweepUser, RouteExpires

\* The same argument for the route in Redis: while the server it names is in its
\* first life and Redis takes every command, the handler that finds the map empty
\* deletes the route.
THEOREM NoGhostRouteTheorem == Spec => []NoGhostRoute
<1>1. Init => NoGhostRoute
  BY ConnAssumption, NameAssumption DEF Init, NoGhostRoute, Procs
<1>2. TypeOK /\ SupportInv /\ NoLeakedEntry /\ NoGhostRoute /\ [Next]_vars => NoGhostRoute'
  <2> SUFFICES ASSUME TypeOK, SupportInv, NoLeakedEntry, NoGhostRoute, [Next]_vars,
                      NEW s \in Servers, NEW u \in Users, registry'[u] = s, ~RedisMayFail,
                      lives'[s] = 1, stage'[s] \notin {"closed", "down"}
               PROVE  \E c \in Conns :
                        /\ ConnServer[c] = s /\ ConnUser[c] = u
                        /\ (Engaged(c) \/ Leaving(c, {"close", "check", "unlocal", "unroute"}))'
    BY DEF NoGhostRoute
  <2> USE ConnAssumption, NameAssumption DEF TypeOK, mapVars, memoryVars, redisVars, procVars, serverVars, Goto
  <2> DEFINE Owing(c) == (Engaged(c) \/ Leaving(c, {"close", "check", "unlocal", "unroute"}))
  <2>0. lives[s] = 1 /\ stage[s] \notin {"closed", "down"}
    BY FirstLife
  <2>1. CASE registry[u] # s
    <3>1. PICK c \in Conns : SetRoute(c) /\ pc'[c] = "member" /\ ConnServer[c] = s /\ ConnUser[c] = u
      BY <2>1, NewRoute
    <3>2. Owing(c)'
      BY <3>1 DEF SetRoute, Engaged, Procs
    <3>. QED
      BY <3>1, <3>2
  <2>2. CASE ~(registry[u] # s)
    <3>1. PICK c \in Conns : ConnServer[c] = s /\ ConnUser[c] = u /\ Owing(c)
      BY <2>2, <2>0 DEF NoGhostRoute
    <3>2. HandlerMoves(c)
      BY HandlerStepMoves
    <3>3. c \in Procs /\ ServerOf(c) = s /\ call[c].user = u
      BY <3>1 DEF Procs, ServerOf, SupportInv, CallOK
    <3>4. CASE pc'[c] = pc[c] /\ call'[c] = call[c]
      BY <3>1, <3>4 DEF Engaged, Leaving
    <3>5. CASE Engaged(c) /\ Engaged(c)'
      BY <3>1, <3>5
    <3>6. CASE Leaving(c, {"remove", "close"}) /\ Leaving(c, {"close", AfterClose})'
      <4>1. RedisEnabled
        BY <2>2 DEF SupportInv, MemoryOnly
      <4>. QED
        BY <4>1, <3>1, <3>6 DEF Leaving, AfterClose
    <3>7. CASE Leaving(c, {"check"}) /\ CheckOthers(c)
      <4>1. CASE HasOtherConns(s, u)
        <5>1. PICK d \in connections : ConnServer[d] = s /\ ConnUser[d] = u
          BY <4>1 DEF HasOtherConns, UserConns
        <5>2. Engaged(d) /\ d \in Conns /\ d \in Procs
          BY <5>1 DEF NoLeakedEntry, Procs
        <5>3. d # c
          BY <5>2, <3>7 DEF Engaged, Leaving
        <5>4. pc'[d] = pc[d] /\ call'[d] = call[d]
          BY <5>2, <5>3, <3>7 DEF CheckOthers
        <5>. QED
          BY <5>1, <5>2, <5>4 DEF Engaged, Leaving
      <4>2. CASE ~HasOtherConns(s, u)
        <5>1. Leaving(c, {"unlocal"})'
          BY <4>2, <3>3, <3>7 DEF CheckOthers, Leaving
        <5>. QED
          BY <5>1, <3>1 DEF Leaving
      <4>. QED
        BY <4>1, <4>2
    <3>8. CASE Leaving(c, {"unroute"}) /\ DeleteRoute(c)
      BY <2>0, <3>3, <3>8 DEF DeleteRoute, RedisFails
    <3>9. CASE ProcessGone(ConnServer[c])
      BY <2>0, <3>1, <3>9 DEF ProcessGone
    <3>10. CASE Leaving(c, {"unlocal"}) /\ DeleteLocalUser(c)
      <4>1. Leaving(c, {"unroute"})'
        BY <3>3, <3>10 DEF DeleteLocalUser, Leaving
      <4>. QED
        BY <4>1, <3>1 DEF Leaving
    <3>. QED
      BY <3>1, <3>2, <3>4, <3>5, <3>6, <3>7, <3>8, <3>9, <3>10
      DEF HandlerMoves, Leaving, Engaged, UnregisterSteps
  <2>. QED
    BY <2>1, <2>2
<1>. QED
  BY <1>1, <1>2, TypeInvariant, SupportInvariant, NoLeakedEntryTheorem, PTL DEF Spec

\* A user in a server's set in Redis has a handler there that is yet to take the
\* user out, as long as Redis takes every command and the server is in its first
\* life and has not closed its client.
NoGhostMember ==
  \A s \in Servers : \A u \in serverUsers[s] :
    ~RedisMayFail /\ lives[s] = 1 /\ stage[s] \notin {"closed", "down"}
      => \E c \in Conns :
           /\ ConnServer[c] = s /\ ConnUser[c] = u
           /\ Engaged(c) \/ Leaving(c, {"close", "check", "unlocal", "unroute", "unmember"})

\* And the same for the server's set of users, from which the handler that finds
\* the map empty takes the user last.
THEOREM NoGhostMemberTheorem == Spec => []NoGhostMember
<1>1. Init => NoGhostMember
  BY ConnAssumption, NameAssumption DEF Init, NoGhostMember, Procs
<1>2. TypeOK /\ SupportInv /\ NoLeakedEntry /\ NoGhostMember /\ [Next]_vars => NoGhostMember'
  <2> SUFFICES ASSUME TypeOK, SupportInv, NoLeakedEntry, NoGhostMember, [Next]_vars,
                      NEW s \in Servers, NEW u \in serverUsers'[s], ~RedisMayFail,
                      lives'[s] = 1, stage'[s] \notin {"closed", "down"}
               PROVE  \E c \in Conns :
                        /\ ConnServer[c] = s /\ ConnUser[c] = u
                        /\ (Engaged(c) \/ Leaving(c, {"close", "check", "unlocal", "unroute", "unmember"}))'
    BY DEF NoGhostMember
  <2> USE ConnAssumption, NameAssumption DEF TypeOK, mapVars, memoryVars, redisVars, procVars, serverVars, Goto
  <2> DEFINE Owing(c) == (Engaged(c) \/ Leaving(c, {"close", "check", "unlocal", "unroute", "unmember"}))
  <2>0. lives[s] = 1 /\ stage[s] \notin {"closed", "down"}
    BY FirstLife
  <2>1. CASE u \notin serverUsers[s]
    <3>1. PICK c \in Conns : AddMember(c) /\ ConnServer[c] = s /\ ConnUser[c] = u
      BY <2>1, NewMember
    <3>2. Owing(c)'
      BY <3>1 DEF AddMember, Engaged, Procs
    <3>. QED
      BY <3>1, <3>2
  <2>2. CASE ~(u \notin serverUsers[s])
    <3>1. PICK c \in Conns : ConnServer[c] = s /\ ConnUser[c] = u /\ Owing(c)
      BY <2>2, <2>0 DEF NoGhostMember
    <3>2. HandlerMoves(c)
      BY HandlerStepMoves
    <3>3. c \in Procs /\ ServerOf(c) = s /\ call[c].user = u
      BY <3>1 DEF Procs, ServerOf, SupportInv, CallOK
    <3>4. CASE pc'[c] = pc[c] /\ call'[c] = call[c]
      BY <3>1, <3>4 DEF Engaged, Leaving
    <3>5. CASE Engaged(c) /\ Engaged(c)'
      BY <3>1, <3>5
    <3>6. CASE Leaving(c, {"remove", "close"}) /\ Leaving(c, {"close", AfterClose})'
      <4>1. RedisEnabled
        BY <2>2 DEF SupportInv, MemoryOnly
      <4>. QED
        BY <4>1, <3>1, <3>6 DEF Leaving, AfterClose
    <3>7. CASE Leaving(c, {"check"}) /\ CheckOthers(c)
      <4>1. CASE HasOtherConns(s, u)
        <5>1. PICK d \in connections : ConnServer[d] = s /\ ConnUser[d] = u
          BY <4>1 DEF HasOtherConns, UserConns
        <5>2. Engaged(d) /\ d \in Conns /\ d \in Procs
          BY <5>1 DEF NoLeakedEntry, Procs
        <5>3. d # c
          BY <5>2, <3>7 DEF Engaged, Leaving
        <5>4. pc'[d] = pc[d] /\ call'[d] = call[d]
          BY <5>2, <5>3, <3>7 DEF CheckOthers
        <5>. QED
          BY <5>1, <5>2, <5>4 DEF Engaged, Leaving
      <4>2. CASE ~HasOtherConns(s, u)
        <5>1. Leaving(c, {"unlocal"})'
          BY <4>2, <3>3, <3>7 DEF CheckOthers, Leaving
        <5>. QED
          BY <5>1, <3>1 DEF Leaving
      <4>. QED
        BY <4>1, <4>2
    <3>8. CASE Leaving(c, {"unmember"}) /\ DeleteMember(c)
      BY <2>0, <3>3, <3>8 DEF DeleteMember, RedisFails
    <3>9. CASE ProcessGone(ConnServer[c])
      BY <2>0, <3>1, <3>9 DEF ProcessGone
    <3>10. CASE \/ Leaving(c, {"unlocal"}) /\ DeleteLocalUser(c)
                \/ Leaving(c, {"unroute"}) /\ DeleteRoute(c)
      <4>1. Leaving(c, {"unroute", "unmember"})'
        BY <3>3, <3>10 DEF DeleteLocalUser, DeleteRoute, Leaving
      <4>. QED
        BY <4>1, <3>1 DEF Leaving
    <3>. QED
      BY <3>1, <3>2, <3>4, <3>5, <3>6, <3>7, <3>8, <3>9, <3>10
      DEF HandlerMoves, Leaving, Engaged, UnregisterSteps
  <2>. QED
    BY <2>1, <2>2
<1>. QED
  BY <1>1, <1>2, TypeInvariant, SupportInvariant, NoLeakedEntryTheorem, PTL DEF Spec
-----------------------------------------------------------------------------
(* A patient user's connection.                                             *)

\* The users that wait and to whom nobody sends a message.
Patient == PatientUsers \ Addressees

\* Redis takes every command, and no server that may be stopped has been touched.
Calm == ~RedisMayFail /\ \A s \in StopServers : stage[s] = "up" /\ lives[s] = 1

\* A server that nobody stops is up or down.
NeverStopped == \A s \in Servers \ StopServers : stage[s] \in {"up", "down"}

Awake(c) == pc[c] \notin {"idle", "done", "gone"}

\* Only one handler is ever busy with a user that waits, and no goroutine of Run is
\* busy with one to whom nobody sends a message.
Alone ==
  /\ \A c, d \in Conns :
       ConnUser[c] = ConnUser[d] /\ ConnUser[c] \in PatientUsers /\ Awake(c) /\ Awake(d) => c = d
  /\ \A s \in Servers : call[s].user \notin Patient

\* What the handler of c has entered so far, at each of its steps.
Entered(c) ==
  LET s == ConnServer[c]
      u == ConnUser[c]
  IN  /\ pc[c] \in {"local", "route", "member", "status", "announce", "serve"} => c \in connections
      /\ RedisEnabled /\ pc[c] \in {"route", "member", "status", "announce", "serve"} => u \in localUsers[s]
      /\ RedisEnabled /\ pc[c] \in {"member", "status", "announce", "serve"} => registry[u] = s
      /\ RedisEnabled /\ pc[c] \in {"status", "announce", "serve"} => u \in serverUsers[s]
      /\ pc[c] \in {"announce", "serve"} => u \in online[s]

PatientInv ==
  /\ NeverStopped
  /\ Alone
  /\ Calm => \A c \in Conns : ConnUser[c] \in Patient => Entered(c)

\* While no server that may be stopped has been touched, none was touched before.
LEMMA CalmBefore ==
  ASSUME TypeOK, [Next]_vars, Calm'
  PROVE  Calm
<1> USE DEF TypeOK, serverVars
<1>1. ASSUME NEW s \in StopServers PROVE stage[s] = "up" /\ lives[s] = 1
  <2>0. s \in Servers /\ stage'[s] = "up" /\ lives'[s] = 1
    BY FlagAssumption DEF Calm
  <2>1. ASSUME NEW r \in Servers, BeginStop(r) \/ ReadMembers(r) \/ DeleteMembers(r) \/ CloseAll(r)
        PROVE  stage[s] = "up" /\ lives[s] = 1
    BY <2>0, <2>1 DEF BeginStop, ReadMembers, DeleteMembers, CloseAll
  <2>2. ASSUME NEW r \in Servers, ProcessGone(r) PROVE stage[s] = "up" /\ lives[s] = 1
    BY <2>0, <2>2 DEF ProcessGone
  <2>3. ASSUME NEW r \in Servers, Restart(r) PROVE stage[s] = "up" /\ lives[s] = 1
    BY <2>0, <2>3, FlagAssumption DEF Restart
  <2>4. ASSUME UNCHANGED <<stage, lives>> PROVE stage[s] = "up" /\ lives[s] = 1
    BY <2>0, <2>4
  <2>. QED
    BY <2>1, <2>2, <2>3, <2>4, NextSteps
    DEF vars, UnregisterConnection, Remove, CloseRemoved, CheckOthers, DeleteLocalUser,
        DeleteRoute, DeleteMember, RecheckOthers, MarkOffline, AddConnection, AddLocalUser,
        SetRoute, AddMember, MarkOnline, Accept, AnnounceOnline, ReaderCloses,
        AnnounceOffline, DropClosed, SweepUser, RouteExpires
<1>. QED
  BY <1>1 DEF Calm

\* Only the servers in StopServers are told to stop.
LEMMA NextNeverStopped ==
  ASSUME TypeOK, NeverStopped, [Next]_vars
  PROVE  NeverStopped'
<1> USE DEF TypeOK, serverVars
<1>1. ASSUME NEW r \in StopServers, BeginStop(r) \/ StopStep(r) PROVE NeverStopped'
  <2>1. r \in Servers /\ \A s \in Servers : s # r => stage'[s] = stage[s]
    BY <1>1, FlagAssumption
    DEF BeginStop, StopStep, ReadMembers, SweepUser, DeleteMembers, CloseAll, Exit, ProcessGone
  <2>. QED
    BY <2>1 DEF NeverStopped
<1>2. ASSUME NEW r \in Servers, ProcessGone(r) PROVE NeverStopped'
  BY <1>2 DEF ProcessGone, NeverStopped
<1>3. ASSUME NEW r \in Servers, Restart(r) PROVE NeverStopped'
  BY <1>3 DEF Restart, NeverStopped
<1>4. ASSUME UNCHANGED stage PROVE NeverStopped'
  BY <1>4 DEF NeverStopped
<1>5. ASSUME NEW r \in CrashServers, Crash(r) PROVE r \in Servers /\ ProcessGone(r)
  BY <1>5, FlagAssumption DEF Crash
<1>6. ASSUME NEW p \in Procs, UnregisterConnection(p) PROVE UNCHANGED stage
  BY <1>6 DEF UnregisterConnection, Remove, CloseRemoved, CheckOthers, DeleteLocalUser,
              DeleteRoute, DeleteMember, RecheckOthers, MarkOffline
<1>7. ASSUME NEW c \in Conns, Accept(c) \/ ReaderCloses(c) \/ HandlerStep(c) PROVE UNCHANGED stage
  BY <1>6, <1>7 DEF Accept, ReaderCloses, HandlerStep, Procs, RegisterConnection, AddConnection, AddLocalUser,
              SetRoute, AddMember, MarkOnline, AnnounceOnline, AnnounceOffline
<1>8. ASSUME NEW s \in Servers, NEW u \in Addressees, DropClosed(s, u) PROVE UNCHANGED stage
  BY <1>8 DEF DropClosed
<1>9. ASSUME NEW u \in Users, RouteExpires(u) PROVE UNCHANGED stage
  BY <1>9 DEF RouteExpires
<1>10. ASSUME NEW s \in Servers, UnregisterConnection(s) PROVE UNCHANGED stage
  BY <1>10, <1>6 DEF Procs
<1>11. CASE UNCHANGED vars
  BY <1>11, <1>4 DEF vars
<1>12. CASE Next
  BY <1>12, <1>1, <1>2, <1>3, <1>4, <1>5, <1>7, <1>8, <1>9, <1>10 DEF Next
<1>. QED
  BY <1>11, <1>12

\* A handler wakes up only in Accept, where a patient user's servers are quiet.
LEMMA NextAlone ==
  ASSUME TypeOK, SupportInv, Alone, [Next]_vars
  PROVE  Alone'
<1> USE ConnAssumption, NameAssumption DEF TypeOK, mapVars, memoryVars, redisVars, procVars, serverVars, Goto
<1>1. ASSUME \A c \in Conns : Awake(c)' => Awake(c), \A s \in Servers : call'[s].user = call[s].user
      PROVE  Alone'
  BY <1>1 DEF Alone
<1>2. ASSUME NEW p \in Procs, UnregisterConnection(p) PROVE Alone'
  <2>1. pc[p] \in UnregisterSteps /\ call' = call /\ \A q \in Procs : q # p => pc'[q] = pc[q]
    <3>1. CASE Remove(p) \/ CloseRemoved(p) \/ CheckOthers(p) \/ DeleteLocalUser(p)
      BY <3>1 DEF Remove, CloseRemoved, CheckOthers, DeleteLocalUser, UnregisterSteps
    <3>2. CASE DeleteRoute(p) \/ DeleteMember(p) \/ RecheckOthers(p) \/ MarkOffline(p)
      BY <3>2 DEF DeleteRoute, DeleteMember, RecheckOthers, MarkOffline, UnregisterSteps
    <3>. QED
      BY <1>2, <3>1, <3>2 DEF UnregisterConnection
  <2>2. \A c \in Conns : Awake(c)' => Awake(c)
    BY <2>1 DEF Awake, Procs, UnregisterSteps
  <2>. QED
    BY <1>1, <2>1, <2>2
<1>3. ASSUME NEW c \in Conns, \/ AddConnection(c) \/ AddLocalUser(c) \/ SetRoute(c) \/ AddMember(c)
                            \/ MarkOnline(c) \/ AnnounceOnline(c) \/ AnnounceOffline(c)
      PROVE  Alone'
  <2>1. Awake(c) /\ \A d \in Conns : d # c => pc'[d] = pc[d]
    BY <1>3 DEF AddConnection, AddLocalUser, SetRoute, AddMember, MarkOnline, AnnounceOnline,
                AnnounceOffline, Awake, Procs
  <2>2. \A s \in Servers : call'[s] = call[s]
    BY <1>3 DEF AddConnection, AddLocalUser, SetRoute, AddMember, MarkOnline, AnnounceOnline,
                AnnounceOffline, Procs
  <2>. QED
    BY <1>1, <2>1, <2>2 DEF Awake
<1>4. ASSUME NEW c \in Conns, Accept(c) PROVE Alone'
  <2>1. /\ \A d \in Conns : d # c => pc'[d] = pc[d]
        /\ \A s \in Servers : call'[s] = call[s]
    BY <1>4 DEF Accept, Procs
  <2>2. ConnUser[c] \in PatientUsers => \A d \in Conns : ConnUser[d] = ConnUser[c] => ~Awake(d)
    BY <1>4 DEF Accept, Quiet, Awake
  <2>3. \A d \in Conns : d # c /\ Awake(d)' => Awake(d)
    BY <2>1 DEF Awake
  <2>. QED
    BY <2>1, <2>2, <2>3 DEF Alone
<1>5. ASSUME NEW s \in Servers, NEW u \in Addressees, DropClosed(s, u) PROVE Alone'
  <2>1. /\ \A d \in Conns : pc'[d] = pc[d]
        /\ \A r \in Servers : r # s => call'[r] = call[r]
    BY <1>5 DEF DropClosed, Procs
  <2>2. call'[s].user = u
    BY <1>5 DEF DropClosed, Procs
  <2>3. u \notin Patient
    BY DEF Patient
  <2>. QED
    BY <2>1, <2>2, <2>3 DEF Alone, Awake
<1>6. ASSUME NEW s \in Servers, ProcessGone(s) PROVE Alone'
  <2>1. \A c \in Conns : pc'[c] \in {pc[c], "gone"}
    BY <1>6 DEF ProcessGone, Procs
  <2>. QED
    BY <1>6, <1>1, <2>1 DEF ProcessGone, Awake
<1>7. ASSUME UNCHANGED <<pc, call>> PROVE Alone'
  BY <1>7 DEF Alone, Awake
<1>. QED
  BY <1>2, <1>3, <1>4, <1>5, <1>6, <1>7, NextSteps
  DEF vars, ReaderCloses, BeginStop, ReadMembers, SweepUser, DeleteMembers, CloseAll, Restart, RouteExpires

\* A step that keeps a handler at its step, and what it has entered, keeps Entered.
LEMMA EnteredStays ==
  ASSUME TypeOK, NEW c \in Conns, Entered(c), pc'[c] = pc[c],
         c \in connections => c \in connections',
         ConnUser[c] \in localUsers[ConnServer[c]] => ConnUser[c] \in localUsers'[ConnServer[c]],
         registry[ConnUser[c]] = ConnServer[c] => registry'[ConnUser[c]] = ConnServer[c],
         ConnUser[c] \in serverUsers[ConnServer[c]] => ConnUser[c] \in serverUsers'[ConnServer[c]],
         ConnUser[c] \in online[ConnServer[c]] => ConnUser[c] \in online'[ConnServer[c]]
  PROVE  Entered(c)'
BY DEF Entered

\* A handler that is not yet, or no longer, registered has nothing to keep.
LEMMA NothingEntered ==
  ASSUME NEW c \in Conns,
         pc'[c] \notin {"local", "route", "member", "status", "announce", "serve"}
  PROVE  Entered(c)'
BY DEF Entered

\* An unregistration in calm takes nothing from a patient user whose handler is
\* somebody else's: it is for another user.
LEMMA UnregistrationSpares ==
  ASSUME TypeOK, SupportInv, Alone, NEW c \in Conns, ConnUser[c] \in Patient, Entered(c),
         NEW p \in Procs, UnregisterConnection(p)
  PROVE  Entered(c)'
<1> USE ConnAssumption, NameAssumption, ServerOfProc
    DEF TypeOK, mapVars, memoryVars, redisVars, procVars, serverVars, Goto
<1>1. CASE p = c
  <2>1. pc[c] \in UnregisterSteps /\ pc'[c] \in UnregisterSteps \cup {Returned(c)}
    <3>1. CASE Remove(p) \/ CloseRemoved(p) \/ CheckOthers(p) \/ DeleteLocalUser(p)
      BY <1>1, <3>1 DEF Remove, CloseRemoved, CheckOthers, DeleteLocalUser, UnregisterSteps, AfterClose
    <3>2. CASE DeleteRoute(p) \/ DeleteMember(p) \/ RecheckOthers(p) \/ MarkOffline(p)
      BY <1>1, <3>2 DEF DeleteRoute, DeleteMember, RecheckOthers, MarkOffline, UnregisterSteps
    <3>. QED
      BY <3>1, <3>2 DEF UnregisterConnection
  <2>2. Returned(c) \in {"idle", "register", "done"}
    BY DEF Returned
  <2>. QED
    BY <2>1, <2>2, NothingEntered DEF UnregisterSteps
<1>2. CASE p # c /\ ~Awake(c)
  <2>1. pc'[c] = pc[c]
    <3>1. CASE Remove(p) \/ CloseRemoved(p) \/ CheckOthers(p) \/ DeleteLocalUser(p)
      BY <1>2, <3>1 DEF Remove, CloseRemoved, CheckOthers, DeleteLocalUser, Procs
    <3>2. CASE DeleteRoute(p) \/ DeleteMember(p) \/ RecheckOthers(p) \/ MarkOffline(p)
      BY <1>2, <3>2 DEF DeleteRoute, DeleteMember, RecheckOthers, MarkOffline, Procs
    <3>. QED
      BY <3>1, <3>2 DEF UnregisterConnection
  <2>. QED
    BY <1>2, <2>1, NothingEntered DEF Awake
<1>3. CASE p # c /\ Awake(c)
  <2>1. pc[p] \in UnregisterSteps
    BY DEF UnregisterConnection, Remove, CloseRemoved, CheckOthers, DeleteLocalUser,
           DeleteRoute, DeleteMember, RecheckOthers, MarkOffline, UnregisterSteps
  <2>2. call[p].user # ConnUser[c]
    <3>1. CASE p \in Conns
      <4>1. Awake(p) /\ call[p].user = ConnUser[p]
        BY <2>1, <3>1 DEF Awake, UnregisterSteps, SupportInv, CallOK
      <4>. QED
        BY <1>3, <3>1, <4>1 DEF Alone, Patient
    <3>2. CASE p \in Servers
      BY <3>2 DEF Alone
    <3>. QED
      BY <3>1, <3>2 DEF Procs
  <2>3. pc'[c] = pc[c]
    <3>1. CASE Remove(p) \/ CloseRemoved(p) \/ CheckOthers(p) \/ DeleteLocalUser(p)
      BY <1>3, <3>1 DEF Remove, CloseRemoved, CheckOthers, DeleteLocalUser, Procs
    <3>2. CASE DeleteRoute(p) \/ DeleteMember(p) \/ RecheckOthers(p) \/ MarkOffline(p)
      BY <1>3, <3>2 DEF DeleteRoute, DeleteMember, RecheckOthers, MarkOffline, Procs
    <3>. QED
      BY <3>1, <3>2 DEF UnregisterConnection
  <2>4. CASE Remove(p)
    <3>1. c \in connections => c \in connections'
      BY <2>2, <2>4 DEF Remove, UserConns
    <3>. QED
      BY <2>3, <2>4, <3>1, EnteredStays DEF Remove
  <2>5. CASE DeleteLocalUser(p)
    <3>1. ConnUser[c] \in localUsers[ConnServer[c]] => ConnUser[c] \in localUsers'[ConnServer[c]]
      BY <2>2, <2>5 DEF DeleteLocalUser
    <3>. QED
      BY <2>3, <2>5, <3>1, EnteredStays DEF DeleteLocalUser
  <2>6. CASE DeleteRoute(p)
    <3>1. registry'[ConnUser[c]] = registry[ConnUser[c]]
      BY <2>2, <2>6 DEF DeleteRoute
    <3>. QED
      BY <2>3, <2>6, <3>1, EnteredStays DEF DeleteRoute
  <2>7. CASE DeleteMember(p)
    <3>1. ConnUser[c] \in serverUsers[ConnServer[c]] => ConnUser[c] \in serverUsers'[ConnServer[c]]
      <4>1. CASE UNCHANGED serverUsers
        BY <4>1
      <4>2. CASE serverUsers' = [serverUsers EXCEPT ![ServerOf(p)] = @ \ {call[p].user}]
        BY <2>2, <4>2
      <4>. QED
        BY <2>7, <4>1, <4>2 DEF DeleteMember
    <3>. QED
      BY <2>3, <2>7, <3>1, EnteredStays DEF DeleteMember
  <2>8. CASE MarkOffline(p)
    <3>1. ConnUser[c] \in online[ConnServer[c]] => ConnUser[c] \in online'[ConnServer[c]]
      BY <2>2, <2>8 DEF MarkOffline
    <3>. QED
      BY <2>3, <2>8, <3>1, EnteredStays DEF MarkOffline
  <2>9. CASE CloseRemoved(p) \/ CheckOthers(p) \/ RecheckOthers(p)
    BY <2>3, <2>9, EnteredStays DEF CloseRemoved, CheckOthers, RecheckOthers
  <2>. QED
    BY <2>4, <2>5, <2>6, <2>7, <2>8, <2>9 DEF UnregisterConnection
<1>. QED
  BY <1>1, <1>2, <1>3

\* A handler enters its own user's connection step by step, and takes nothing from
\* a patient user whose handler is another one.
LEMMA HandlerEnters ==
  ASSUME TypeOK, SupportInv, Alone, NEW c \in Conns, ConnUser[c] \in Patient, Entered(c),
         ~RedisMayFail, \A s \in Servers : stage[s] \in {"up", "down"},
         NEW d \in Conns,
         \/ Accept(d) \/ AddConnection(d) \/ AddLocalUser(d) \/ SetRoute(d)
         \/ AddMember(d) \/ MarkOnline(d) \/ AnnounceOnline(d) \/ AnnounceOffline(d)
  PROVE  Entered(c)'
<1> USE ConnAssumption, NameAssumption
    DEF TypeOK, mapVars, memoryVars, redisVars, procVars, serverVars, Goto
<1>0. /\ \A e \in Conns : e # d => pc'[e] = pc[e]
      /\ RedisAnswers(ConnServer[d]) /\ ~RedisFails(ConnServer[d])
  BY DEF Procs, Accept, AddConnection, AddLocalUser, SetRoute, AddMember, MarkOnline, AnnounceOnline,
         AnnounceOffline, RedisAnswers, RedisFails
<1>1. CASE Accept(d)
  <2>1. CASE c = d
    <3>1. pc' = [pc EXCEPT ![d] = "remove"] \/ pc' = [pc EXCEPT ![d] = "register"]
      BY <1>1 DEF Accept
    <3>2. pc'[c] \in {"remove", "register"}
      BY <2>1, <3>1 DEF Procs
    <3>. QED
      BY <3>2, NothingEntered
  <2>2. CASE c # d
    BY <1>0, <1>1, <2>2, EnteredStays DEF Accept
  <2>. QED
    BY <2>1, <2>2
<1>2. CASE AddConnection(d)
  <2>1. CASE c = d
    <3>1. c \in connections' /\ pc'[c] \in {"local", "status"} /\ (RedisEnabled => pc'[c] = "local")
      BY <1>2, <2>1 DEF AddConnection, Procs
    <3>. QED
      BY <3>1 DEF Entered
  <2>2. CASE c # d
    BY <1>0, <1>2, <2>2, EnteredStays DEF AddConnection
  <2>. QED
    BY <2>1, <2>2
<1>3. CASE AddLocalUser(d)
  <2>1. CASE c = d
    <3>1. pc[c] = "local" /\ pc'[c] = "route" /\ ConnUser[c] \in localUsers'[ConnServer[c]]
      BY <1>3, <2>1 DEF AddLocalUser, Procs
    <3>. QED
      BY <1>3, <3>1 DEF Entered, AddLocalUser
  <2>2. CASE c # d
    <3>1. ConnUser[c] \in localUsers[ConnServer[c]] => ConnUser[c] \in localUsers'[ConnServer[c]]
      BY <1>3 DEF AddLocalUser
    <3>. QED
      BY <1>0, <1>3, <2>2, <3>1, EnteredStays DEF AddLocalUser
  <2>. QED
    BY <2>1, <2>2
<1>4. CASE SetRoute(d)
  <2>0. /\ registry' = [registry EXCEPT ![ConnUser[d]] = ConnServer[d]] /\ Goto(d, "member")
        /\ pc[d] = "route" /\ UNCHANGED <<connections, localUsers, online, serverUsers>>
    BY <1>0, <1>4 DEF SetRoute
  <2>1. CASE c = d
    <3>1. pc'[c] = "member" /\ registry'[ConnUser[c]] = ConnServer[c]
      BY <2>0, <2>1 DEF Procs
    <3>. QED
      BY <2>0, <2>1, <3>1 DEF Entered
  <2>2. CASE c # d /\ ~Awake(c)
    BY <1>0, <2>2, NothingEntered DEF Awake
  <2>3. CASE c # d /\ Awake(c)
    <3>1. ConnUser[c] # ConnUser[d]
      BY <2>0, <2>3 DEF Alone, Awake, Patient
    <3>2. registry'[ConnUser[c]] = registry[ConnUser[c]]
      BY <2>0, <3>1
    <3>. QED
      BY <1>0, <2>0, <2>3, <3>2, EnteredStays
  <2>. QED
    BY <2>1, <2>2, <2>3
<1>5. CASE AddMember(d)
  <2>0. serverUsers' = [serverUsers EXCEPT ![ConnServer[d]] = @ \cup {ConnUser[d]}]
    BY <1>0, <1>5 DEF AddMember
  <2>1. CASE c = d
    <3>1. pc[c] = "member" /\ pc'[c] = "status" /\ ConnUser[c] \in serverUsers'[ConnServer[c]]
      BY <2>0, <1>5, <2>1 DEF AddMember, Procs
    <3>. QED
      BY <1>5, <3>1 DEF Entered, AddMember
  <2>2. CASE c # d
    <3>1. ConnUser[c] \in serverUsers[ConnServer[c]] => ConnUser[c] \in serverUsers'[ConnServer[c]]
      BY <2>0
    <3>. QED
      BY <1>0, <1>5, <2>2, <3>1, EnteredStays DEF AddMember
  <2>. QED
    BY <2>1, <2>2
<1>6. CASE MarkOnline(d)
  <2>1. CASE c = d
    <3>1. pc[c] = "status" /\ pc'[c] = "announce" /\ ConnUser[c] \in online'[ConnServer[c]]
      BY <1>6, <2>1 DEF MarkOnline, Procs
    <3>. QED
      BY <1>6, <3>1 DEF Entered, MarkOnline
  <2>2. CASE c # d
    <3>1. ConnUser[c] \in online[ConnServer[c]] => ConnUser[c] \in online'[ConnServer[c]]
      BY <1>6 DEF MarkOnline
    <3>. QED
      BY <1>0, <1>6, <2>2, <3>1, EnteredStays DEF MarkOnline
  <2>. QED
    BY <2>1, <2>2
<1>7. CASE AnnounceOnline(d)
  <2>1. CASE c = d
    <3>1. pc[c] = "announce" /\ pc'[c] = "serve"
      BY <1>7, <2>1 DEF AnnounceOnline, Procs
    <3>. QED
      BY <1>7, <3>1 DEF Entered, AnnounceOnline
  <2>2. CASE c # d
    BY <1>0, <1>7, <2>2, EnteredStays DEF AnnounceOnline
  <2>. QED
    BY <2>1, <2>2
<1>8. CASE AnnounceOffline(d)
  <2>1. CASE c = d
    BY <1>8, <2>1, NothingEntered DEF AnnounceOffline, Procs
  <2>2. CASE c # d
    BY <1>0, <1>8, <2>2, EnteredStays DEF AnnounceOffline
  <2>. QED
    BY <2>1, <2>2
<1>. QED
  BY <1>1, <1>2, <1>3, <1>4, <1>5, <1>6, <1>7, <1>8

\* In calm no step takes anything from what the handler of a patient user has
\* entered: other handlers are for other users, no server stops, and the heartbeat
\* keeps the route of a local user.
LEMMA NextEntered ==
  ASSUME TypeOK, SupportInv, PatientInv, [Next]_vars, Calm', NEW c \in Conns, ConnUser[c] \in Patient
  PROVE  Entered(c)'
<1> USE ConnAssumption, NameAssumption
    DEF TypeOK, mapVars, memoryVars, redisVars, procVars, serverVars, Goto
<1>0. /\ Alone /\ Entered(c) /\ ~RedisMayFail
      /\ \A s \in Servers : stage[s] \in {"up", "down"}
  BY CalmBefore DEF PatientInv, NeverStopped, Calm
<1>1. ASSUME NEW p \in Procs, UnregisterConnection(p) PROVE Entered(c)'
  BY <1>0, <1>1, UnregistrationSpares
<1>2. ASSUME NEW d \in Conns, \/ Accept(d) \/ AddConnection(d) \/ AddLocalUser(d) \/ SetRoute(d)
                            \/ AddMember(d) \/ MarkOnline(d) \/ AnnounceOnline(d) \/ AnnounceOffline(d)
      PROVE  Entered(c)'
  BY <1>0, <1>2, HandlerEnters
<1>3. ASSUME NEW d \in Conns, ReaderCloses(d) PROVE Entered(c)'
  BY <1>0, <1>3, EnteredStays DEF ReaderCloses
<1>4. ASSUME NEW s \in Servers, NEW u \in Addressees, DropClosed(s, u) PROVE Entered(c)'
  <2>1. pc'[c] = pc[c]
    BY <1>4 DEF DropClosed, Procs
  <2>. QED
    BY <1>0, <1>4, <2>1, EnteredStays DEF DropClosed
<1>5. ASSUME NEW s \in Servers, BeginStop(s) \/ ReadMembers(s) \/ SweepUser(s) \/ DeleteMembers(s)
                              \/ CloseAll(s) \/ Restart(s)
      PROVE  Entered(c)'
  <2>1. BeginStop(s) \/ Restart(s)
    BY <1>0, <1>5 DEF ReadMembers, SweepUser, DeleteMembers, CloseAll
  <2>. QED
    BY <1>0, <2>1, EnteredStays DEF BeginStop, Restart
<1>6. ASSUME NEW s \in Servers, ProcessGone(s) PROVE Entered(c)'
  <2>0. /\ pc'[c] = IF ConnServer[c] = s /\ pc[c] # "idle" THEN "gone" ELSE pc[c]
        /\ connections' = connections \ {e \in Conns : ConnServer[e] = s /\ pc[e] # "idle"}
        /\ \A r \in Servers : r # s => /\ localUsers'[r] = localUsers[r]
                                       /\ online'[r] = online[r]
        /\ UNCHANGED redisVars
    BY <1>6 DEF ProcessGone, Procs
  <2>1. CASE ConnServer[c] = s
    <3>1. pc'[c] \in {"idle", "gone"}
      BY <2>0, <2>1
    <3>. QED
      BY <3>1, NothingEntered
  <2>2. CASE ConnServer[c] # s
    BY <1>0, <2>0, <2>2, EnteredStays
  <2>. QED
    BY <2>1, <2>2
<1>7. ASSUME NEW u \in Users, RouteExpires(u) PROVE Entered(c)'
  <2>1. CASE u # ConnUser[c]
    <3>1. registry'[ConnUser[c]] = registry[ConnUser[c]]
      BY <1>7, <2>1 DEF RouteExpires
    <3>. QED
      BY <1>0, <1>7, <3>1, EnteredStays DEF RouteExpires
  <2>2. CASE u = ConnUser[c]
    <3>1. ~RedisEnabled \/ pc[c] \notin {"route", "member", "status", "announce", "serve"}
      <4>1. stage[ConnServer[c]] # "closed"
        BY <1>0
      <4>2. ConnUser[c] \notin localUsers[ConnServer[c]]
        BY <1>7, <2>2, <4>1 DEF RouteExpires, Refreshed
      <4>. QED
        BY <1>0, <4>2 DEF Entered
    <3>. QED
      BY <1>0, <1>7, <3>1 DEF Entered, RouteExpires
  <2>. QED
    BY <2>1, <2>2
<1>8. ASSUME UNCHANGED vars PROVE Entered(c)'
  BY <1>0, <1>8, EnteredStays DEF vars
<1>. QED
  BY <1>1, <1>2, <1>3, <1>4, <1>5, <1>6, <1>7, <1>8, NextSteps

\* Patient users have one handler at a time, and in calm nothing that it has
\* entered is taken back while it serves its connection.
THEOREM PatientInvariant == Spec => []PatientInv
<1>1. Init => PatientInv
  <2> SUFFICES ASSUME Init PROVE PatientInv
    OBVIOUS
  <2>1. NeverStopped
    BY DEF Init, NeverStopped
  <2>2. \A c \in Conns : pc[c] = "idle"
    BY DEF Init, Procs
  <2>3. \A s \in Servers : call[s].user \notin Patient
    BY NameAssumption, FlagAssumption DEF Init, Procs, Patient
  <2>. QED
    BY <2>1, <2>2, <2>3 DEF PatientInv, Alone, Awake, Entered
<1>2. TypeOK /\ SupportInv /\ PatientInv /\ [Next]_vars => PatientInv'
  <2> SUFFICES ASSUME TypeOK, SupportInv, PatientInv, [Next]_vars PROVE PatientInv'
    OBVIOUS
  <2>1. NeverStopped' /\ Alone'
    BY NextNeverStopped, NextAlone DEF PatientInv
  <2>2. ASSUME Calm', NEW c \in Conns, ConnUser[c] \in Patient PROVE Entered(c)'
    BY <2>2, NextEntered
  <2>. QED
    BY <2>1, <2>2 DEF PatientInv
<1>. QED
  BY <1>1, <1>2, TypeInvariant, SupportInvariant, PTL DEF Spec

\* A user that waits for its last connection to be finished, and to whom nobody
\* sends a message meanwhile, is reachable in every way while it is served: in the
\* map, the registry, Redis and the status cache.
THEOREM PatientTheorem == Spec => []PatientUserReachable
<1>1. PatientInv => PatientUserReachable
  BY DEF PatientInv, PatientUserReachable, Calm, Patient, Entered, Reachable
<1>. QED
  BY <1>1, PatientInvariant, PTL

\* Friends that were last told "online" have somebody who is served, and those of a
\* user that waits know when the user is, unless a notice was lost or a server that
\* could have sent one went down: every handler says "online" before it serves its
\* connection and "offline" when it no longer does, and a user that waits has one
\* handler at a time, so nobody else's "offline" comes in between.
THEOREM FriendsKnowTheorem == Spec => []FriendsKnow
<1>1. Init => FriendsKnow
  BY FlagAssumption DEF Init, FriendsKnow, Procs
<1>2. TypeOK /\ Alone /\ FriendsKnow /\ [Next]_vars => FriendsKnow'
  <2> SUFFICES ASSUME TypeOK, Alone, FriendsKnow, [Next]_vars,
                      NEW u \in Befriended, ~announced'[u].missed
               PROVE  LET served == \E c \in Conns : ConnUser[c] = u /\ pc'[c] = "serve"
                      IN  /\ announced'[u].status = "online" => served
                          /\ u \in PatientUsers /\ served => announced'[u].status = "online"
    BY DEF FriendsKnow
  <2> USE ConnAssumption, NameAssumption, FlagAssumption
      DEF TypeOK, mapVars, memoryVars, redisVars, procVars, serverVars, Goto, Procs
  <2> DEFINE Served == \E c \in Conns : ConnUser[c] = u /\ pc[c] = "serve"
             ServedNext == \E c \in Conns : ConnUser[c] = u /\ pc'[c] = "serve"
             Goal == /\ announced'[u].status = "online" => ServedNext
                     /\ u \in PatientUsers /\ ServedNext => announced'[u].status = "online"
  <2>1. ~announced[u].missed => /\ announced[u].status = "online" => Served
                                /\ u \in PatientUsers /\ Served => announced[u].status = "online"
    BY DEF FriendsKnow
  <2>2. ASSUME announced'[u] = announced[u],
               \A c \in Conns : ConnUser[c] = u => (pc'[c] = "serve" <=> pc[c] = "serve")
        PROVE  Goal
    BY <2>1, <2>2
  <2>3. ASSUME NEW p \in Procs, announced'[u] = announced[u], pc[p] # "serve", pc'[p] # "serve",
               \A q \in Procs : q # p => pc'[q] = pc[q]
        PROVE  Goal
    BY <2>2, <2>3
  <2>4. ASSUME NEW p \in Procs, UnregisterConnection(p) PROVE Goal
    <3>0. Returned(p) # "serve" /\ AfterClose # "serve"
      BY DEF Returned, AfterClose
    <3>1. UNCHANGED announced /\ pc[p] # "serve" /\ pc'[p] # "serve" /\ \A q \in Procs : q # p => pc'[q] = pc[q]
      <4>1. CASE Remove(p) \/ CloseRemoved(p)
        BY <3>0, <4>1 DEF Remove, CloseRemoved
      <4>2. CASE CheckOthers(p) \/ DeleteLocalUser(p) \/ DeleteRoute(p)
        BY <4>2 DEF CheckOthers, DeleteLocalUser, DeleteRoute
      <4>3. CASE DeleteMember(p) \/ RecheckOthers(p) \/ MarkOffline(p)
        BY <3>0, <4>3 DEF DeleteMember, RecheckOthers, MarkOffline
      <4>. QED
        BY <2>4, <4>1, <4>2, <4>3 DEF UnregisterConnection
    <3>. QED
      BY <2>3, <3>1
  <2>5. ASSUME NEW c \in Conns, RegisterConnection(c) \/ Accept(c) PROVE Goal
    <3>1. UNCHANGED announced /\ pc[c] # "serve" /\ pc'[c] # "serve" /\ \A q \in Procs : q # c => pc'[q] = pc[q]
      BY <2>5 DEF RegisterConnection, AddConnection, AddLocalUser, SetRoute, AddMember, MarkOnline, Accept
    <3>. QED
      BY <2>3, <3>1
  <2>6. ASSUME NEW c \in Conns, AnnounceOnline(c) PROVE Goal
    <3>0. /\ SendStatusUpdate(ConnUser[c], "online") /\ pc'[c] = "serve"
          /\ \A d \in Conns : d # c => pc'[d] = pc[d]
      BY <2>6 DEF AnnounceOnline
    <3>1. CASE ConnUser[c] = u
      <4>1. announced'[u].status = "online"
        BY <3>0, <3>1, UpdateTyped
      <4>. QED
        BY <3>0, <3>1, <4>1
    <3>2. CASE ConnUser[c] # u
      <4>1. announced'[u] = announced[u]
        BY <3>0, <3>2, UpdateTyped
      <4>. QED
        BY <2>2, <3>0, <3>2, <4>1
    <3>. QED
      BY <3>1, <3>2
  <2>7. ASSUME NEW c \in Conns, AnnounceOffline(c) PROVE Goal
    <3>0. /\ SendStatusUpdate(ConnUser[c], "offline") /\ pc[c] = "serve" /\ pc'[c] = "remove"
          /\ \A d \in Conns : d # c => pc'[d] = pc[d]
      BY <2>7 DEF AnnounceOffline
    <3>1. CASE ConnUser[c] = u
      <4>1. announced'[u].status = "offline"
        BY <3>0, <3>1, UpdateTyped
      <4>2. u \in PatientUsers => ~ServedNext
        BY <3>0, <3>1 DEF Alone, Awake
      <4>. QED
        BY <4>1, <4>2
    <3>2. CASE ConnUser[c] # u
      <4>1. announced'[u] = announced[u]
        BY <3>0, <3>2, UpdateTyped
      <4>. QED
        BY <2>2, <3>0, <3>2, <4>1
    <3>. QED
      BY <3>1, <3>2
  <2>8. ASSUME NEW r \in Servers, NEW v \in Addressees, DropClosed(r, v) PROVE Goal
    <3>1. /\ UNCHANGED announced /\ pc[r] # "serve" /\ pc'[r] # "serve"
          /\ \A q \in Procs : q # r => pc'[q] = pc[q]
      BY <2>8 DEF DropClosed
    <3>. QED
      BY <2>3, <3>1
  <2>9. ASSUME NEW r \in Servers, ProcessGone(r) PROVE Goal
    <3> DEFINE mine == {c \in Conns : ConnServer[c] = r /\ pc[c] # "idle"}
    <3>1. /\ announced' = [v \in Users |->
                [announced[v] EXCEPT !.missed =
                   @ \/ \E c \in mine : v \in Befriended /\ ConnUser[c] = v /\ pc[c] # "gone"]]
          /\ \A c \in Conns : pc'[c] = IF c \in mine THEN "gone" ELSE pc[c]
      BY <2>9 DEF ProcessGone
    <3>2. u \in Users /\ announced[u] \in [status : {"none", "online", "offline"}, missed : BOOLEAN]
      OBVIOUS
    <3>3. announced'[u] = [announced[u] EXCEPT !.missed =
                   @ \/ \E c \in mine : u \in Befriended /\ ConnUser[c] = u /\ pc[c] # "gone"]
      BY <3>1, <3>2
    <3>4. /\ announced'[u].status = announced[u].status /\ ~announced[u].missed
          /\ \A c \in mine : ConnUser[c] = u => pc[c] = "gone"
      BY <3>2, <3>3
    <3>5. \A c \in Conns : ConnUser[c] = u => (pc'[c] = "serve" <=> pc[c] = "serve")
      BY <3>1, <3>4
    <3>. QED
      BY <2>1, <3>4, <3>5
  <2>10. ASSUME UNCHANGED <<announced, pc>> PROVE Goal
    BY <2>2, <2>10
  <2>11. Goal
    BY <2>4, <2>5, <2>6, <2>7, <2>8, <2>9, <2>10, NextSteps
    DEF vars, RegisterConnection, ReaderCloses, BeginStop, ReadMembers, SweepUser,
        DeleteMembers, CloseAll, Restart, RouteExpires
  <2>. QED
    BY <2>11
<1>3. PatientInv => Alone
  BY DEF PatientInv
<1>. QED
  BY <1>1, <1>2, <1>3, TypeInvariant, PatientInvariant, PTL DEF Spec

\* Only ReadMembers puts a user among those to be swept, and it takes them from the
\* set of a server that is not closed.
LEMMA NewSweep ==
  ASSUME TypeOK, [Next]_vars, NEW s \in Servers, NEW u \in sweep'[s], u \notin sweep[s]
  PROVE  u \in serverUsers[s] /\ stage[s] = "draining"
<1> USE DEF TypeOK, mapVars, memoryVars, redisVars, procVars, serverVars
<1> DEFINE Read == u \in serverUsers[s] /\ stage[s] = "draining"
<1>1. ASSUME NEW r \in Servers, ReadMembers(r) PROVE Read
  BY <1>1 DEF ReadMembers
<1>2. ASSUME NEW r \in Servers, SweepUser(r) PROVE Read
  BY <1>2 DEF SweepUser
<1>3. ASSUME NEW r \in Servers, ProcessGone(r) PROVE Read
  BY <1>3 DEF ProcessGone
<1>4. ASSUME UNCHANGED sweep PROVE Read
  BY <1>4
<1>. QED
  BY <1>1, <1>2, <1>3, <1>4, NextSteps
  DEF vars, UnregisterConnection, Remove, CloseRemoved, CheckOthers, DeleteLocalUser,
      DeleteRoute, DeleteMember, RecheckOthers, MarkOffline, AddConnection, AddLocalUser,
      SetRoute, AddMember, MarkOnline, Accept, AnnounceOnline, ReaderCloses,
      AnnounceOffline, DropClosed, BeginStop, DeleteMembers, CloseAll, Restart, RouteExpires

\* A stop does not take the users who have moved to another server: a user in the
\* set has a handler at the stopping server (NoGhostMember), and a user who waits
\* has no second one that is being served elsewhere (Alone).
THEOREM SweepTheorem == Spec => SweepSparesMoved
<1> DEFINE Spared(s, c) ==
      /\ ~RedisMayFail /\ lives[s] = 1
      /\ ConnUser[c] \in PatientUsers \ Addressees
      /\ ConnServer[c] # s /\ pc[c] = "serve"
      => (ConnUser[c] \in sweep'[s] => ConnUser[c] \in sweep[s])
<1>1. TypeOK /\ PatientInv /\ NoGhostMember /\ [Next]_vars
        => [\A s \in Servers : \A c \in Conns : Spared(s, c)]_vars
  <2> SUFFICES ASSUME TypeOK, PatientInv, NoGhostMember, [Next]_vars,
                      NEW s \in Servers, NEW c \in Conns,
                      ~RedisMayFail, lives[s] = 1, ConnUser[c] \in PatientUsers \ Addressees,
                      ConnServer[c] # s, pc[c] = "serve",
                      ConnUser[c] \in sweep'[s], ConnUser[c] \notin sweep[s]
               PROVE  FALSE
    OBVIOUS
  <2>1. ConnUser[c] \in serverUsers[s] /\ stage[s] = "draining"
    BY NewSweep
  <2>2. PICK d \in Conns :
          /\ ConnServer[d] = s /\ ConnUser[d] = ConnUser[c]
          /\ Engaged(d) \/ Leaving(d, {"close", "check", "unlocal", "unroute", "unmember"})
    BY <2>1 DEF NoGhostMember
  <2>3. Awake(c) /\ Awake(d)
    BY <2>2 DEF Awake, Engaged, Leaving
  <2>4. c = d
    BY <2>2, <2>3 DEF PatientInv, Alone, Patient
  <2>. QED
    BY <2>2, <2>4
<1>. QED
  BY <1>1, TypeInvariant, PatientInvariant, NoGhostMemberTheorem, PTL DEF Spec, SweepSparesMoved

-----------------------------------------------------------------------------
(* The steps of the manager and those of messages.                         *)

\* Every step is one of the manager's, with what it does to messages, one of a
\* message's, or the unregistration of a closed connection.
LEMMA RoutingSteps ==
  ASSUME [RoutingNext]_allVars
  PROVE  \/ ManagerStep /\ KeepReachable
         \/ /\ UNCHANGED vars /\ KeepReachable
            /\ \/ \E m \in Msgs : \/ ChooseWay(m) \/ EnqueueLocal(m) \/ FindLocal(m)
                                  \/ FindRoute(m) \/ Publish(m)
               \/ \E s \in Servers : \/ Listen(s) \/ TakeMessage(s) \/ CollectConns(s) \/ GiveUp(s)
                                     \/ \E c \in Conns : Deliver(s, c) \/ SkipFull(s, c)
         \/ (\E s \in Servers, c \in Conns : UnregisterClosed(s, c)) /\ KeepReachable
         \/ UNCHANGED allVars
BY DEF RoutingNext, RoutingStep, SendMessage, ProcessMessage

-----------------------------------------------------------------------------
(* What a step of the manager does to the rest.                            *)

\* Server s goes down in this step.
Dies(s) == stage[s] # "down" /\ stage'[s] = "down"

\* The recipient's connections in the map after this step.
After(s) == {c \in connections' : ConnServer[c] = s /\ ConnUser[c] = MsgTo[hand[s]]}

\* Message m goes down with a server in this step.
GoesDown(m) == \E s \in Servers : Dies(s) /\ m \in Held(s)

\* A step of the manager empties what is in a process that ends; on another server
\* it only follows the map.
LEMMA CarriedServer ==
  ASSUME Carried, NEW s \in Servers
  PROVE  /\ Dies(s) => /\ queue'[s] = << >> /\ channel'[s] = << >>
                       /\ hand'[s] = NoMsg /\ phase'[s] = "take"
                       /\ tries'[s] = {} /\ stale'[s] = FALSE
         /\ ~Dies(s) => /\ queue'[s] = queue[s] /\ channel'[s] = channel[s]
                        /\ hand'[s] = hand[s] /\ phase'[s] = phase[s]
                        /\ \/ tries'[s] = tries[s]
                           \/ phase[s] = "collect" /\ tries'[s] = After(s)
                        /\ phase[s] # "collect" => tries'[s] = tries[s] /\ stale'[s] = FALSE
                        /\ phase[s] = "collect" => stale'[s] = (stale[s] \/ After(s) = {})
                        /\ phase[s] = "collect" /\ ~stale[s]
                             => tries'[s] = After(s) \/ (stage[s] = "closing" /\ stage'[s] = "closed")
<1> DEFINE dead == {t \in Servers : stage[t] # "down" /\ stage'[t] = "down"}
<1>1. s \in dead <=> Dies(s)
  BY DEF Dies
<1>2. /\ queue' = [t \in Servers |-> IF t \in dead THEN << >> ELSE queue[t]]
      /\ channel' = [t \in Servers |-> IF t \in dead THEN << >> ELSE channel[t]]
      /\ hand' = [t \in Servers |-> IF t \in dead THEN NoMsg ELSE hand[t]]
      /\ phase' = [t \in Servers |-> IF t \in dead THEN "take" ELSE phase[t]]
  BY DEF Carried
<1>3. tries'[s] = IF s \in dead THEN {}
                  ELSE IF phase[s] # "collect" \/ stale[s] \/ (stage[s] = "closing" /\ stage'[s] = "closed")
                         THEN tries[s]
                  ELSE After(s)
  BY DEF Carried, After
<1>4. stale'[s] = (s \notin dead /\ phase[s] = "collect" /\ (stale[s] \/ After(s) = {}))
  BY DEF Carried, After
<1> HIDE DEF dead
<1>5. /\ queue'[s] = IF s \in dead THEN << >> ELSE queue[s]
      /\ channel'[s] = IF s \in dead THEN << >> ELSE channel[s]
      /\ hand'[s] = IF s \in dead THEN NoMsg ELSE hand[s]
      /\ phase'[s] = IF s \in dead THEN "take" ELSE phase[s]
  BY <1>2
<1> QED
  BY <1>1, <1>3, <1>4, <1>5

\* Messages in a process that ends are lost; no other message changes.
LEMMA CarriedMessage ==
  ASSUME Carried
  PROVE  /\ fate' = [m \in Msgs |-> IF GoesDown(m) THEN "lost" ELSE fate[m]]
         /\ progress' = [m \in Msgs |-> IF GoesDown(m) THEN "sent" ELSE progress[m]]
         /\ UNCHANGED <<target, deliveries>>
<1>1. \A m : (m \in UNION {Held(s) : s \in {t \in Servers : stage[t] # "down" /\ stage'[t] = "down"}})
             <=> GoesDown(m)
  BY DEF GoesDown, Dies
<1> QED
  BY <1>1 DEF Carried

\* The variables of all servers are what they are on each.
LEMMA CarriedDomains ==
  ASSUME Carried
  PROVE  /\ queue' = [s \in Servers |-> queue'[s]] /\ channel' = [s \in Servers |-> channel'[s]]
         /\ hand' = [s \in Servers |-> hand'[s]] /\ phase' = [s \in Servers |-> phase'[s]]
         /\ tries' = [s \in Servers |-> tries'[s]] /\ stale' = [s \in Servers |-> stale'[s]]
BY DEF Carried

-----------------------------------------------------------------------------
(* The messages' part is a connection manager: every step of it is a step   *)
(* of ConnectionManager.                                                   *)

\* A goroutine of Run has a message in hand while it works on one.
HandOK == \A s \in Servers : hand[s] = NoMsg <=> phase[s] = "take"

\* A server that is down holds no message.
DownQuiet ==
  \A s \in Servers : stage[s] = "down" => queue[s] = << >> /\ channel[s] = << >> /\ phase[s] = "take"

\* A connection still to be tried was registered in this life of its server.
TriesRegistered == \A s \in Servers : \A c \in tries[s] : HasRegistered(c)

\* A message to be published has a server to go to, and none before that.
TargetOK ==
  \A m \in Msgs : /\ progress[m] = "publish" => target[m] \in Servers
                  /\ progress[m] \in {"new", "enqueue", "find", "get"} => target[m] = NoServer

ManagerInv == TypeOK /\ SupportInv /\ NoLeakedEntry
RouteInv == ManagerInv /\ RoutingTypeOK /\ HandOK /\ DownQuiet /\ TriesRegistered /\ TargetOK

\* A registered connection is in the map only with a handler, and what is in the
\* map was registered.
LEMMA EntryRegistered ==
  ASSUME NoLeakedEntry, NEW c \in connections
  PROVE  HasRegistered(c)
BY DEF NoLeakedEntry, Engaged, Leaving, HasRegistered, UnregisterSteps

\* A server that is trying connections is not down.
LEMMA TryingIsUp ==
  ASSUME HandOK, DownQuiet, RoutingTypeOK, NEW s \in Servers, tries[s] # {}
  PROVE  stage[s] # "down" /\ hand[s] \in Msgs /\ MsgTo[hand[s]] \in Addressees
<1>1. hand[s] # NoMsg /\ hand[s] \in Msgs \cup {NoMsg}
  BY DEF RoutingTypeOK
<1>2. stage[s] # "down"
  BY <1>1 DEF HandOK, DownQuiet
<1> QED
  BY <1>1, <1>2, MsgAssumption

\* Every step is a step of ConnectionManager, or one it does not see.
LEMMA StepIsNext ==
  ASSUME RouteInv, [RoutingNext]_allVars
  PROVE  [Next]_vars
<1>1. CASE ManagerStep
  BY <1>1 DEF ManagerStep, Next
<1>2. ASSUME NEW s \in Servers, NEW c \in Conns, UnregisterClosed(s, c)
      PROVE  Next
  <2>1. stage[s] # "down" /\ MsgTo[hand[s]] \in Addressees
    BY <1>2, TryingIsUp DEF RouteInv, UnregisterClosed
  <2>2. ConnServer[c] = s /\ ConnUser[c] = MsgTo[hand[s]] /\ HasRegistered(c)
    BY <1>2 DEF RouteInv, RoutingTypeOK, TriesRegistered, UnregisterClosed
  <2>3. DropClosed(s, MsgTo[hand[s]])
    BY <1>2, <2>1, <2>2 DEF UnregisterClosed, DropClosed
  <2> QED
    BY <2>1, <2>3 DEF Next
<1> QED
  BY <1>1, <1>2, RoutingSteps DEF allVars

\* So the invariants of the manager are kept here.
LEMMA ManagerInvStep ==
  ASSUME RouteInv, [RoutingNext]_allVars
  PROVE  ManagerInv'
BY StepIsNext, NextTypeOK, NextSupportInv, NextNoLeakedEntry DEF RouteInv, ManagerInv

\* A handler that is done stays so until its process is gone.
LEMMA DoneStays ==
  ASSUME TypeOK, [Next]_vars, NEW c \in Conns, pc[c] = "done", ~ProcessGone(ConnServer[c])
  PROVE  pc'[c] = "done"
<1> USE ConnAssumption, NameAssumption
    DEF TypeOK, mapVars, memoryVars, redisVars, procVars, serverVars, Goto
<1>0. c \in Procs /\ c \notin Servers
  BY DEF Procs
<1>1. ASSUME NEW p \in Procs, UnregisterConnection(p) PROVE pc'[c] = "done"
  <2>1. pc[p] \in UnregisterSteps
    BY <1>1 DEF UnregisterConnection, Remove, CloseRemoved, CheckOthers, DeleteLocalUser, DeleteRoute,
                DeleteMember, RecheckOthers, MarkOffline, UnregisterSteps
  <2>2. p # c
    BY <2>1 DEF UnregisterSteps
  <2>3. \E step : pc' = [pc EXCEPT ![p] = step]
    BY <1>1 DEF UnregisterConnection, Remove, CloseRemoved, CheckOthers, DeleteLocalUser, DeleteRoute,
                DeleteMember, RecheckOthers, MarkOffline
  <2> QED
    BY <1>0, <2>2, <2>3
<1>2. ASSUME NEW d \in Conns, \/ Accept(d) \/ AddConnection(d) \/ AddLocalUser(d) \/ SetRoute(d)
                              \/ AddMember(d) \/ MarkOnline(d) \/ AnnounceOnline(d)
                              \/ ReaderCloses(d) \/ AnnounceOffline(d)
      PROVE  pc'[c] = "done"
  <2>1. CASE ReaderCloses(d)
    BY <2>1 DEF ReaderCloses
  <2>2. CASE ~ReaderCloses(d)
    <3>1. pc[d] # "done" /\ \E step : pc' = [pc EXCEPT ![d] = step]
      BY <1>2, <2>2 DEF Accept, AddConnection, AddLocalUser, SetRoute, AddMember, MarkOnline,
                        AnnounceOnline, AnnounceOffline
    <3> QED
      BY <1>0, <3>1
  <2> QED
    BY <2>1, <2>2
<1>3. ASSUME NEW s \in Servers, NEW u \in Addressees, DropClosed(s, u) PROVE pc'[c] = "done"
  BY <1>3, <1>0 DEF DropClosed
<1>4. ASSUME NEW s \in Servers, ProcessGone(s) PROVE pc'[c] = "done"
  BY <1>4, <1>0 DEF ProcessGone
<1>5. CASE UNCHANGED pc
  BY <1>5
<1> QED
  BY <1>1, <1>2, <1>3, <1>4, <1>5, NextSteps
  DEF vars, BeginStop, ReadMembers, SweepUser, DeleteMembers, CloseAll, Restart, RouteExpires

\* A registered connection stays so until its process is gone.
LEMMA StaysRegistered ==
  ASSUME TypeOK, SupportInv, [Next]_vars, NEW c \in Conns, HasRegistered(c),
         ~ProcessGone(ConnServer[c])
  PROVE  HasRegistered(c)'
<1>1. CASE pc[c] = "done"
  BY <1>1, DoneStays DEF HasRegistered
<1>2. CASE pc[c] # "done"
  <2>1. Engaged(c) \/ Leaving(c, UnregisterSteps)
    BY <1>2 DEF HasRegistered, Engaged, Leaving
  <2>2. ASSUME Engaged(c)' \/ Leaving(c, UnregisterSteps)' PROVE HasRegistered(c)'
    BY <2>2 DEF HasRegistered, Engaged, Leaving, UnregisterSteps
  <2>3. CASE pc'[c] = pc[c] /\ call'[c] = call[c]
    BY <2>3 DEF HasRegistered
  <2>4. CASE Engaged(c) /\ Engaged(c)'
    BY <2>4, <2>2
  <2>5. CASE Leaving(c, {"remove", "close"}) /\ Leaving(c, {"close", AfterClose})'
    BY <2>5, <2>2 DEF Leaving, AfterClose, UnregisterSteps
  <2>6. CASE /\ pc[c] \in UnregisterSteps /\ call[c].type = ConnType[c]
             /\ \/ CheckOthers(c) \/ DeleteLocalUser(c) \/ DeleteRoute(c) \/ DeleteMember(c)
                \/ RecheckOthers(c) \/ MarkOffline(c)
    <3>1. call' = call /\ c \in Procs /\ c \notin Servers
      BY <2>6, NameAssumption DEF CheckOthers, DeleteLocalUser, DeleteRoute, DeleteMember, RecheckOthers,
                  MarkOffline, Procs
    <3>2. pc'[c] \in UnregisterSteps \cup {"done"}
      BY <2>6, <3>1 DEF CheckOthers, DeleteLocalUser, DeleteRoute, DeleteMember, RecheckOthers,
                  MarkOffline, Goto, TypeOK, Returned, UnregisterSteps
    <3> QED
      BY <2>6, <3>1, <3>2 DEF HasRegistered
  <2>7. HandlerMoves(c)
    BY HandlerStepMoves
  <2> QED
    BY <2>1, <2>3, <2>4, <2>5, <2>6, <2>7 DEF HandlerMoves, Leaving, UnregisterSteps
<1> QED
  BY <1>1, <1>2


\* What enters and leaves the lines keeps their types.
LEMMA LineTypes ==
  ASSUME NEW line \in [Servers -> Seq(Msgs)], NEW s \in Servers
  PROVE  /\ \A m \in Msgs : [line EXCEPT ![s] = Append(@, m)] \in [Servers -> Seq(Msgs)]
         /\ \A m \in Msgs : Len(Append(line[s], m)) = Len(line[s]) + 1
         /\ line[s] # << >> => /\ Head(line[s]) \in Msgs
                               /\ [line EXCEPT ![s] = Tail(@)] \in [Servers -> Seq(Msgs)]
                               /\ Len(Tail(line[s])) = Len(line[s]) - 1
         /\ Len(line[s]) \in Nat
<1>1. line[s] \in Seq(Msgs)
  OBVIOUS
<1>2. \A m \in Msgs : Append(line[s], m) \in Seq(Msgs) /\ Len(Append(line[s], m)) = Len(line[s]) + 1
  BY <1>1, AppendProperties
<1>3. line[s] # << >> => /\ Head(line[s]) \in Msgs /\ Tail(line[s]) \in Seq(Msgs)
                         /\ Len(Tail(line[s])) = Len(line[s]) - 1
  BY <1>1, HeadTailProperties
<1>4. Len(line[s]) \in Nat
  BY <1>1, LenProperties
<1> QED
  BY <1>2, <1>3, <1>4

\* A step of the manager keeps the types of the messages' variables,
LEMMA ManagerStepTypes ==
  ASSUME RouteInv, ManagerStep, KeepReachable, ManagerInv'
  PROVE  RoutingTypeOK'
<1>1. Carried
  BY DEF ManagerStep
<1>2. /\ queue' \in [Servers -> Seq(Msgs)] /\ channel' \in [Servers -> Seq(Msgs)]
      /\ \A s \in Servers : Len(queue'[s]) <= QueueCap
  <2>1. << >> \in Seq(Msgs) /\ Len(<< >>) = 0 /\ 0 <= QueueCap
    BY EmptySeq, CapAssumption
  <2>2. ASSUME NEW s \in Servers
        PROVE  queue'[s] \in Seq(Msgs) /\ channel'[s] \in Seq(Msgs) /\ Len(queue'[s]) <= QueueCap
    BY <1>1, <2>1, CarriedServer DEF RouteInv, RoutingTypeOK
  <2>3. queue' = [s \in Servers |-> queue'[s]] /\ channel' = [s \in Servers |-> channel'[s]]
    BY <1>1, CarriedDomains
  <2> HIDE DEF RouteInv
  <2> QED
    BY <2>2, <2>3
<1>3. /\ hand' \in [Servers -> Msgs \cup {NoMsg}] /\ phase' \in [Servers -> {"take", "collect", "try"}]
      /\ tries' \in [Servers -> SUBSET Conns] /\ stale' \in [Servers -> BOOLEAN]
  <2>1. ASSUME NEW s \in Servers
        PROVE  /\ hand'[s] \in Msgs \cup {NoMsg} /\ phase'[s] \in {"take", "collect", "try"}
               /\ stale'[s] \in BOOLEAN /\ tries'[s] \in SUBSET Conns
    <3>1. hand[s] \in Msgs \cup {NoMsg} /\ phase[s] \in {"take", "collect", "try"}
          /\ stale[s] \in BOOLEAN /\ tries[s] \in SUBSET Conns
      BY DEF RouteInv, RoutingTypeOK
    <3>2. After(s) \in SUBSET Conns
      BY DEF After, ManagerInv, TypeOK
    <3> QED
      BY <1>1, <3>1, <3>2, CarriedServer
  <2>2. /\ hand' = [s \in Servers |-> hand'[s]] /\ phase' = [s \in Servers |-> phase'[s]]
        /\ tries' = [s \in Servers |-> tries'[s]] /\ stale' = [s \in Servers |-> stale'[s]]
    BY <1>1, CarriedDomains
  <2> QED
    BY <2>1, <2>2
<1>4. /\ progress' \in [Msgs -> {"new", "enqueue", "find", "get", "publish", "sent"}]
      /\ fate' \in [Msgs -> Fates] /\ UNCHANGED <<target, deliveries>>
  BY <1>1, CarriedMessage DEF RouteInv, RoutingTypeOK, Fates
<1>5. reachable' \in [Msgs -> SUBSET Conns]
  BY DEF KeepReachable, ReachableConns, RouteInv, RoutingTypeOK
<1>6. ASSUME NEW s \in Servers, NEW c \in tries'[s]
      PROVE  hand'[s] # NoMsg /\ ConnServer[c] = s /\ ConnUser[c] = MsgTo[hand'[s]]
  <2>1. ~Dies(s) /\ hand'[s] = hand[s]
    BY <1>1, <1>6, CarriedServer
  <2>2. CASE tries'[s] = tries[s]
    BY <1>6, <2>1, <2>2 DEF RouteInv, RoutingTypeOK
  <2>3. CASE phase[s] = "collect" /\ tries'[s] = After(s)
    BY <1>6, <2>1, <2>3 DEF RouteInv, HandOK, After
  <2> QED
    BY <1>1, <2>1, <2>2, <2>3, CarriedServer
<1> HIDE DEF RouteInv
<1>7. target \in [Msgs -> Servers \cup {NoServer}] /\ deliveries \in Seq([msg : Msgs, conn : Conns])
  BY DEF RouteInv, RoutingTypeOK
<1> QED
  BY <1>2, <1>3, <1>4, <1>5, <1>6, <1>7 DEF RoutingTypeOK

\* The sender's steps.
LEMMA SendTypes ==
  ASSUME RouteInv, KeepReachable, NEW m \in Msgs,
         ChooseWay(m) \/ EnqueueLocal(m) \/ FindLocal(m) \/ FindRoute(m) \/ Publish(m)
  PROVE  RoutingTypeOK'
<1> DEFINE s == MsgFrom[m]
<1>1. s \in Servers
  BY MsgAssumption
<1>2. reachable' \in [Msgs -> SUBSET Conns]
  BY DEF KeepReachable, ReachableConns, RouteInv, RoutingTypeOK
<1>3. /\ queue \in [Servers -> Seq(Msgs)] /\ channel \in [Servers -> Seq(Msgs)]
      /\ Len(queue[s]) \in Nat /\ QueueCap \in Nat
  BY <1>1, LineTypes, CapAssumption DEF RouteInv, RoutingTypeOK
<1>4. CASE ChooseWay(m)
  <2>1. /\ Advance(m, "enqueue") \/ Advance(m, "find") \/ Advance(m, "sent")
        /\ End(m, "stored") \/ UNCHANGED fate
    BY <1>4 DEF ChooseWay
  <2>2. /\ progress' \in [Msgs -> {"new", "enqueue", "find", "get", "publish", "sent"}]
        /\ fate' \in [Msgs -> Fates]
    BY <2>1 DEF Advance, End, RouteInv, RoutingTypeOK, Fates
  <2> QED
    BY <1>2, <1>4, <2>2 DEF ChooseWay, busVars, dispatchVars, RouteInv, RoutingTypeOK
<1>5. CASE EnqueueLocal(m)
  <2>1. /\ queue' \in [Servers -> Seq(Msgs)]
        /\ \A t \in Servers : Len(queue'[t]) <= QueueCap
    <3>1. CASE ~(Len(queue[s]) < QueueCap)
      BY <1>5, <3>1 DEF EnqueueLocal, RouteInv, RoutingTypeOK
    <3>2. CASE Len(queue[s]) < QueueCap
      <4>1. queue' = [queue EXCEPT ![s] = Append(@, m)]
        BY <1>5, <3>2 DEF EnqueueLocal
      <4>2. queue' \in [Servers -> Seq(Msgs)] /\ Len(Append(queue[s], m)) = Len(queue[s]) + 1
        BY <1>1, <1>3, <4>1, LineTypes
      <4>3. ASSUME NEW t \in Servers PROVE Len(queue'[t]) <= QueueCap
        <5>1. CASE t = s
          BY <1>1, <1>3, <3>2, <4>1, <4>2, <5>1
        <5>2. CASE t # s
          BY <4>1, <5>2, <1>3 DEF RouteInv, RoutingTypeOK
        <5> QED
          BY <5>1, <5>2
      <4> QED
        BY <4>2, <4>3
    <3> QED
      BY <3>1, <3>2
  <2> QED
    BY <1>2, <1>5, <2>1 DEF EnqueueLocal, Advance, End, dispatchVars, RouteInv, RoutingTypeOK, Fates
<1>6. CASE FindLocal(m)
  BY <1>1, <1>2, <1>6 DEF FindLocal, Advance, busVars, dispatchVars, RouteInv, RoutingTypeOK
<1>7. CASE FindRoute(m)
  <2>1. registry[MsgTo[m]] \in Servers \cup {NoServer}
    BY MsgAssumption, FlagAssumption DEF RouteInv, ManagerInv, TypeOK
  <2> QED
    BY <1>2, <1>7, <2>1 DEF FindRoute, Advance, End, busVars, dispatchVars, RouteInv, RoutingTypeOK, Fates
<1>8. CASE Publish(m)
  <2>1. channel' \in [Servers -> Seq(Msgs)]
    <3>1. target[m] \in Servers \cup {NoServer}
      BY DEF RouteInv, RoutingTypeOK
    <3>2. CASE channel' = [channel EXCEPT ![target[m]] = Append(@, m)] /\ target[m] \in Servers
      BY <1>3, <3>2, LineTypes
    <3>3. CASE channel' = [channel EXCEPT ![target[m]] = Append(@, m)] /\ target[m] \notin Servers
      BY <1>3, <3>3
    <3>4. CASE channel' = channel
      BY <1>3, <3>4
    <3> QED
      BY <1>8, <3>1, <3>2, <3>3, <3>4 DEF Publish
  <2>2. Advance(m, "sent") /\ (End(m, "unheard") \/ End(m, "stored") \/ UNCHANGED fate)
    BY <1>8 DEF Publish
  <2>3. /\ progress' \in [Msgs -> {"new", "enqueue", "find", "get", "publish", "sent"}]
        /\ fate' \in [Msgs -> Fates]
    BY <2>2 DEF Advance, End, RouteInv, RoutingTypeOK, Fates
  <2> QED
    BY <1>2, <1>8, <2>1, <2>3 DEF Publish, dispatchVars, RouteInv, RoutingTypeOK
<1> QED
  BY <1>4, <1>5, <1>6, <1>7, <1>8

\* The listener's and the goroutine of Run's steps, and the unregistration.
LEMMA ListenTypes ==
  ASSUME RouteInv, KeepReachable, NEW s \in Servers, Listen(s)
  PROVE  RoutingTypeOK'
<1>1. reachable' \in [Msgs -> SUBSET Conns]
  BY DEF KeepReachable, ReachableConns, RouteInv, RoutingTypeOK
<1>2. /\ queue \in [Servers -> Seq(Msgs)] /\ channel \in [Servers -> Seq(Msgs)]
      /\ Len(queue[s]) \in Nat /\ QueueCap \in Nat
  BY LineTypes, CapAssumption DEF RouteInv, RoutingTypeOK
<1>3. channel' \in [Servers -> Seq(Msgs)] /\ Head(channel[s]) \in Msgs
  BY <1>2, LineTypes DEF Listen
<1>4. queue' \in [Servers -> Seq(Msgs)] /\ \A t \in Servers : Len(queue'[t]) <= QueueCap
  <2>1. CASE ~(Len(queue[s]) < QueueCap)
    BY <2>1 DEF Listen, RouteInv, RoutingTypeOK
  <2>2. CASE Len(queue[s]) < QueueCap
    <3>1. queue' = [queue EXCEPT ![s] = Append(@, Head(channel[s]))]
      BY <2>2 DEF Listen
    <3>2. queue' \in [Servers -> Seq(Msgs)] /\ Len(Append(queue[s], Head(channel[s]))) = Len(queue[s]) + 1
      BY <1>2, <1>3, <3>1, LineTypes
    <3>3. ASSUME NEW t \in Servers PROVE Len(queue'[t]) <= QueueCap
      <4>1. CASE t = s
        BY <1>2, <2>2, <3>1, <3>2, <4>1
      <4>2. CASE t # s
        BY <3>1, <4>2, <1>2 DEF RouteInv, RoutingTypeOK
      <4> QED
        BY <4>1, <4>2
    <3> QED
      BY <3>2, <3>3
  <2> QED
    BY <2>1, <2>2
<1> QED
  BY <1>1, <1>3, <1>4 DEF Listen, End, sendVars, dispatchVars, RouteInv, RoutingTypeOK, Fates

\* so does Run when it takes a message and looks at the map,
LEMMA TakeTypes ==
  ASSUME RouteInv, KeepReachable, NEW s \in Servers, TakeMessage(s)
  PROVE  RoutingTypeOK'
<1>1. reachable' \in [Msgs -> SUBSET Conns]
  BY DEF KeepReachable, ReachableConns, RouteInv, RoutingTypeOK
<1>2. queue \in [Servers -> Seq(Msgs)] /\ queue[s] # << >> /\ queue' = [queue EXCEPT ![s] = Tail(@)]
  BY DEF TakeMessage, RouteInv, RoutingTypeOK
<1>3. /\ Head(queue[s]) \in Msgs /\ queue' \in [Servers -> Seq(Msgs)]
      /\ Len(Tail(queue[s])) = Len(queue[s]) - 1 /\ Len(queue[s]) \in Nat /\ QueueCap \in Nat
  BY <1>2, LineTypes, CapAssumption
<1>4. ASSUME NEW t \in Servers PROVE Len(queue'[t]) <= QueueCap
  <2>1. Len(queue[t]) <= QueueCap
    BY DEF RouteInv, RoutingTypeOK
  <2>2. CASE t = s
    BY <1>2, <1>3, <2>1, <2>2
  <2>3. CASE t # s
    BY <1>2, <2>1, <2>3
  <2> QED
    BY <2>2, <2>3
<1> DEFINE m == Head(queue[s])
<1>5. CASE HasOtherConns(s, MsgTo[m])
  <2>1. UserConns(s, MsgTo[m]) \subseteq Conns
    BY DEF UserConns, RouteInv, ManagerInv, TypeOK
  <2>2. /\ hand' = [hand EXCEPT ![s] = m]
        /\ phase' = [phase EXCEPT ![s] = "collect"] /\ stale' = [stale EXCEPT ![s] = FALSE]
        /\ tries' = [tries EXCEPT ![s] = UserConns(s, MsgTo[m])]
        /\ UNCHANGED <<fate, sendVars, channel, deliveries>>
    BY <1>5 DEF TakeMessage
  <2>3. \A t \in Servers : \A c \in tries'[t] :
          hand'[t] # NoMsg /\ ConnServer[c] = t /\ ConnUser[c] = MsgTo[hand'[t]]
    <3> SUFFICES ASSUME NEW t \in Servers, NEW c \in tries'[t]
                 PROVE  hand'[t] # NoMsg /\ ConnServer[c] = t /\ ConnUser[c] = MsgTo[hand'[t]]
      OBVIOUS
    <3>1. CASE t = s
      BY <2>2, <1>3, <3>1, MsgAssumption DEF UserConns, RouteInv, RoutingTypeOK
    <3>2. CASE t # s
      BY <2>2, <3>2 DEF RouteInv, RoutingTypeOK
    <3> QED
      BY <3>1, <3>2
  <2> HIDE DEF m
  <2>4. m \in Msgs
    BY <1>3 DEF m
  <2> QED
    BY <1>1, <1>3, <1>4, <2>1, <2>2, <2>3, <2>4 DEF sendVars, RouteInv, RoutingTypeOK
<1>6. CASE ~HasOtherConns(s, MsgTo[m])
  <2>1. End(m, "notHere") /\ UNCHANGED <<hand, phase, stale, tries, sendVars, channel, deliveries>>
    BY <1>6 DEF TakeMessage
  <2> HIDE DEF m
  <2> QED
    BY <1>1, <1>3, <1>4, <2>1 DEF End, sendVars, RouteInv, RoutingTypeOK, Fates
<1> QED
  BY <1>5, <1>6

\* and when it goes through the connections,
LEMMA TryTypes ==
  ASSUME RouteInv, KeepReachable, NEW s \in Servers,
         \/ CollectConns(s) \/ GiveUp(s)
         \/ \E c \in Conns : Deliver(s, c) \/ SkipFull(s, c) \/ UnregisterClosed(s, c)
  PROVE  RoutingTypeOK'
<1>1. reachable' \in [Msgs -> SUBSET Conns]
  BY DEF KeepReachable, ReachableConns, RouteInv, RoutingTypeOK
<1>2. CASE CollectConns(s)
  BY <1>1, <1>2 DEF CollectConns, sendVars, busVars, RouteInv, RoutingTypeOK
<1>3. CASE GiveUp(s)
  BY <1>1, <1>3 DEF GiveUp, End, sendVars, busVars, RouteInv, RoutingTypeOK, Fates
<1>4. ASSUME NEW c \in Conns, Deliver(s, c) PROVE RoutingTypeOK'
  <2>1. hand[s] \in Msgs
    BY <1>4, TryingIsUp DEF Deliver, RouteInv
  <2>2. deliveries' \in Seq([msg : Msgs, conn : Conns])
    <3>1. [msg |-> hand[s], conn |-> c] \in [msg : Msgs, conn : Conns]
      BY <2>1
    <3>2. deliveries \in Seq([msg : Msgs, conn : Conns])
      BY DEF RouteInv, RoutingTypeOK
    <3> QED
      BY <1>4, <3>1, <3>2, AppendProperties DEF Deliver
  <2> QED
    BY <1>1, <1>4, <2>2 DEF Deliver, sendVars, busVars, RouteInv, RoutingTypeOK
<1>5. ASSUME NEW c \in Conns, SkipFull(s, c) PROVE RoutingTypeOK'
  BY <1>1, <1>5 DEF SkipFull, sendVars, busVars, RouteInv, RoutingTypeOK
<1>6. ASSUME NEW c \in Conns, UnregisterClosed(s, c) PROVE RoutingTypeOK'
  BY <1>1, <1>6 DEF UnregisterClosed, sendVars, busVars, RouteInv, RoutingTypeOK
<1> QED
  BY <1>2, <1>3, <1>4, <1>5, <1>6

\* and so does every step.
LEMMA RoutingTypesStep ==
  ASSUME RouteInv, [RoutingNext]_allVars
  PROVE  RoutingTypeOK'
<1>1. ManagerInv'
  BY ManagerInvStep
<1>2. CASE UNCHANGED allVars
  BY <1>2 DEF allVars, routingVars, RouteInv, RoutingTypeOK
<1> QED
  BY <1>1, <1>2, RoutingSteps, ManagerStepTypes, SendTypes, ListenTypes, TakeTypes, TryTypes

\* A server hands itself over to the next step of processMessage, and one that is
\* down gets no message: those who send to it look at its stage.
LEMMA HandStep ==
  ASSUME RouteInv, [RoutingNext]_allVars
  PROVE  HandOK'
<1>1. CASE ManagerStep
  <2>1. Carried
    BY <1>1 DEF ManagerStep
  <2> QED
    BY <2>1, CarriedServer DEF HandOK, RouteInv
<1>2. ASSUME NEW s \in Servers, TakeMessage(s) PROVE HandOK'
  <2>1. Head(queue[s]) \in Msgs
    BY <1>2, LineTypes DEF TakeMessage, RouteInv, RoutingTypeOK
  <2>2. CASE UNCHANGED <<hand, phase>>
    BY <2>2 DEF HandOK, RouteInv
  <2>3. CASE /\ hand' = [hand EXCEPT ![s] = Head(queue[s])]
             /\ phase' = [phase EXCEPT ![s] = "collect"]
    BY <2>1, <2>3, MsgAssumption DEF HandOK, RouteInv, RoutingTypeOK
  <2> QED
    BY <1>2, <2>2, <2>3 DEF TakeMessage
<1>3. ASSUME NEW s \in Servers, NEW c \in Conns, Deliver(s, c) PROVE HandOK'
  BY <1>3 DEF Deliver, HandOK, RouteInv, RoutingTypeOK
<1>4. ASSUME NEW s \in Servers, GiveUp(s) PROVE HandOK'
  BY <1>4 DEF GiveUp, HandOK, RouteInv, RoutingTypeOK
<1>5. ASSUME NEW s \in Servers, CollectConns(s) PROVE HandOK'
  BY <1>5 DEF CollectConns, HandOK, RouteInv, RoutingTypeOK
<1>6. CASE UNCHANGED <<hand, phase>>
  BY <1>6 DEF HandOK, RouteInv
<1> QED
  BY <1>1, <1>2, <1>3, <1>4, <1>5, <1>6, RoutingSteps
  DEF allVars, routingVars, dispatchVars, ChooseWay, EnqueueLocal, FindLocal, FindRoute, Publish,
      Listen, SkipFull, UnregisterClosed

\* A server that is down holds no message.
LEMMA DownStep ==
  ASSUME RouteInv, [RoutingNext]_allVars
  PROVE  DownQuiet'
<1> SUFFICES ASSUME NEW s \in Servers, stage'[s] = "down"
             PROVE  queue'[s] = << >> /\ channel'[s] = << >> /\ phase'[s] = "take"
  BY DEF DownQuiet
<1>1. CASE ManagerStep
  <2>1. Carried
    BY <1>1 DEF ManagerStep
  <2> QED
    BY <2>1, CarriedServer DEF Dies, DownQuiet, RouteInv
<1>2. CASE UNCHANGED stage /\ ~ManagerStep
  <2>0. /\ queue[s] = << >> /\ channel[s] = << >> /\ phase[s] = "take" /\ stage[s] = "down"
        /\ queue \in [Servers -> Seq(Msgs)] /\ channel \in [Servers -> Seq(Msgs)]
        /\ phase \in [Servers -> {"take", "collect", "try"}]
    BY <1>2 DEF DownQuiet, RouteInv, RoutingTypeOK
  <2>1. ASSUME NEW m \in Msgs,
               ChooseWay(m) \/ EnqueueLocal(m) \/ FindLocal(m) \/ FindRoute(m) \/ Publish(m)
        PROVE  queue'[s] = << >> /\ channel'[s] = << >> /\ phase'[s] = "take"
    <3>1. EnqueueLocal(m) => MsgFrom[m] # s
      BY <2>0 DEF EnqueueLocal, Sending
    <3>2. Publish(m) => channel' = channel \/ target[m] # s
      BY <2>0 DEF Publish
    <3> QED
      BY <2>0, <2>1, <3>1, <3>2
      DEF ChooseWay, EnqueueLocal, FindLocal, FindRoute, Publish, busVars, dispatchVars
  <2>2. ASSUME NEW t \in Servers,
               \/ Listen(t) \/ TakeMessage(t) \/ CollectConns(t) \/ GiveUp(t)
               \/ \E c \in Conns : Deliver(t, c) \/ SkipFull(t, c) \/ UnregisterClosed(t, c)
        PROVE  queue'[s] = << >> /\ channel'[s] = << >> /\ phase'[s] = "take"
    <3>1. t # s
      BY <2>0, <2>2 DEF Listen, TakeMessage, CollectConns, GiveUp, Deliver, SkipFull, UnregisterClosed
    <3> QED
      BY <2>0, <2>2, <3>1 DEF Listen, TakeMessage, CollectConns, GiveUp, Deliver, SkipFull,
                              UnregisterClosed, busVars, dispatchVars
  <2>3. CASE UNCHANGED allVars
    BY <2>0, <2>3 DEF allVars, routingVars
  <2> QED
    BY <1>2, <2>1, <2>2, <2>3, RoutingSteps
<1> QED
  BY <1>1, <1>2, RoutingSteps DEF vars, allVars, UnregisterClosed, serverVars

\* Connections come to be tried from the map, where all are registered.
LEMMA TriesStep ==
  ASSUME RouteInv, [RoutingNext]_allVars
  PROVE  TriesRegistered'
<1> SUFFICES ASSUME NEW s \in Servers, NEW c \in tries'[s]
             PROVE  HasRegistered(c)'
  BY DEF TriesRegistered
<1>1. [Next]_vars /\ ManagerInv' /\ RoutingTypeOK'
  BY StepIsNext, ManagerInvStep, RoutingTypesStep
<1>2. c \in Conns /\ ConnServer[c] = s
  BY <1>1 DEF RoutingTypeOK
<1>3. ASSUME c \in tries[s], ProcessGone(s) PROVE tries'[s] = {}
  <2>1. stage[s] # "down" /\ stage'[s] = "down"
    BY <1>3, TryingIsUp DEF RouteInv, ManagerInv, TypeOK, ProcessGone
  <2>2. ManagerStep
    BY <2>1, RoutingSteps DEF vars, allVars, UnregisterClosed, serverVars
  <2> QED
    BY <2>1, <2>2, CarriedServer DEF ManagerStep, Dies
<1>4. CASE c \in tries[s]
  BY <1>1, <1>2, <1>3, <1>4, StaysRegistered DEF RouteInv, ManagerInv, TriesRegistered
<1>5. CASE c \notin tries[s]
  <2>1. CASE ManagerStep
    <3>1. c \in connections'
      BY <1>5, <2>1, CarriedServer DEF ManagerStep, After
    <3> QED
      BY <1>1, <3>1 DEF ManagerInv, NoLeakedEntry, Engaged, Leaving, HasRegistered, UnregisterSteps
  <2>2. CASE ~ManagerStep
    <3>1. \E t \in Servers : TakeMessage(t) /\ UNCHANGED vars
      <4>1. UNCHANGED tries => FALSE
        BY <1>5
      <4>2. ASSUME NEW t \in Servers, \/ GiveUp(t) \/ CollectConns(t)
                                      \/ \E d \in Conns : Deliver(t, d) \/ SkipFull(t, d) \/ UnregisterClosed(t, d)
            PROVE  FALSE
        <5>1. tries \in [Servers -> SUBSET Conns]
          BY DEF RouteInv, RoutingTypeOK
        <5>2. ASSUME NEW d \in Conns, Deliver(t, d) \/ SkipFull(t, d) \/ UnregisterClosed(t, d)
              PROVE  tries' = [tries EXCEPT ![t] = @ \ {d}] \/ tries' = [tries EXCEPT ![t] = {}]
          BY <5>2 DEF Deliver, SkipFull, UnregisterClosed
        <5> QED
          BY <1>5, <4>1, <4>2, <5>1, <5>2 DEF GiveUp, CollectConns
      <4> QED
        BY <2>2, <4>1, <4>2, RoutingSteps
        DEF allVars, routingVars, dispatchVars, ChooseWay, EnqueueLocal, FindLocal, FindRoute, Publish, Listen
    <3>2. PICK t \in Servers : TakeMessage(t) /\ UNCHANGED vars
      BY <3>1
    <3>3. c \in connections
      <4>1. tries \in [Servers -> SUBSET Conns]
        BY DEF RouteInv, RoutingTypeOK
      <4>2. tries' = tries \/ tries' = [tries EXCEPT ![t] = UserConns(t, MsgTo[Head(queue[t])])]
        BY <3>2 DEF TakeMessage
      <4> QED
        BY <1>5, <4>1, <4>2 DEF UserConns
    <3>4. HasRegistered(c)
      BY <3>3, EntryRegistered DEF RouteInv, ManagerInv
    <3> QED
      BY <3>2, <3>4 DEF HasRegistered, vars
  <2> QED
    BY <2>1, <2>2
<1> QED
  BY <1>4, <1>5

\* A message has a target only from the look at Redis on.
LEMMA TargetStep ==
  ASSUME RouteInv, [RoutingNext]_allVars
  PROVE  TargetOK'
<1>0. /\ progress \in [Msgs -> {"new", "enqueue", "find", "get", "publish", "sent"}]
      /\ target \in [Msgs -> Servers \cup {NoServer}] /\ TargetOK
  BY DEF RouteInv, RoutingTypeOK
<1>1. CASE ManagerStep
  BY <1>0, <1>1, CarriedMessage DEF ManagerStep, TargetOK
<1>2. ASSUME NEW m \in Msgs, ChooseWay(m) PROVE TargetOK'
  <2>1. progress[m] = "new" /\ target' = target
    BY <1>2 DEF ChooseWay, Sending
  <2>2. Advance(m, "enqueue") \/ Advance(m, "find") \/ Advance(m, "sent")
    BY <1>2 DEF ChooseWay
  <2> QED
    BY <1>0, <2>1, <2>2 DEF Advance, TargetOK
<1>3. ASSUME NEW m \in Msgs, EnqueueLocal(m) PROVE TargetOK'
  BY <1>0, <1>3 DEF EnqueueLocal, Advance, TargetOK
<1>4. ASSUME NEW m \in Msgs, FindLocal(m) PROVE TargetOK'
  <2>1. CASE target' = [target EXCEPT ![m] = MsgFrom[m]] /\ Advance(m, "publish")
    BY <1>0, <2>1, MsgAssumption DEF Advance, TargetOK
  <2>2. CASE target' = target /\ Advance(m, "get")
    BY <1>0, <1>4, <2>2 DEF FindLocal, Sending, Advance, TargetOK
  <2> QED
    BY <1>4, <2>1, <2>2 DEF FindLocal
<1>5. ASSUME NEW m \in Msgs, FindRoute(m) PROVE TargetOK'
  <2>1. CASE registry[MsgTo[m]] # NoServer /\ target' = [target EXCEPT ![m] = registry[MsgTo[m]]] /\ Advance(m, "publish")
    <3>1. registry[MsgTo[m]] \in Servers
      BY <2>1, MsgAssumption, FlagAssumption DEF RouteInv, ManagerInv, TypeOK
    <3> QED
      BY <1>0, <2>1, <3>1 DEF Advance, TargetOK
  <2>2. CASE target' = target /\ Advance(m, "sent")
    BY <1>0, <2>2 DEF Advance, TargetOK
  <2> QED
    BY <1>5, <2>1, <2>2 DEF FindRoute
<1>6. ASSUME NEW m \in Msgs, Publish(m) PROVE TargetOK'
  BY <1>0, <1>6 DEF Publish, Advance, TargetOK
<1>7. CASE UNCHANGED <<progress, target>>
  BY <1>0, <1>7 DEF TargetOK
<1> QED
  BY <1>1, <1>2, <1>3, <1>4, <1>5, <1>6, <1>7, RoutingSteps
  DEF allVars, routingVars, sendVars, Listen, TakeMessage, CollectConns, Deliver, SkipFull, GiveUp, UnregisterClosed

\* Every step keeps the types and what goes with them,
LEMMA RouteInvStep ==
  ASSUME RouteInv, [RoutingNext]_allVars
  PROVE  RouteInv'
BY ManagerInvStep, RoutingTypesStep, HandStep, DownStep, TriesStep, TargetStep DEF RouteInv

\* which hold in the beginning.
LEMMA RouteInvInit ==
  ASSUME RoutingInit
  PROVE  RouteInv
<1>1. Init
  BY DEF RoutingInit
<1>2. ManagerInv
  BY <1>1, InitTypeOK, InitSupportInv, InitNoLeakedEntry DEF ManagerInv
<1>3. RoutingTypeOK
  <2>1. << >> \in Seq(Msgs) /\ << >> \in Seq([msg : Msgs, conn : Conns]) /\ Len(<< >>) = 0
    BY EmptySeq
  <2>2. 0 <= QueueCap
    BY CapAssumption
  <2> QED
    BY <2>1, <2>2 DEF RoutingInit, RoutingTypeOK, Fates
<1>4. HandOK /\ DownQuiet /\ TriesRegistered /\ TargetOK
  BY DEF RoutingInit, Init, HandOK, DownQuiet, TriesRegistered, TargetOK
<1> QED
  BY <1>2, <1>3, <1>4 DEF RouteInv

\* The types of everything on the way of a message, and what goes with them.
THEOREM RouteInvariant == RoutingSpec => []RouteInv
<1>1. RouteInv /\ [RoutingNext]_allVars => RouteInv'
  BY RouteInvStep
<1> QED
  BY <1>1, RouteInvInit, PTL DEF RoutingSpec

\* Every queue, channel and hand holds messages, no queue more than it has room
\* for, and what is still to be tried belongs to the recipient and the server.
THEOREM RoutingTyped == RoutingSpec => []RoutingTypeOK
<1>1. RouteInv => RoutingTypeOK
  BY DEF RouteInv
<1> QED
  BY <1>1, RouteInvariant, PTL

\* ImplementsManager: with its messages the manager does nothing to connections,
\* registry and status that ConnectionManager does not allow; the unregistration
\* that processMessage makes is its DropClosed, because the connection it found
\* closed had been registered and its server is not down.
THEOREM IsManager == RoutingSpec => ImplementsManager
<1>1. RoutingInit => Init
  BY DEF RoutingInit
<1>2. RouteInv /\ [RoutingNext]_allVars => [Next]_vars
  BY StepIsNext
<1> QED
  BY <1>1, <1>2, RouteInvariant, PTL DEF RoutingSpec, ImplementsManager, Spec

-----------------------------------------------------------------------------
(* Lines of messages.                                                      *)

\* m never stands behind n in the line.
Before(line, m, n) == \A i, j \in DOMAIN line : line[i] = m /\ line[j] = n => i < j

\* A message that enters a line it is not in stands last.
LEMMA AppendLine ==
  ASSUME NEW line \in Seq(Msgs), NEW m \in Msgs
  PROVE  /\ Range(Append(line, m)) = Range(line) \cup {m}
         /\ m \notin Range(line) /\ IsInjective(line) => IsInjective(Append(line, m))
         /\ \A a, b : Before(line, a, b) /\ a # b /\ (m = a => b \notin Range(line))
                        => Before(Append(line, m), a, b)
<1>1. /\ Len(line) \in Nat /\ DOMAIN line = 1 .. Len(line)
      /\ DOMAIN Append(line, m) = 1 .. Len(line) + 1
      /\ \A i \in 1 .. Len(line) : Append(line, m)[i] = line[i]
      /\ Append(line, m)[Len(line) + 1] = m
  BY AppendProperties, LenProperties
<1> DEFINE long == Append(line, m)
           n == Len(line)
<1> HIDE DEF long, n
<1>2. /\ n \in Nat /\ DOMAIN line = 1 .. n /\ DOMAIN long = 1 .. n + 1
      /\ \A i \in 1 .. n : long[i] = line[i]
      /\ long[n + 1] = m
  BY <1>1 DEF long, n
<1>3. Range(long) = Range(line) \cup {m}
  <2>1. \A i \in 1 .. n + 1 : i \in 1 .. n \/ i = n + 1
    BY <1>2
  <2>2. 1 .. n \subseteq 1 .. n + 1 /\ n + 1 \in 1 .. n + 1
    BY <1>2
  <2> QED
    BY <1>2, <2>1, <2>2 DEF Range
<1>4. ASSUME m \notin Range(line), IsInjective(line) PROVE IsInjective(long)
  <2> SUFFICES ASSUME NEW i \in 1 .. n + 1, NEW j \in 1 .. n + 1, long[i] = long[j] PROVE i = j
    BY <1>2 DEF IsInjective
  <2>1. \A k \in 1 .. n : long[k] # m
    BY <1>2, <1>4 DEF Range
  <2>2. CASE i \in 1 .. n /\ j \in 1 .. n
    BY <1>2, <1>4, <2>2 DEF IsInjective
  <2> QED
    BY <1>2, <2>1, <2>2
<1>5. ASSUME NEW a, NEW b, Before(line, a, b), a # b, m = a => b \notin Range(line)
      PROVE  Before(long, a, b)
  <2> SUFFICES ASSUME NEW i \in 1 .. n + 1, NEW j \in 1 .. n + 1, long[i] = a, long[j] = b PROVE i < j
    BY <1>2 DEF Before
  <2>1. CASE i \in 1 .. n /\ j \in 1 .. n
    BY <1>2, <1>5, <2>1 DEF Before
  <2>2. CASE i = n + 1 /\ j \in 1 .. n
    BY <1>2, <1>5, <2>2 DEF Range
  <2>3. CASE i \in 1 .. n /\ j = n + 1
    BY <1>2, <2>3
  <2>4. CASE i = n + 1 /\ j = n + 1
    BY <1>2, <1>5, <2>4
  <2> QED
    BY <1>2, <2>1, <2>2, <2>3, <2>4
<1> QED
  BY <1>3, <1>4, <1>5 DEF long

\* The head leaves the line, and nobody is before it.
LEMMA TailLine ==
  ASSUME NEW line \in Seq(Msgs), line # << >>
  PROVE  /\ Head(line) \in Range(line)
         /\ IsInjective(line) => /\ Range(Tail(line)) = Range(line) \ {Head(line)}
                                 /\ IsInjective(Tail(line))
         /\ \A a, b : Before(line, a, b) => /\ Before(Tail(line), a, b)
                                            /\ a \in Range(line) /\ a # b => Head(line) # b
<1> DEFINE short == Tail(line)
           n == Len(line)
<1>1. /\ n \in Nat \ {0} /\ DOMAIN line = 1 .. n /\ DOMAIN short = 1 .. n - 1
      /\ \A i \in 1 .. n - 1 : short[i] = line[i + 1]
      /\ line[1] = Head(line)
  <2>1. n \in Nat \ {0} /\ DOMAIN line = 1 .. n
    BY EmptySeq, LenProperties
  <2>2. Tail(line) \in Seq(Msgs) /\ Len(Tail(line)) = Len(line) - 1
        /\ \A i \in 1 .. Len(Tail(line)) : Tail(line)[i] = line[i + 1]
    BY HeadTailProperties
  <2>3. DOMAIN short = 1 .. n - 1
    BY <2>2, LenProperties
  <2>4. line[1] = Head(line)
    BY <2>1
  <2> QED
    BY <2>1, <2>2, <2>3, <2>4
<1> DEFINE first == Head(line)
<1>2. first = line[1]
  BY <1>1
<1> HIDE DEF short, n, first
<1>3. 1 \in 1 .. n /\ \A i \in 1 .. n - 1 : i + 1 \in 1 .. n
  BY <1>1
<1>4. \A i \in 1 .. n : i = 1 \/ \E j \in 1 .. n - 1 : i = j + 1
  <2> SUFFICES ASSUME NEW i \in 1 .. n, i # 1 PROVE i - 1 \in 1 .. n - 1 /\ i = (i - 1) + 1
    OBVIOUS
  <2> QED
    BY <1>1
<1>5. first \in Range(line)
  BY <1>1, <1>2, <1>3 DEF Range
<1>6. ASSUME IsInjective(line) PROVE Range(short) = Range(line) \ {first} /\ IsInjective(short)
  <2>1. \A i \in 1 .. n - 1 : line[i + 1] # first
    <3> SUFFICES ASSUME NEW i \in 1 .. n - 1, line[i + 1] = line[1] PROVE FALSE
      BY <1>2
    <3>1. i + 1 = 1
      BY <1>1, <1>3, <1>6 DEF IsInjective
    <3> QED
      BY <1>1, <3>1
  <2>2. Range(short) = {line[i + 1] : i \in 1 .. n - 1}
    BY <1>1 DEF Range
  <2>3. Range(line) = {first} \cup {line[i + 1] : i \in 1 .. n - 1}
    <3>1. ASSUME NEW i \in 1 .. n PROVE line[i] \in {first} \cup {line[j + 1] : j \in 1 .. n - 1}
      BY <1>2, <1>4, <3>1
    <3>2. ASSUME NEW j \in 1 .. n - 1 PROVE line[j + 1] \in Range(line)
      BY <1>1, <1>3, <3>2 DEF Range
    <3> QED
      BY <1>1, <1>5, <3>1, <3>2 DEF Range
  <2>4. ASSUME NEW i \in 1 .. n - 1, NEW j \in 1 .. n - 1, short[i] = short[j] PROVE i = j
    <3>0. line[i + 1] = line[j + 1] /\ i + 1 \in DOMAIN line /\ j + 1 \in DOMAIN line
      BY <1>1, <1>3, <2>4
    <3>1. i + 1 = j + 1
      BY <1>6, <3>0 DEF IsInjective
    <3> QED
      BY <1>1, <3>1
  <2>5. IsInjective(short)
    BY <1>1, <2>4 DEF IsInjective
  <2> QED
    BY <2>1, <2>2, <2>3, <2>5
<1>7. ASSUME NEW a, NEW b, Before(line, a, b)
      PROVE  Before(short, a, b) /\ (a \in Range(line) /\ a # b => first # b)
  <2>1. ASSUME NEW i \in 1 .. n - 1, NEW j \in 1 .. n - 1, short[i] = a, short[j] = b PROVE i < j
    <3>1. i + 1 < j + 1
      BY <1>1, <1>3, <1>7, <2>1 DEF Before
    <3> QED
      BY <1>1, <3>1
  <2>2. ASSUME a \in Range(line), first = b PROVE a = b
    <3>1. PICK i \in 1 .. n : line[i] = a
      BY <1>1, <2>2 DEF Range
    <3>2. i < 1
      BY <1>1, <1>2, <1>3, <1>7, <2>2, <3>1 DEF Before
    <3> QED
      BY <1>1, <3>2
  <2> QED
    BY <1>1, <2>1, <2>2 DEF Before
<1> QED
  BY <1>5, <1>6, <1>7 DEF short, first

\* The line of server t, when a message enters that of s ...
Longer(line, s, m) == [line EXCEPT ![s] = Append(@, m)]

\* A line that gets a message has it besides the others, once.
LEMMA EnterLine ==
  ASSUME NEW line \in [Servers -> Seq(Msgs)], NEW s \in Servers, NEW m \in Msgs, NEW t \in Servers, NEW x
  PROVE  /\ x \in Range(Longer(line, s, m)[t]) <=> x \in Range(line[t]) \/ (t = s /\ x = m)
         /\ IsInjective(line[t]) /\ m \notin Range(line[s]) => IsInjective(Longer(line, s, m)[t])
<1>1. CASE t = s
  <2>1. Longer(line, s, m)[t] = Append(line[s], m) /\ line[s] \in Seq(Msgs)
    BY <1>1 DEF Longer
  <2> QED
    BY <1>1, <2>1, AppendLine
<1>2. CASE t # s
  BY <1>2 DEF Longer
<1> QED
  BY <1>1, <1>2

\* A message that enters a line is behind those that are in it.
LEMMA EnterBehind ==
  ASSUME NEW line \in [Servers -> Seq(Msgs)], NEW s \in Servers, NEW m \in Msgs, NEW t \in Servers,
         NEW a, NEW b, Before(line[t], a, b), a # b, t = s /\ m = a => b \notin Range(line[s])
  PROVE  Before(Longer(line, s, m)[t], a, b)
<1>1. CASE t = s
  <2>1. Longer(line, s, m)[t] = Append(line[s], m) /\ line[s] \in Seq(Msgs)
    BY <1>1 DEF Longer
  <2> QED
    BY <1>1, <2>1, AppendLine
<1>2. CASE t # s
  BY <1>2 DEF Longer
<1> QED
  BY <1>1, <1>2

\* ... or leaves it.
Shorter(line, s) == [line EXCEPT ![s] = Tail(@)]

\* A line that loses its head has the others, as often as before,
LEMMA LeaveLine ==
  ASSUME NEW line \in [Servers -> Seq(Msgs)], NEW s \in Servers, line[s] # << >>, NEW t \in Servers,
         IsInjective(line[s]), IsInjective(line[t]), NEW x
  PROVE  /\ x \in Range(Shorter(line, s)[t]) <=> x \in Range(line[t]) /\ ~(t = s /\ x = Head(line[s]))
         /\ IsInjective(Shorter(line, s)[t])
<1>1. CASE t = s
  <2>1. Shorter(line, s)[t] = Tail(line[s]) /\ line[s] \in Seq(Msgs)
    BY <1>1 DEF Shorter
  <2> QED
    BY <1>1, <2>1, TailLine
<1>2. CASE t # s
  BY <1>2 DEF Shorter
<1> QED
  BY <1>1, <1>2

\* and in the same order.
LEMMA LeaveBefore ==
  ASSUME NEW line \in [Servers -> Seq(Msgs)], NEW s \in Servers, line[s] # << >>, NEW t \in Servers,
         NEW a, NEW b, Before(line[t], a, b)
  PROVE  Before(Shorter(line, s)[t], a, b)
<1>1. CASE t = s
  <2>1. Shorter(line, s)[t] = Tail(line[s]) /\ line[s] \in Seq(Msgs)
    BY <1>1 DEF Shorter
  <2> QED
    BY <1>1, <2>1, TailLine
<1>2. CASE t # s
  BY <1>2 DEF Shorter
<1> QED
  BY <1>1, <1>2

-----------------------------------------------------------------------------
(* A message is in one place.                                              *)

\* The messages that were taken, in order.
taken == [i \in DOMAIN deliveries |-> deliveries[i].msg]

\* The message is in the channel to s, in the queue of s, in the hand of its
\* goroutine, or taken (by whichever connection).
Kinds == {"channel", "queue", "hand", "taken"}
Spots == Servers \cup {NoServer}
At(m, kind, s) ==
  \/ kind = "channel" /\ s \in Servers /\ m \in Range(channel[s])
  \/ kind = "queue" /\ s \in Servers /\ m \in Range(queue[s])
  \/ kind = "hand" /\ s \in Servers /\ hand[s] = m
  \/ kind = "taken" /\ s = NoServer /\ m \in Range(taken)

\* A message that was passed on and has not come to an end.
Live(m) == progress[m] = "sent" /\ fate[m] = "none"

\* It is in one place, and any other message is in none.
SpotOK(m) ==
  IF Live(m)
    THEN \E k \in Kinds, s \in Spots : \A l \in Kinds, t \in Spots : At(m, l, t) <=> l = k /\ t = s
    ELSE \A l \in Kinds, t \in Spots : ~At(m, l, t)

\* No line holds a message twice.
LinesOK ==
  /\ \A s \in Servers : IsInjective(channel[s]) /\ IsInjective(queue[s])
  /\ IsInjective(taken)

\* A message that was not passed on has not come to an end.
FateOK == \A m \in Msgs : progress[m] # "sent" => fate[m] = "none"

PlaceInv == LinesOK /\ FateOK /\ \A m \in Msgs : SpotOK(m)

\* The messages taken are those of the deliveries, in their order.
LEMMA TakenLine ==
  ASSUME RoutingTypeOK
  PROVE  /\ taken \in Seq(Msgs) /\ DOMAIN taken = DOMAIN deliveries
         /\ \A i \in DOMAIN deliveries : taken[i] = deliveries[i].msg
<1>1. deliveries \in Seq([msg : Msgs, conn : Conns])
  BY DEF RoutingTypeOK
<1>2. DOMAIN deliveries = 1 .. Len(deliveries) /\ Len(deliveries) \in Nat
      /\ \A i \in 1 .. Len(deliveries) : deliveries[i] \in [msg : Msgs, conn : Conns]
  BY <1>1, LenProperties, ElementOfSeq
<1>3. taken \in [1 .. Len(deliveries) -> Msgs]
  BY <1>2 DEF taken
<1>4. taken \in Seq(Msgs)
  BY <1>2, <1>3, SeqDef
<1> QED
  BY <1>4 DEF taken

\* A delivery adds its message at the end.
LEMMA TakenMore ==
  ASSUME RoutingTypeOK, NEW m \in Msgs, NEW c \in Conns,
         deliveries' = Append(deliveries, [msg |-> m, conn |-> c])
  PROVE  taken' = Append(taken, m)
<1>0. deliveries \in Seq([msg : Msgs, conn : Conns])
  BY DEF RoutingTypeOK
<1>1. [msg |-> m, conn |-> c] \in [msg : Msgs, conn : Conns]
  OBVIOUS
<1> DEFINE n == Len(deliveries)
           d == [msg |-> m, conn |-> c]
<1>2. /\ Len(deliveries) \in Nat /\ DOMAIN deliveries = 1 .. Len(deliveries)
      /\ DOMAIN deliveries' = 1 .. Len(deliveries) + 1
      /\ \A i \in 1 .. Len(deliveries) : deliveries'[i] = deliveries[i]
      /\ deliveries'[Len(deliveries) + 1] = d
  BY <1>0, <1>1, AppendProperties, LenProperties
<1>3. /\ taken \in Seq(Msgs) /\ DOMAIN taken = DOMAIN deliveries
      /\ \A i \in DOMAIN deliveries : taken[i] = deliveries[i].msg
  BY TakenLine
<1>4. Len(taken) = Len(deliveries)
  BY <1>2, <1>3, LenProperties
<1>5. /\ DOMAIN Append(taken, m) = 1 .. Len(taken) + 1
      /\ Append(taken, m) \in Seq(Msgs)
      /\ \A i \in 1 .. Len(taken) : Append(taken, m)[i] = taken[i]
      /\ Append(taken, m)[Len(taken) + 1] = m
  BY <1>3, AppendProperties, LenProperties
<1> DEFINE long == Append(taken, m)
<1>6. /\ n \in Nat /\ DOMAIN deliveries = 1 .. n /\ DOMAIN deliveries' = 1 .. n + 1
      /\ DOMAIN long = 1 .. n + 1
      /\ \A i \in 1 .. n : deliveries'[i] = deliveries[i] /\ long[i] = deliveries[i].msg
      /\ deliveries'[n + 1].msg = m /\ long[n + 1] = m
  BY <1>2, <1>3, <1>4, <1>5
<1>7. long = [i \in DOMAIN long |-> long[i]]
  BY <1>5, LenProperties
<1>8. taken' = [i \in DOMAIN deliveries' |-> deliveries'[i].msg]
  BY DEF taken
<1> HIDE DEF n, long, d
<1>9. \A i \in 1 .. n + 1 : i \in 1 .. n \/ i = n + 1
  BY <1>6
<1>10. \A i \in 1 .. n + 1 : deliveries'[i].msg = long[i]
  BY <1>6, <1>9
<1>11. taken' = long
  BY <1>6, <1>7, <1>8, <1>10
<1> QED
  BY <1>11 DEF long

\* How a message fares in a step: it stays where it is, is in a place from now on,
\* or is in none.
LEMMA SpotKept ==
  ASSUME NEW m, SpotOK(m), Live(m)' <=> Live(m),
         \A l \in Kinds, t \in Spots : At(m, l, t)' <=> At(m, l, t)
  PROVE  SpotOK(m)'
BY DEF SpotOK

\* A live message at one spot only is in order,
LEMMA SpotTaken ==
  ASSUME NEW m, NEW k \in Kinds, NEW s \in Spots, Live(m)',
         \A l \in Kinds, t \in Spots : At(m, l, t)' <=> l = k /\ t = s
  PROVE  SpotOK(m)'
BY DEF SpotOK

\* and so is one that is not live, at none.
LEMMA SpotLeft ==
  ASSUME NEW m, ~Live(m)', \A l \in Kinds, t \in Spots : ~At(m, l, t)'
  PROVE  SpotOK(m)'
BY DEF SpotOK

\* A message in a place is live and in no other.
LEMMA OnlySpot ==
  ASSUME NEW m, SpotOK(m), NEW k \in Kinds, NEW s \in Spots, At(m, k, s)
  PROVE  Live(m) /\ \A l \in Kinds, t \in Spots : At(m, l, t) <=> l = k /\ t = s
BY DEF SpotOK

\* The steps, one after the other.  A server that goes down takes its messages along.
LEMMA PlaceManager ==
  ASSUME RouteInv, PlaceInv, ManagerStep
  PROVE  PlaceInv'
<1>1. Carried
  BY DEF ManagerStep
<1>2. taken' = taken
  BY <1>1, CarriedMessage DEF taken
<1>3. LinesOK'
  <2>1. IsInjective(<< >>)
    BY DEF IsInjective
  <2>2. ASSUME NEW s \in Servers PROVE IsInjective(channel'[s]) /\ IsInjective(queue'[s])
    <3>1. \/ channel'[s] = << >> /\ queue'[s] = << >>
          \/ channel'[s] = channel[s] /\ queue'[s] = queue[s]
      BY <1>1, CarriedServer
    <3> QED
      BY <2>1, <3>1 DEF PlaceInv, LinesOK
  <2> QED
    BY <1>2, <2>2 DEF PlaceInv, LinesOK
<1>4. FateOK'
  BY <1>1, CarriedMessage DEF PlaceInv, FateOK
<1>5. ASSUME NEW m \in Msgs PROVE SpotOK(m)'
  <2>0. SpotOK(m) /\ m # NoMsg
    BY MsgAssumption DEF PlaceInv
  <2>1. ASSUME NEW s \in Servers
        PROVE  /\ Dies(s) => /\ m \notin Range(channel'[s]) /\ m \notin Range(queue'[s])
                             /\ hand'[s] # m
               /\ ~Dies(s) => /\ channel'[s] = channel[s] /\ queue'[s] = queue[s]
                              /\ hand'[s] = hand[s]
    <3>1. m \notin Range(<< >>)
      BY DEF Range
    <3> QED
      BY <1>1, <2>0, <3>1, CarriedServer
  <2>2. ASSUME NEW s \in Servers
        PROVE  /\ At(m, "channel", s) \/ At(m, "queue", s) \/ At(m, "hand", s) => m \in Held(s)
               /\ m \in Held(s) => \/ At(m, "channel", s) \/ At(m, "queue", s) \/ At(m, "hand", s)
                                   \/ MsgFrom[m] = s /\ progress[m] \notin {"new", "sent"}
    BY DEF At, Held, Range
  <2>3. CASE GoesDown(m)
    <3>1. PICK s \in Servers : Dies(s) /\ m \in Held(s)
      BY <2>3 DEF GoesDown
    <3>2. ~Live(m)'
      BY <1>1, <2>3, CarriedMessage DEF Live
    <3>3. CASE progress[m] \notin {"new", "sent"}
      <4>1. \A l \in Kinds, t \in Spots : ~At(m, l, t)
        BY <2>0, <3>3 DEF SpotOK, Live
      <4>2. \A l \in Kinds, t \in Spots : ~At(m, l, t)'
        BY <1>2, <2>1, <4>1 DEF At, Kinds, Spots
      <4> QED
        BY <3>2, <4>2, SpotLeft
    <3>4. CASE At(m, "channel", s) \/ At(m, "queue", s) \/ At(m, "hand", s)
      <4>1. PICK k \in {"channel", "queue", "hand"} : At(m, k, s)
        BY <3>4
      <4>2. \A l \in Kinds, t \in Spots : At(m, l, t) <=> l = k /\ t = s
        BY <2>0, <4>1, OnlySpot DEF Kinds, Spots
      <4>3. \A l \in Kinds, t \in Spots : ~At(m, l, t)'
        <5> SUFFICES ASSUME NEW l \in Kinds, NEW t \in Spots, At(m, l, t)' PROVE FALSE
          OBVIOUS
        <5>1. At(m, l, t) /\ (t \in Servers => ~Dies(t))
          BY <1>2, <2>1, NameAssumption DEF At
        <5> QED
          BY <3>1, <4>2, <5>1
      <4> QED
        BY <3>2, <4>3, SpotLeft
    <3> QED
      BY <2>2, <3>1, <3>3, <3>4
  <2>4. CASE ~GoesDown(m)
    <3>1. Live(m)' <=> Live(m)
      BY <1>1, <2>4, CarriedMessage DEF Live
    <3>2. ASSUME NEW l \in Kinds, NEW t \in Spots PROVE At(m, l, t)' <=> At(m, l, t)
      <4>1. t \in Servers /\ Dies(t) => m \notin Held(t)
        BY <2>4 DEF GoesDown
      <4>2. CASE t \in Servers /\ Dies(t)
        <5>1. ~At(m, "channel", t) /\ ~At(m, "queue", t) /\ ~At(m, "hand", t)
          BY <2>2, <4>1, <4>2
        <5> QED
          BY <1>2, <2>1, <4>2, <5>1 DEF At, Kinds
      <4>3. CASE ~(t \in Servers /\ Dies(t))
        BY <1>2, <2>1, <4>3 DEF At
      <4> QED
        BY <4>2, <4>3
    <3> QED
      BY <2>0, <3>1, <3>2, SpotKept
  <2> QED
    BY <2>3, <2>4
<1> QED
  BY <1>3, <1>4, <1>5 DEF PlaceInv

\* A step that moves nothing and ends nothing.
LEMMA PlaceUnmoved ==
  ASSUME PlaceInv, UNCHANGED <<channel, queue, hand, deliveries>>,
         \A m \in Msgs : (Live(m)' <=> Live(m)) /\ (progress'[m] # "sent" => fate'[m] = "none")
  PROVE  PlaceInv'
<1>1. taken' = taken
  BY DEF taken
<1>2. ASSUME NEW m \in Msgs PROVE SpotOK(m)'
  <2>1. \A l \in Kinds, t \in Spots : At(m, l, t)' <=> At(m, l, t)
    BY <1>1 DEF At
  <2> QED
    BY <2>1, SpotKept DEF PlaceInv
<1> QED
  BY <1>1, <1>2 DEF PlaceInv, LinesOK, FateOK

\* A message comes to an end before it is in any place.
LEMMA PlaceStopped ==
  ASSUME RouteInv, PlaceInv, UNCHANGED <<channel, queue, hand, deliveries>>,
         NEW m \in Msgs, progress[m] # "sent", Advance(m, "sent"),
         NEW how \in Fates \ {"none"}, End(m, how)
  PROVE  PlaceInv'
<1>0. progress \in [Msgs -> {"new", "enqueue", "find", "get", "publish", "sent"}] /\ fate \in [Msgs -> Fates]
  BY DEF RouteInv, RoutingTypeOK
<1>1. ASSUME NEW n \in Msgs
      PROVE  (Live(n)' <=> Live(n)) /\ (progress'[n] # "sent" => fate'[n] = "none")
  BY <1>0 DEF Live, Advance, End, PlaceInv, FateOK
<1> QED
  BY <1>1, PlaceUnmoved

\* Of the sender's steps two put a message in a place.
LEMMA PlaceSend ==
  ASSUME RouteInv, PlaceInv, NEW m \in Msgs,
         ChooseWay(m) \/ EnqueueLocal(m) \/ FindLocal(m) \/ FindRoute(m) \/ Publish(m)
  PROVE  PlaceInv'
<1>0. /\ progress \in [Msgs -> {"new", "enqueue", "find", "get", "publish", "sent"}]
      /\ fate \in [Msgs -> Fates]
      /\ queue \in [Servers -> Seq(Msgs)] /\ channel \in [Servers -> Seq(Msgs)]
  BY DEF RouteInv, RoutingTypeOK
<1>1. progress[m] # "sent" /\ fate[m] = "none" /\ MsgFrom[m] \in Servers
  BY MsgAssumption DEF ChooseWay, EnqueueLocal, FindLocal, FindRoute, Publish, Sending, PlaceInv, FateOK
<1>2. \A l \in Kinds, t \in Spots : ~At(m, l, t)
  BY <1>1 DEF PlaceInv, SpotOK, Live
<1>3. CASE /\ UNCHANGED <<channel, queue, hand, deliveries>>
           /\ Advance(m, "sent")
           /\ End(m, "stored") \/ End(m, "rejected") \/ End(m, "unheard")
  BY <1>1, <1>3, PlaceStopped DEF Fates
<1>4. CASE /\ UNCHANGED <<channel, queue, hand, deliveries, fate>>
           /\ Advance(m, "enqueue") \/ Advance(m, "find") \/ Advance(m, "get") \/ Advance(m, "publish")
  <2>1. ASSUME NEW n \in Msgs
        PROVE  (Live(n)' <=> Live(n)) /\ (progress'[n] # "sent" => fate'[n] = "none")
    BY <1>0, <1>1, <1>4 DEF Live, Advance, PlaceInv, FateOK
  <2> QED
    BY <1>4, <2>1, PlaceUnmoved
<1>5. ASSUME NEW s \in Servers, NEW k \in {"channel", "queue"},
             Advance(m, "sent"), UNCHANGED <<hand, deliveries, fate>>,
             k = "queue" => queue' = [queue EXCEPT ![s] = Append(@, m)] /\ UNCHANGED channel,
             k = "channel" => channel' = [channel EXCEPT ![s] = Append(@, m)] /\ UNCHANGED queue
      PROVE  PlaceInv'
  <2>1. taken' = taken
    BY <1>5 DEF taken
  <2>2. m \notin Range(queue[s]) /\ m \notin Range(channel[s])
    BY <1>2 DEF At, Kinds, Spots
  <2>3. ASSUME NEW t \in Servers
        PROVE  /\ \A x : x \in Range(queue'[t]) <=> x \in Range(queue[t]) \/ (k = "queue" /\ t = s /\ x = m)
               /\ \A x : x \in Range(channel'[t]) <=> x \in Range(channel[t]) \/ (k = "channel" /\ t = s /\ x = m)
               /\ IsInjective(queue'[t]) /\ IsInjective(channel'[t])
    <3>1. IsInjective(queue[t]) /\ IsInjective(channel[t])
      BY DEF PlaceInv, LinesOK
    <3>2. CASE k = "queue"
      <4>1. queue' = Longer(queue, s, m) /\ channel' = channel
        BY <1>5, <3>2 DEF Longer
      <4>2. /\ \A x : x \in Range(queue'[t]) <=> x \in Range(queue[t]) \/ (t = s /\ x = m)
            /\ IsInjective(queue'[t])
        BY <1>0, <2>2, <3>1, <4>1, EnterLine
      <4> QED
        BY <3>1, <3>2, <4>1, <4>2
    <3>3. CASE k = "channel"
      <4>1. channel' = Longer(channel, s, m) /\ queue' = queue
        BY <1>5, <3>3 DEF Longer
      <4>2. /\ \A x : x \in Range(channel'[t]) <=> x \in Range(channel[t]) \/ (t = s /\ x = m)
            /\ IsInjective(channel'[t])
        BY <1>0, <2>2, <3>1, <4>1, EnterLine
      <4> QED
        BY <3>1, <3>3, <4>1, <4>2
    <3> QED
      BY <3>2, <3>3
  <2>4. LinesOK'
    BY <2>1, <2>3 DEF LinesOK, PlaceInv
  <2>5. FateOK'
    BY <1>0, <1>5 DEF FateOK, PlaceInv, Advance
  <2>6. ASSUME NEW n \in Msgs PROVE SpotOK(n)'
    <3>1. ASSUME NEW l \in Kinds, NEW t \in Spots
          PROVE  At(n, l, t)' <=> At(n, l, t) \/ (n = m /\ l = k /\ t = s)
      <4>1. hand' = hand
        BY <1>5
      <4>2. t \in Servers => /\ n \in Range(queue'[t]) <=> n \in Range(queue[t]) \/ (k = "queue" /\ t = s /\ n = m)
                             /\ n \in Range(channel'[t]) <=> n \in Range(channel[t]) \/ (k = "channel" /\ t = s /\ n = m)
        BY <2>3
      <4>3. k \in {"channel", "queue"} /\ s \in Servers
        OBVIOUS
      <4> QED
        BY <2>1, <4>1, <4>2, <4>3 DEF At
    <3>2. CASE n = m
      <4>1. Live(m)'
        BY <1>0, <1>1, <1>5 DEF Live, Advance
      <4>2. \A l \in Kinds, t \in Spots : At(m, l, t)' <=> l = k /\ t = s
        BY <1>2, <3>1, <3>2
      <4> QED
        BY <3>2, <4>1, <4>2, SpotTaken DEF Kinds, Spots
    <3>3. CASE n # m
      <4>1. Live(n)' <=> Live(n)
        BY <1>0, <1>5, <3>3 DEF Live, Advance
      <4> QED
        BY <3>1, <3>3, <4>1, SpotKept DEF PlaceInv
    <3> QED
      BY <3>2, <3>3
  <2> QED
    BY <2>4, <2>5, <2>6 DEF PlaceInv
<1>6. CASE ChooseWay(m)
  BY <1>3, <1>4, <1>6 DEF ChooseWay, busVars, dispatchVars
<1>7. CASE EnqueueLocal(m)
  BY <1>1, <1>3, <1>5, <1>7 DEF EnqueueLocal, dispatchVars
<1>8. CASE FindLocal(m)
  BY <1>4, <1>8 DEF FindLocal, busVars, dispatchVars
<1>9. CASE FindRoute(m)
  BY <1>3, <1>4, <1>9 DEF FindRoute, busVars, dispatchVars
<1>10. CASE Publish(m)
  <2>1. target[m] \in Servers
    BY <1>10 DEF Publish, Sending, RouteInv, TargetOK
  <2> QED
    BY <1>3, <1>5, <1>10, <2>1 DEF Publish, dispatchVars
<1> QED
  BY <1>6, <1>7, <1>8, <1>9, <1>10

\* A message goes from one place to another, ...
LEMMA PlaceMoved ==
  ASSUME PlaceInv, LinesOK', UNCHANGED <<progress, fate>>,
         NEW m \in Msgs, NEW k \in Kinds, NEW s \in Spots, At(m, k, s),
         NEW j \in Kinds, NEW r \in Spots,
         \A n \in Msgs : \A l \in Kinds, t \in Spots :
           At(n, l, t)' <=> (n # m /\ At(n, l, t)) \/ (n = m /\ l = j /\ t = r)
  PROVE  PlaceInv'
<1>1. ASSUME NEW n \in Msgs PROVE SpotOK(n)'
  <2>1. Live(n)' <=> Live(n)
    BY DEF Live
  <2>2. CASE n = m
    <3>1. Live(m)
      BY OnlySpot DEF PlaceInv
    <3>2. \A l \in Kinds, t \in Spots : At(m, l, t)' <=> l = j /\ t = r
      OBVIOUS
    <3> QED
      BY <2>1, <2>2, <3>1, <3>2, SpotTaken
  <2>3. CASE n # m
    <3>1. \A l \in Kinds, t \in Spots : At(n, l, t)' <=> At(n, l, t)
      BY <2>3
    <3> QED
      BY <2>1, <3>1, SpotKept DEF PlaceInv
  <2> QED
    BY <2>2, <2>3
<1> QED
  BY <1>1 DEF PlaceInv, FateOK

\* ... or comes to its end in one.
LEMMA PlaceEnded ==
  ASSUME RouteInv, PlaceInv, LinesOK', UNCHANGED progress,
         NEW m \in Msgs, NEW how \in Fates \ {"none"}, End(m, how),
         NEW k \in Kinds, NEW s \in Spots, At(m, k, s),
         \A n \in Msgs : \A l \in Kinds, t \in Spots : At(n, l, t)' <=> n # m /\ At(n, l, t)
  PROVE  PlaceInv'
<1>0. fate \in [Msgs -> Fates]
  BY DEF RouteInv, RoutingTypeOK
<1>1. Live(m)
  BY OnlySpot DEF PlaceInv
<1>2. FateOK'
  BY <1>0, <1>1 DEF PlaceInv, FateOK, Live, End
<1>3. ASSUME NEW n \in Msgs PROVE SpotOK(n)'
  <2>1. CASE n = m
    <3>1. ~Live(m)'
      BY <1>0 DEF Live, End
    <3>2. \A l \in Kinds, t \in Spots : ~At(m, l, t)'
      OBVIOUS
    <3> QED
      BY <2>1, <3>1, <3>2, SpotLeft
  <2>2. CASE n # m
    <3>1. Live(n)' <=> Live(n)
      BY <1>0, <2>2 DEF Live, End
    <3>2. \A l \in Kinds, t \in Spots : At(n, l, t)' <=> At(n, l, t)
      BY <2>2
    <3> QED
      BY <3>1, <3>2, SpotKept DEF PlaceInv
  <2> QED
    BY <2>1, <2>2
<1> QED
  BY <1>2, <1>3 DEF PlaceInv

\* The listener moves the head of the channel to the end of the queue, or loses it.
LEMMA PlaceListen ==
  ASSUME RouteInv, PlaceInv, NEW s \in Servers, Listen(s)
  PROVE  PlaceInv'
<1> DEFINE m == Head(channel[s])
<1>0. /\ queue \in [Servers -> Seq(Msgs)] /\ channel \in [Servers -> Seq(Msgs)]
      /\ channel[s] # << >> /\ channel[s] \in Seq(Msgs)
  BY DEF RouteInv, RoutingTypeOK, Listen
<1>1. m \in Msgs /\ At(m, "channel", s)
  BY <1>0, TailLine, RangeOfSeq DEF At
<1>2. m \notin Range(queue[s])
  BY <1>1, OnlySpot DEF PlaceInv, At, Kinds, Spots
<1> HIDE DEF m
<1>3. taken' = taken /\ hand' = hand /\ progress' = progress
  BY DEF Listen, sendVars, dispatchVars, taken
<1>4. ASSUME NEW t \in Servers
      PROVE  /\ \A x : x \in Range(channel'[t]) <=> x \in Range(channel[t]) /\ ~(t = s /\ x = m)
             /\ IsInjective(channel'[t])
  <2>1. channel' = Shorter(channel, s)
    BY DEF Listen, Shorter
  <2>2. IsInjective(channel[s]) /\ IsInjective(channel[t])
    BY DEF PlaceInv, LinesOK
  <2> QED
    BY <1>0, <2>1, <2>2, LeaveLine DEF m
<1>5. CASE UNCHANGED queue /\ End(m, "dropped")
  <2>1. LinesOK'
    BY <1>3, <1>4, <1>5 DEF PlaceInv, LinesOK
  <2>2. ASSUME NEW n \in Msgs, NEW l \in Kinds, NEW t \in Spots
        PROVE  At(n, l, t)' <=> n # m /\ At(n, l, t)
    <3>1. At(m, l, t) <=> l = "channel" /\ t = s
      BY <1>1, OnlySpot DEF PlaceInv, Kinds, Spots
    <3>2. At(n, l, t)' <=> At(n, l, t) /\ ~(n = m /\ l = "channel" /\ t = s)
      BY <1>3, <1>4, <1>5 DEF At
    <3> QED
      BY <3>1, <3>2
  <2> QED
    BY <1>1, <1>3, <1>5, <2>1, <2>2, PlaceEnded DEF Kinds, Spots, Fates
<1>6. CASE UNCHANGED fate /\ queue' = Longer(queue, s, m)
  <2>1. ASSUME NEW t \in Servers
        PROVE  /\ \A x : x \in Range(queue'[t]) <=> x \in Range(queue[t]) \/ (t = s /\ x = m)
               /\ IsInjective(queue'[t])
    <3>1. IsInjective(queue[t])
      BY DEF PlaceInv, LinesOK
    <3> QED
      BY <1>0, <1>1, <1>2, <1>6, <3>1, EnterLine
  <2>2. LinesOK'
    BY <1>3, <1>4, <2>1 DEF PlaceInv, LinesOK
  <2>3. ASSUME NEW n \in Msgs, NEW l \in Kinds, NEW t \in Spots
        PROVE  At(n, l, t)' <=> (n # m /\ At(n, l, t)) \/ (n = m /\ l = "queue" /\ t = s)
    <3>1. At(m, l, t) <=> l = "channel" /\ t = s
      BY <1>1, OnlySpot DEF PlaceInv, Kinds, Spots
    <3>2. At(n, l, t)' <=> \/ At(n, l, t) /\ ~(n = m /\ l = "channel" /\ t = s)
                           \/ n = m /\ l = "queue" /\ t = s
      BY <1>3, <1>4, <2>1 DEF At
    <3> QED
      BY <3>1, <3>2
  <2> QED
    BY <1>1, <1>3, <1>6, <2>2, <2>3, PlaceMoved DEF Kinds, Spots
<1> QED
  BY <1>5, <1>6 DEF Listen, m, Longer

\* Run moves the head of the queue to its hand, or ends it.
LEMMA PlaceTake ==
  ASSUME RouteInv, PlaceInv, NEW s \in Servers, TakeMessage(s)
  PROVE  PlaceInv'
<1> DEFINE m == Head(queue[s])
<1>0. /\ queue \in [Servers -> Seq(Msgs)] /\ queue[s] # << >> /\ queue[s] \in Seq(Msgs)
      /\ hand \in [Servers -> Msgs \cup {NoMsg}] /\ hand[s] = NoMsg
  BY DEF RouteInv, RoutingTypeOK, TakeMessage, HandOK
<1>1. m \in Msgs /\ At(m, "queue", s)
  BY <1>0, TailLine, RangeOfSeq DEF At
<1> HIDE DEF m
<1>3. taken' = taken /\ channel' = channel /\ progress' = progress
  BY DEF TakeMessage, sendVars, taken
<1>4. ASSUME NEW t \in Servers
      PROVE  /\ \A x : x \in Range(queue'[t]) <=> x \in Range(queue[t]) /\ ~(t = s /\ x = m)
             /\ IsInjective(queue'[t])
  <2>1. queue' = Shorter(queue, s)
    BY DEF TakeMessage, Shorter
  <2>2. IsInjective(queue[s]) /\ IsInjective(queue[t])
    BY DEF PlaceInv, LinesOK
  <2> QED
    BY <1>0, <2>1, <2>2, LeaveLine DEF m
<1>5. LinesOK'
  BY <1>3, <1>4 DEF PlaceInv, LinesOK
<1>6. CASE UNCHANGED hand /\ End(m, "notHere")
  <2>2. ASSUME NEW n \in Msgs, NEW l \in Kinds, NEW t \in Spots
        PROVE  At(n, l, t)' <=> n # m /\ At(n, l, t)
    <3>1. At(m, l, t) <=> l = "queue" /\ t = s
      BY <1>1, OnlySpot DEF PlaceInv, Kinds, Spots
    <3>2. At(n, l, t)' <=> At(n, l, t) /\ ~(n = m /\ l = "queue" /\ t = s)
      BY <1>3, <1>4, <1>6 DEF At
    <3> QED
      BY <3>1, <3>2
  <2> QED
    BY <1>1, <1>3, <1>5, <1>6, <2>2, PlaceEnded DEF Kinds, Spots, Fates
<1>7. CASE UNCHANGED fate /\ hand' = [hand EXCEPT ![s] = m]
  <2>1. ASSUME NEW n \in Msgs, NEW t \in Servers
        PROVE  hand'[t] = n <=> hand[t] = n \/ (t = s /\ n = m)
    BY <1>0, <1>7, MsgAssumption
  <2>3. ASSUME NEW n \in Msgs, NEW l \in Kinds, NEW t \in Spots
        PROVE  At(n, l, t)' <=> (n # m /\ At(n, l, t)) \/ (n = m /\ l = "hand" /\ t = s)
    <3>1. At(m, l, t) <=> l = "queue" /\ t = s
      BY <1>1, OnlySpot DEF PlaceInv, Kinds, Spots
    <3>2. At(n, l, t)' <=> \/ At(n, l, t) /\ ~(n = m /\ l = "queue" /\ t = s)
                           \/ n = m /\ l = "hand" /\ t = s
      BY <1>3, <1>4, <2>1 DEF At
    <3> QED
      BY <3>1, <3>2
  <2> QED
    BY <1>1, <1>3, <1>5, <1>7, <2>3, PlaceMoved DEF Kinds, Spots
<1> QED
  BY <1>6, <1>7 DEF TakeMessage, m

\* A delivery empties the hand of Run.
LEMMA PlaceDeliver ==
  ASSUME RouteInv, PlaceInv, NEW s \in Servers, NEW c \in Conns, Deliver(s, c)
  PROVE  PlaceInv'
<1> DEFINE m == hand[s]
<1>0. hand \in [Servers -> Msgs \cup {NoMsg}] /\ RoutingTypeOK
  BY DEF RouteInv, RoutingTypeOK
<1>1. m \in Msgs /\ At(m, "hand", s)
  BY TryingIsUp DEF RouteInv, Deliver, At
<1>2. taken' = Append(taken, m)
  BY <1>0, <1>1, TakenMore DEF Deliver
<1>3. m \notin Range(taken)
  BY <1>1, OnlySpot DEF PlaceInv, At, Kinds, Spots
<1>4. channel' = channel /\ queue' = queue /\ UNCHANGED <<progress, fate>>
      /\ hand' = [hand EXCEPT ![s] = NoMsg]
  BY DEF Deliver, sendVars, busVars
<1> HIDE DEF m
<1>5. Range(taken') = Range(taken) \cup {m} /\ IsInjective(taken')
  <2>1. taken \in Seq(Msgs)
    BY <1>0, TakenLine
  <2>2. IsInjective(taken)
    BY DEF PlaceInv, LinesOK
  <2> QED
    BY <1>1, <1>2, <1>3, <2>1, <2>2, AppendLine
<1>6. LinesOK'
  BY <1>4, <1>5 DEF PlaceInv, LinesOK
<1>7. ASSUME NEW n \in Msgs, NEW t \in Servers
      PROVE  hand'[t] = n <=> hand[t] = n /\ ~(t = s /\ n = m)
  BY <1>0, <1>4, MsgAssumption DEF m
<1>8. ASSUME NEW n \in Msgs, NEW l \in Kinds, NEW t \in Spots
      PROVE  At(n, l, t)' <=> (n # m /\ At(n, l, t)) \/ (n = m /\ l = "taken" /\ t = NoServer)
  <2>1. At(m, l, t) <=> l = "hand" /\ t = s
    BY <1>1, OnlySpot DEF PlaceInv, Kinds, Spots
  <2>2. At(n, l, t)' <=> \/ At(n, l, t) /\ ~(n = m /\ l = "hand" /\ t = s)
                         \/ n = m /\ l = "taken" /\ t = NoServer
    BY <1>4, <1>5, <1>7 DEF At
  <2> QED
    BY <2>1, <2>2
<1> QED
  BY <1>1, <1>4, <1>6, <1>8, PlaceMoved DEF Kinds, Spots

\* So does giving up, which ends the message.
LEMMA PlaceGiveUp ==
  ASSUME RouteInv, PlaceInv, NEW s \in Servers, GiveUp(s)
  PROVE  PlaceInv'
<1> DEFINE m == hand[s]
<1>0. hand \in [Servers -> Msgs \cup {NoMsg}]
  BY DEF RouteInv, RoutingTypeOK
<1>1. m \in Msgs /\ At(m, "hand", s)
  BY <1>0 DEF RouteInv, HandOK, GiveUp, At
<1>2. /\ channel' = channel /\ queue' = queue /\ taken' = taken /\ progress' = progress
      /\ hand' = [hand EXCEPT ![s] = NoMsg] /\ End(m, "stored")
  BY DEF GiveUp, sendVars, busVars, taken
<1> HIDE DEF m
<1>3. ASSUME NEW n \in Msgs, NEW t \in Servers
      PROVE  hand'[t] = n <=> hand[t] = n /\ ~(t = s /\ n = m)
  BY <1>0, <1>2, MsgAssumption DEF m
<1>4. ASSUME NEW n \in Msgs, NEW l \in Kinds, NEW t \in Spots
      PROVE  At(n, l, t)' <=> n # m /\ At(n, l, t)
  <2>1. At(m, l, t) <=> l = "hand" /\ t = s
    BY <1>1, OnlySpot DEF PlaceInv, Kinds, Spots
  <2>2. At(n, l, t)' <=> At(n, l, t) /\ ~(n = m /\ l = "hand" /\ t = s)
    BY <1>2, <1>3 DEF At
  <2> QED
    BY <2>1, <2>2
<1>5. LinesOK'
  BY <1>2 DEF PlaceInv, LinesOK
<1> QED
  BY <1>1, <1>2, <1>4, <1>5, PlaceEnded DEF Kinds, Spots, Fates

\* Every step moves at most one message from one place to one other,
LEMMA PlaceStep ==
  ASSUME RouteInv, PlaceInv, [RoutingNext]_allVars
  PROVE  PlaceInv'
<1>1. CASE UNCHANGED <<channel, queue, hand, deliveries, progress, fate>>
  <2>1. \A m \in Msgs : (Live(m)' <=> Live(m)) /\ (progress'[m] # "sent" => fate'[m] = "none")
    BY <1>1 DEF Live, PlaceInv, FateOK
  <2> QED
    BY <1>1, <2>1, PlaceUnmoved
<1> QED
  BY <1>1, PlaceManager, PlaceSend, PlaceListen, PlaceTake, PlaceDeliver, PlaceGiveUp, RoutingSteps
  DEF allVars, routingVars, sendVars, busVars, CollectConns, SkipFull, UnregisterClosed

\* and none is anywhere in the beginning.
LEMMA PlaceInit ==
  ASSUME RoutingInit
  PROVE  PlaceInv
<1>1. taken = << >> /\ IsInjective(<< >>) /\ Range(<< >>) = {}
  BY DEF RoutingInit, taken, IsInjective, Range
<1>2. LinesOK
  BY <1>1 DEF RoutingInit, LinesOK
<1>3. ASSUME NEW m \in Msgs PROVE SpotOK(m)
  <2>1. ~Live(m)
    BY DEF RoutingInit, Live
  <2>2. \A l \in Kinds, t \in Spots : ~At(m, l, t)
    BY <1>1, MsgAssumption DEF RoutingInit, At
  <2> QED
    BY <2>1, <2>2 DEF SpotOK
<1> QED
  BY <1>2, <1>3 DEF PlaceInv, FateOK, RoutingInit

\* The elements of Places, one kind after the other.
LEMMA OccurrencesOf ==
  ASSUME NEW line, NEW m, NEW x
  PROVE  x \in Occurrences(line, m)
           <=> \E s \in Servers : \E i \in DOMAIN line[s] : line[s][i] = m /\ x = <<s, i>>
<1>1. ASSUME NEW s \in Servers
      PROVE  x \in {<<s, i>> : i \in {j \in DOMAIN line[s] : line[s][j] = m}}
               <=> \E i \in DOMAIN line[s] : line[s][i] = m /\ x = <<s, i>>
  OBVIOUS
<1> QED
  BY <1>1 DEF Occurrences

\* The places of a message are those that OnePlace counts.
LEMMA PlacesOf ==
  ASSUME NEW m, NEW p
  PROVE  p \in Places(m)
           <=> \/ \E s \in Servers : \E i \in DOMAIN channel[s] : channel[s][i] = m /\ p = <<"channel", <<s, i>>>>
               \/ \E s \in Servers : \E i \in DOMAIN queue[s] : queue[s][i] = m /\ p = <<"queue", <<s, i>>>>
               \/ \E s \in Servers : hand[s] = m /\ p = <<"hand", s>>
               \/ \E i \in DOMAIN deliveries : deliveries[i].msg = m /\ p = <<"taken", i>>
<1>1. p \in {"channel"} \X Occurrences(channel, m)
        <=> \E s \in Servers : \E i \in DOMAIN channel[s] : channel[s][i] = m /\ p = <<"channel", <<s, i>>>>
  <2>1. p \in {"channel"} \X Occurrences(channel, m)
          <=> \E x \in Occurrences(channel, m) : p = <<"channel", x>>
    OBVIOUS
  <2> QED
    BY <2>1, OccurrencesOf
<1>2. p \in {"queue"} \X Occurrences(queue, m)
        <=> \E s \in Servers : \E i \in DOMAIN queue[s] : queue[s][i] = m /\ p = <<"queue", <<s, i>>>>
  <2>1. p \in {"queue"} \X Occurrences(queue, m)
          <=> \E x \in Occurrences(queue, m) : p = <<"queue", x>>
    OBVIOUS
  <2> QED
    BY <2>1, OccurrencesOf
<1>3. p \in {"hand"} \X {s \in Servers : hand[s] = m} <=> \E s \in Servers : hand[s] = m /\ p = <<"hand", s>>
  OBVIOUS
<1>4. p \in {"taken"} \X {i \in DOMAIN deliveries : deliveries[i].msg = m}
        <=> \E i \in DOMAIN deliveries : deliveries[i].msg = m /\ p = <<"taken", i>>
  OBVIOUS
<1> QED
  BY <1>1, <1>2, <1>3, <1>4 DEF Places

\* Of the kinds of places one is taken, and in a line one position.
LEMMA PlaceInvGivesOnePlace ==
  ASSUME RoutingTypeOK, PlaceInv
  PROVE  OnePlace
<1> SUFFICES ASSUME NEW m \in Msgs
             PROVE  IF Live(m) THEN \E p \in Places(m) : Places(m) = {p} ELSE Places(m) = {}
  BY DEF OnePlace, Live
<1>1. /\ \A i \in DOMAIN deliveries : deliveries[i].msg = m => m \in Range(taken)
      /\ \A i, j \in DOMAIN deliveries : deliveries[i].msg = m /\ deliveries[j].msg = m => i = j
  <2>1. DOMAIN taken = DOMAIN deliveries /\ \A i \in DOMAIN deliveries : taken[i] = deliveries[i].msg
    BY TakenLine
  <2>2. IsInjective(taken)
    BY DEF PlaceInv, LinesOK
  <2> QED
    BY <2>1, <2>2 DEF Range, IsInjective
<1>2. ASSUME NEW s \in Servers
      PROVE  /\ \A i \in DOMAIN channel[s] : channel[s][i] = m => At(m, "channel", s)
             /\ \A i \in DOMAIN queue[s] : queue[s][i] = m => At(m, "queue", s)
             /\ hand[s] = m => At(m, "hand", s)
             /\ \A i, j \in DOMAIN channel[s] : channel[s][i] = m /\ channel[s][j] = m => i = j
             /\ \A i, j \in DOMAIN queue[s] : queue[s][i] = m /\ queue[s][j] = m => i = j
  BY DEF At, Range, PlaceInv, LinesOK, IsInjective
<1>3. \A i \in DOMAIN deliveries : deliveries[i].msg = m => At(m, "taken", NoServer)
  BY <1>1 DEF At
<1>4. CASE ~Live(m)
  <2>1. \A l \in Kinds, t \in Spots : ~At(m, l, t)
    BY <1>4 DEF PlaceInv, SpotOK
  <2>2. ASSUME NEW p \in Places(m) PROVE FALSE
    BY <1>2, <1>3, <2>1, PlacesOf DEF Kinds, Spots
  <2> QED
    BY <1>4, <2>2
<1>5. CASE Live(m)
  <2>1. PICK k \in Kinds, s \in Spots : \A l \in Kinds, t \in Spots : At(m, l, t) <=> l = k /\ t = s
    BY <1>5 DEF PlaceInv, SpotOK
  <2>2. At(m, k, s)
    BY <2>1
  <2> SUFFICES \E p \in Places(m) : \A q \in Places(m) : q = p
    BY <1>5
  <2>3. CASE k = "channel"
    <3>1. PICK i \in DOMAIN channel[s] : s \in Servers /\ channel[s][i] = m
      BY <2>2, <2>3 DEF At, Range
    <3>2. <<"channel", <<s, i>>>> \in Places(m)
      BY <3>1, PlacesOf
    <3>3. ASSUME NEW q \in Places(m) PROVE q = <<"channel", <<s, i>>>>
      <4>1. PICK t \in Servers : \E j \in DOMAIN channel[t] : channel[t][j] = m /\ q = <<"channel", <<t, j>>>>
        BY <1>2, <1>3, <2>1, <2>3, PlacesOf DEF Kinds, Spots
      <4>2. t = s
        BY <1>2, <2>1, <4>1 DEF Kinds, Spots
      <4> QED
        BY <1>2, <3>1, <4>1, <4>2
    <3> QED
      BY <3>2, <3>3
  <2>4. CASE k = "queue"
    <3>1. PICK i \in DOMAIN queue[s] : s \in Servers /\ queue[s][i] = m
      BY <2>2, <2>4 DEF At, Range
    <3>2. <<"queue", <<s, i>>>> \in Places(m)
      BY <3>1, PlacesOf
    <3>3. ASSUME NEW q \in Places(m) PROVE q = <<"queue", <<s, i>>>>
      <4>1. PICK t \in Servers : \E j \in DOMAIN queue[t] : queue[t][j] = m /\ q = <<"queue", <<t, j>>>>
        BY <1>2, <1>3, <2>1, <2>4, PlacesOf DEF Kinds, Spots
      <4>2. t = s
        BY <1>2, <2>1, <4>1 DEF Kinds, Spots
      <4> QED
        BY <1>2, <3>1, <4>1, <4>2
    <3> QED
      BY <3>2, <3>3
  <2>5. CASE k = "hand"
    <3>1. s \in Servers /\ hand[s] = m
      BY <2>2, <2>5 DEF At
    <3>2. <<"hand", s>> \in Places(m)
      BY <3>1, PlacesOf
    <3>3. ASSUME NEW q \in Places(m) PROVE q = <<"hand", s>>
      <4>1. PICK t \in Servers : hand[t] = m /\ q = <<"hand", t>>
        BY <1>2, <1>3, <2>1, <2>5, PlacesOf DEF Kinds, Spots
      <4>2. t = s
        BY <1>2, <2>1, <4>1 DEF Kinds, Spots
      <4> QED
        BY <4>1, <4>2
    <3> QED
      BY <3>2, <3>3
  <2>6. CASE k = "taken"
    <3>1. PICK i \in DOMAIN deliveries : deliveries[i].msg = m
      <4>1. m \in Range(taken)
        BY <2>2, <2>6 DEF At
      <4> QED
        BY <4>1, TakenLine DEF Range
    <3>2. <<"taken", i>> \in Places(m)
      BY <3>1, PlacesOf
    <3>3. ASSUME NEW q \in Places(m) PROVE q = <<"taken", i>>
      <4>1. PICK j \in DOMAIN deliveries : deliveries[j].msg = m /\ q = <<"taken", j>>
        BY <1>2, <1>3, <2>1, <2>6, PlacesOf DEF Kinds, Spots
      <4> QED
        BY <1>1, <3>1, <4>1
    <3> QED
      BY <3>2, <3>3
  <2> QED
    BY <2>3, <2>4, <2>5, <2>6 DEF Kinds
<1> QED
  BY <1>4, <1>5

\* A message that was passed on and has not ended is in one channel, queue, hand
\* or delivery, once; and what has not been passed on or has ended is nowhere.
THEOREM PlaceInvariant == RoutingSpec => []PlaceInv
<1>1. RouteInv /\ PlaceInv /\ [RoutingNext]_allVars => PlaceInv'
  BY PlaceStep
<1> QED
  BY <1>1, PlaceInit, RouteInvariant, PTL DEF RoutingSpec

\* OnePlace: a message SendMessage has passed on is in exactly one channel, queue,
\* hand or connection, once, until it comes to an end, and then it is nowhere.
THEOREM AlwaysOnePlace == RoutingSpec => []OnePlace
<1>1. RouteInv /\ PlaceInv => OnePlace
  BY PlaceInvGivesOnePlace DEF RouteInv
<1> QED
  BY <1>1, RouteInvariant, PlaceInvariant, PTL

-----------------------------------------------------------------------------
(* Messages that go the same way stay in order.                            *)

\* How far on its way a message is.
Rank(kind) ==
  IF kind = "channel" THEN 0 ELSE IF kind = "queue" THEN 1 ELSE IF kind = "hand" THEN 2 ELSE 3

\* A sender passes on one message after the other.
OneAfterAnother ==
  \A m, n \in Msgs : m < n /\ MsgFrom[m] = MsgFrom[n] /\ progress[n] # "new" => progress[m] = "sent"

\* A message is on the server that was found for it, and without one on its sender's.
OnItsWay ==
  \A m \in Msgs : \A s \in Servers :
    /\ At(m, "channel", s) => target[m] = s
    /\ At(m, "queue", s) \/ At(m, "hand", s)
         => s = IF target[m] = NoServer THEN MsgFrom[m] ELSE target[m]

\* n is not further than m, ...
NotAhead(m, n) ==
  \A k, l \in Kinds : \A s, t \in Spots : At(m, k, s) /\ At(n, l, t) => Rank(k) >= Rank(l)

\* ... nor before it in a line.
Behind(m, n) ==
  /\ \A s \in Servers : Before(channel[s], m, n) /\ Before(queue[s], m, n)
  /\ Before(taken, m, n)

\* Two messages of one sender to one recipient that go the same way.
SameWay(m, n) ==
  m < n /\ MsgFrom[m] = MsgFrom[n] /\ MsgTo[m] = MsgTo[n] /\ target[m] = target[n]

OrderInv ==
  /\ OneAfterAnother
  /\ OnItsWay
  /\ \A m, n \in Msgs : SameWay(m, n) => NotAhead(m, n) /\ Behind(m, n)

\* The step brings at most x to another place.
Arrives(x, j, r) ==
  \A m \in Msgs : \A l \in Kinds, t \in Spots :
    At(m, l, t)' => At(m, l, t) \/ (m = x /\ l = j /\ t = r)

\* A message in no place is in order.
LEMMA NowhereInOrder ==
  ASSUME NEW m \in Msgs, NEW n \in Msgs,
         \/ \A l \in Kinds, t \in Spots : ~At(m, l, t)'
         \/ \A l \in Kinds, t \in Spots : ~At(n, l, t)'
  PROVE  NotAhead(m, n)' /\ Behind(m, n)'
<1>1. NotAhead(m, n)'
  BY DEF NotAhead
<1>3. ASSUME NEW x \in Msgs, \A l \in Kinds, t \in Spots : ~At(x, l, t)'
      PROVE  /\ \A s \in Servers : x \notin Range(channel'[s]) /\ x \notin Range(queue'[s])
             /\ x \notin Range(taken')
  BY <1>3 DEF At, Kinds, Spots
<1>4. ASSUME NEW line, m \notin Range(line) \/ n \notin Range(line) PROVE Before(line, m, n)
  BY <1>4 DEF Before, Range
<1>5. Behind(m, n)'
  BY <1>3, <1>4 DEF Behind
<1> QED
  BY <1>1, <1>5

\* When x arrives, those behind it have not been there, and those before it have
\* been there already.
LEMMA ArrivalInOrder ==
  ASSUME NEW m \in Msgs, NEW n \in Msgs, NotAhead(m, n),
         NEW x, NEW j \in Kinds, NEW r \in Spots, Arrives(x, j, r),
         m # n,
         x = m => \A l \in Kinds, t \in Spots : At(n, l, t) => Rank(j) >= Rank(l),
         x = n => \A k \in Kinds, s \in Spots : At(m, k, s) => Rank(k) >= Rank(j)
  PROVE  NotAhead(m, n)'
<1> SUFFICES ASSUME NEW k \in Kinds, NEW l \in Kinds, NEW s \in Spots, NEW t \in Spots,
                    At(m, k, s)', At(n, l, t)'
             PROVE  Rank(k) >= Rank(l)
  BY DEF NotAhead
<1>1. At(m, k, s) \/ (x = m /\ k = j /\ s = r)
  BY DEF Arrives
<1>2. At(n, l, t) \/ (x = n /\ l = j /\ t = r)
  BY DEF Arrives
<1> QED
  BY <1>1, <1>2 DEF NotAhead

\* A step after which nothing is where it was not before keeps everything in order.
LEMMA NothingArrives ==
  ASSUME RouteInv, PlaceInv, OrderInv,
         \A m \in Msgs : \A l \in Kinds, t \in Spots : At(m, l, t)' => At(m, l, t),
         UNCHANGED target, OneAfterAnother',
         \A s \in Servers : /\ channel'[s] = channel[s] \/ channel'[s] = << >>
                            /\ queue'[s] = queue[s] \/ queue'[s] = << >>,
         taken' = taken
  PROVE  OrderInv'
<1>1. OnItsWay'
  <2>1. ASSUME NEW m \in Msgs, NEW s \in Servers
        PROVE  /\ At(m, "channel", s)' => At(m, "channel", s)
               /\ At(m, "queue", s)' => At(m, "queue", s)
               /\ At(m, "hand", s)' => At(m, "hand", s)
    BY DEF Kinds, Spots
  <2> QED
    BY <2>1 DEF OrderInv, OnItsWay
<1>2. ASSUME NEW m \in Msgs, NEW n \in Msgs, SameWay(m, n)'
      PROVE  NotAhead(m, n)' /\ Behind(m, n)'
  <2>1. NotAhead(m, n) /\ Behind(m, n)
    BY <1>2 DEF OrderInv, SameWay
  <2>2. NotAhead(m, n)'
    BY <2>1 DEF NotAhead
  <2>3. Before(<< >>, m, n)
    BY DEF Before
  <2>4. Behind(m, n)'
    BY <2>1, <2>3 DEF Behind
  <2> QED
    BY <2>2, <2>4
<1> QED
  BY <1>1, <1>2 DEF OrderInv

\* What is passed on stays so, and a message begins in ChooseWay only: a message
\* that is new is in no place, so no server takes it down.
LEMMA ProgressGoesOn ==
  ASSUME RouteInv, PlaceInv, [RoutingNext]_allVars, NEW m \in Msgs
  PROVE  /\ progress[m] = "sent" => progress'[m] = "sent"
         /\ progress[m] = "new" /\ progress'[m] # "new" => ChooseWay(m)
<1>0. progress \in [Msgs -> {"new", "enqueue", "find", "get", "publish", "sent"}]
  BY DEF RouteInv, RoutingTypeOK
<1>1. CASE ManagerStep
  <2>1. progress[m] = "new" => ~GoesDown(m)
    <3> SUFFICES ASSUME progress[m] = "new", NEW s \in Servers, m \in Held(s) PROVE FALSE
      BY DEF GoesDown
    <3>1. At(m, "channel", s) \/ At(m, "queue", s) \/ At(m, "hand", s)
      BY DEF Held, At, Range
    <3> QED
      BY <3>1 DEF PlaceInv, SpotOK, Live, Kinds, Spots
  <2> QED
    BY <1>0, <1>1, <2>1, CarriedMessage DEF ManagerStep
<1>2. ASSUME NEW n \in Msgs, ChooseWay(n)
      PROVE  /\ progress[m] = "sent" => progress'[m] = "sent"
             /\ progress[m] = "new" /\ progress'[m] # "new" => ChooseWay(m)
  <2>1. progress[n] = "new" /\ \E step : progress' = [progress EXCEPT ![n] = step]
    BY <1>2 DEF ChooseWay, Sending, Advance
  <2> QED
    BY <1>0, <1>2, <2>1
<1>3. ASSUME NEW n \in Msgs, EnqueueLocal(n) \/ FindLocal(n) \/ FindRoute(n) \/ Publish(n)
      PROVE  /\ progress[m] = "sent" => progress'[m] = "sent"
             /\ progress[m] = "new" /\ progress'[m] # "new" => ChooseWay(m)
  <2>1. /\ progress[n] # "new" /\ progress[n] # "sent"
        /\ \E step : progress' = [progress EXCEPT ![n] = step]
    BY <1>3 DEF EnqueueLocal, FindLocal, FindRoute, Publish, Sending, Advance
  <2> QED
    BY <1>0, <2>1
<1>4. CASE UNCHANGED progress
  BY <1>4
<1> QED
  BY <1>1, <1>2, <1>3, <1>4, RoutingSteps
  DEF allVars, routingVars, sendVars, Listen, TakeMessage, CollectConns, Deliver, SkipFull, GiveUp, UnregisterClosed

\* A sender begins with a message when the one before has been sent.
LEMMA AfterStep ==
  ASSUME RouteInv, PlaceInv, OrderInv, [RoutingNext]_allVars
  PROVE  OneAfterAnother'
<1> SUFFICES ASSUME NEW m \in Msgs, NEW n \in Msgs, m < n, MsgFrom[m] = MsgFrom[n], progress'[n] # "new"
             PROVE  progress'[m] = "sent"
  BY DEF OneAfterAnother
<1>1. CASE progress[n] # "new"
  BY <1>1, ProgressGoesOn DEF OrderInv, OneAfterAnother
<1>2. CASE progress[n] = "new"
  <2>1. ChooseWay(n)
    BY <1>2, ProgressGoesOn
  <2>2. progress[m] = "sent"
    BY <2>1 DEF ChooseWay
  <2> QED
    BY <2>2, ProgressGoesOn
<1> QED
  BY <1>1, <1>2

\* A step of the manager loses messages and moves none.
LEMMA OrderManager ==
  ASSUME RouteInv, PlaceInv, OrderInv, ManagerStep, OneAfterAnother'
  PROVE  OrderInv'
<1>1. Carried
  BY DEF ManagerStep
<1>2. taken' = taken /\ target' = target
  BY <1>1, CarriedMessage DEF taken
<1>3. ASSUME NEW s \in Servers
      PROVE  /\ channel'[s] = channel[s] \/ channel'[s] = << >>
             /\ queue'[s] = queue[s] \/ queue'[s] = << >>
             /\ hand'[s] = hand[s] \/ hand'[s] = NoMsg
  BY <1>1, CarriedServer
<1>4. \A x : x \notin Range(<< >>)
  BY DEF Range
<1>5. ASSUME NEW m \in Msgs, NEW l \in Kinds, NEW t \in Spots, At(m, l, t)' PROVE At(m, l, t)
  BY <1>2, <1>3, <1>4, <1>5, MsgAssumption DEF At
<1> QED
  BY <1>2, <1>3, <1>5, NothingArrives

\* A message that is not passed on has no target, or is nowhere.
LEMMA OrderFind ==
  ASSUME RouteInv, PlaceInv, OrderInv, OneAfterAnother',
         UNCHANGED <<channel, queue, hand, deliveries>>,
         NEW x \in Msgs, progress[x] # "sent",
         \A m \in Msgs : m # x => target'[m] = target[m]
  PROVE  OrderInv'
<1>0. taken' = taken
  BY DEF taken
<1>1. \A m \in Msgs : \A l \in Kinds, t \in Spots : At(m, l, t)' <=> At(m, l, t)
  BY <1>0 DEF At
<1>2. \A l \in Kinds, t \in Spots : ~At(x, l, t)'
  BY <1>1 DEF PlaceInv, SpotOK, Live
<1>3. OnItsWay'
  <2> SUFFICES ASSUME NEW m \in Msgs, NEW s \in Servers
               PROVE  /\ At(m, "channel", s)' => target'[m] = s
                      /\ At(m, "queue", s)' \/ At(m, "hand", s)'
                           => s = IF target'[m] = NoServer THEN MsgFrom[m] ELSE target'[m]
    BY DEF OnItsWay
  <2>1. CASE m = x
    BY <1>2, <2>1 DEF Kinds, Spots
  <2>2. CASE m # x
    BY <1>1, <2>2 DEF Kinds, Spots, OrderInv, OnItsWay
  <2> QED
    BY <2>1, <2>2
<1>4. ASSUME NEW m \in Msgs, NEW n \in Msgs, SameWay(m, n)'
      PROVE  NotAhead(m, n)' /\ Behind(m, n)'
  <2>1. CASE m = x \/ n = x
    BY <1>2, <2>1, NowhereInOrder
  <2>2. CASE m # x /\ n # x
    <3>1. NotAhead(m, n) /\ Behind(m, n)
      BY <1>4, <2>2 DEF OrderInv, SameWay
    <3>2. NotAhead(m, n)'
      BY <1>1, <3>1 DEF NotAhead
    <3>3. Behind(m, n)'
      BY <1>0, <3>1 DEF Behind
    <3> QED
      BY <3>2, <3>3
  <2> QED
    BY <2>1, <2>2
<1> QED
  BY <1>3, <1>4 DEF OrderInv

\* A message enters a line: those after it have not been passed on, and those
\* before it that go the same way are not behind it.
LEMMA OrderEnter ==
  ASSUME RouteInv, PlaceInv, OrderInv, OneAfterAnother',
         NEW x \in Msgs, progress[x] # "sent", NEW s \in Servers, NEW k \in {"channel", "queue"},
         UNCHANGED <<hand, deliveries, target>>,
         k = "queue" => /\ queue' = Longer(queue, s, x) /\ UNCHANGED channel
                        /\ target[x] = NoServer /\ s = MsgFrom[x],
         k = "channel" => /\ channel' = Longer(channel, s, x) /\ UNCHANGED queue
                          /\ target[x] = s
  PROVE  OrderInv'
<1>0. queue \in [Servers -> Seq(Msgs)] /\ channel \in [Servers -> Seq(Msgs)]
  BY DEF RouteInv, RoutingTypeOK
<1>1. taken' = taken /\ hand' = hand
  BY DEF taken
<1>2. \A l \in Kinds, t \in Spots : ~At(x, l, t)
  BY DEF PlaceInv, SpotOK, Live
<1>3. ASSUME NEW t \in Servers
      PROVE  /\ \A y : y \in Range(queue'[t]) <=> y \in Range(queue[t]) \/ (k = "queue" /\ t = s /\ y = x)
             /\ \A y : y \in Range(channel'[t]) <=> y \in Range(channel[t]) \/ (k = "channel" /\ t = s /\ y = x)
  <2>1. CASE k = "queue"
    <3>1. queue' = Longer(queue, s, x) /\ channel' = channel
      BY <2>1
    <3>2. \A y : y \in Range(queue'[t]) <=> y \in Range(queue[t]) \/ (t = s /\ y = x)
      BY <1>0, <3>1, EnterLine
    <3> QED
      BY <2>1, <3>1, <3>2
  <2>2. CASE k = "channel"
    <3>1. channel' = Longer(channel, s, x) /\ queue' = queue
      BY <2>2
    <3>2. \A y : y \in Range(channel'[t]) <=> y \in Range(channel[t]) \/ (t = s /\ y = x)
      BY <1>0, <3>1, EnterLine
    <3> QED
      BY <2>2, <3>1, <3>2
  <2> QED
    BY <2>1, <2>2
<1>4. ASSUME NEW m \in Msgs, NEW l \in Kinds, NEW t \in Spots
      PROVE  At(m, l, t)' <=> At(m, l, t) \/ (m = x /\ l = k /\ t = s)
  <2>1. t \in Servers => /\ m \in Range(queue'[t]) <=> m \in Range(queue[t]) \/ (k = "queue" /\ t = s /\ m = x)
                         /\ m \in Range(channel'[t]) <=> m \in Range(channel[t]) \/ (k = "channel" /\ t = s /\ m = x)
    BY <1>3
  <2>2. k \in {"channel", "queue"} /\ s \in Servers
    OBVIOUS
  <2> QED
    BY <1>1, <2>1, <2>2 DEF At
<1>5. OnItsWay'
  <2> SUFFICES ASSUME NEW m \in Msgs, NEW t \in Servers
               PROVE  /\ At(m, "channel", t)' => target[m] = t
                      /\ At(m, "queue", t)' \/ At(m, "hand", t)'
                           => t = IF target[m] = NoServer THEN MsgFrom[m] ELSE target[m]
    BY DEF OnItsWay
  <2>1. /\ At(m, "channel", t)' => At(m, "channel", t) \/ (m = x /\ k = "channel" /\ t = s)
        /\ At(m, "queue", t)' => At(m, "queue", t) \/ (m = x /\ k = "queue" /\ t = s)
        /\ At(m, "hand", t)' => At(m, "hand", t)
    BY <1>4 DEF Kinds, Spots
  <2> QED
    BY <2>1 DEF OrderInv, OnItsWay
<1>6. ASSUME NEW m \in Msgs, NEW n \in Msgs, SameWay(m, n)'
      PROVE  NotAhead(m, n)' /\ Behind(m, n)'
  <2>0. SameWay(m, n) /\ NotAhead(m, n) /\ Behind(m, n) /\ m # n
    BY <1>6, MsgAssumption DEF OrderInv, SameWay
  <2>1. CASE m = x
    <3>1. progress[n] # "sent"
      BY <2>0, <2>1 DEF OrderInv, OneAfterAnother, SameWay
    <3>2. \A l \in Kinds, t \in Spots : ~At(n, l, t)
      BY <3>1 DEF PlaceInv, SpotOK, Live
    <3>3. \A l \in Kinds, t \in Spots : ~At(n, l, t)'
      BY <1>4, <2>0, <2>1, <3>2
    <3> QED
      BY <3>3, NowhereInOrder
  <2>2. CASE m # x
    <3>1. ASSUME NEW l \in Kinds, NEW t \in Spots, At(m, l, t), n = x PROVE Rank(l) >= Rank(k)
      <4>1. CASE k = "channel"
        BY <4>1 DEF Rank
      <4>2. CASE k = "queue"
        <5>1. target[m] = NoServer
          BY <2>0, <3>1, <4>2 DEF SameWay
        <5>2. l # "channel"
          BY <3>1, <5>1, NameAssumption DEF OrderInv, OnItsWay, At
        <5> QED
          BY <4>2, <5>2 DEF Rank, Kinds
      <4> QED
        BY <4>1, <4>2
    <3>2. NotAhead(m, n)'
      BY <1>4, <2>0, <2>2, <3>1, ArrivalInOrder DEF Arrives, Kinds, Spots
    <3>3. ASSUME NEW t \in Servers PROVE Before(channel'[t], m, n) /\ Before(queue'[t], m, n)
      <4>1. Before(channel[t], m, n) /\ Before(queue[t], m, n)
        BY <2>0 DEF Behind
      <4>2. CASE k = "queue"
        BY <1>0, <2>0, <2>2, <4>1, <4>2, EnterBehind
      <4>3. CASE k = "channel"
        BY <1>0, <2>0, <2>2, <4>1, <4>3, EnterBehind
      <4> QED
        BY <4>2, <4>3
    <3> QED
      BY <1>1, <2>0, <3>2, <3>3 DEF Behind
  <2> QED
    BY <2>1, <2>2
<1> QED
  BY <1>5, <1>6 DEF OrderInv

\* The listener moves the head of the channel: who goes the same way and is before
\* it has left the channel, who is behind it has not entered the queue.
LEMMA OrderListen ==
  ASSUME RouteInv, PlaceInv, OrderInv, OneAfterAnother', NEW s \in Servers, Listen(s)
  PROVE  OrderInv'
<1> DEFINE x == Head(channel[s])
<1>0. /\ queue \in [Servers -> Seq(Msgs)] /\ channel \in [Servers -> Seq(Msgs)]
      /\ channel[s] # << >> /\ channel[s] \in Seq(Msgs)
      /\ IsInjective(channel[s])
  BY DEF RouteInv, RoutingTypeOK, Listen, PlaceInv, LinesOK
<1>1. x \in Msgs /\ x \in Range(channel[s]) /\ At(x, "channel", s)
  BY <1>0, TailLine, RangeOfSeq DEF At
<1> HIDE DEF x
<1>2. /\ taken' = taken /\ hand' = hand /\ target' = target /\ channel' = Shorter(channel, s)
      /\ (queue' = queue \/ queue' = Longer(queue, s, x))
  BY DEF Listen, sendVars, dispatchVars, taken, Shorter, Longer, x
<1>3. ASSUME NEW t \in Servers
      PROVE  /\ \A y : y \in Range(channel'[t]) => y \in Range(channel[t])
             /\ \A y : y \in Range(queue'[t]) => y \in Range(queue[t]) \/ (t = s /\ y = x)
  <2>1. \A y : y \in Range(channel'[t]) => y \in Range(channel[t])
    <3>1. IsInjective(channel[t])
      BY DEF PlaceInv, LinesOK
    <3> QED
      BY <1>0, <1>2, <3>1, LeaveLine
  <2>2. CASE queue' = queue
    BY <2>1, <2>2
  <2>3. CASE queue' = Longer(queue, s, x)
    <3>1. \A y : y \in Range(queue'[t]) <=> y \in Range(queue[t]) \/ (t = s /\ y = x)
      BY <1>0, <1>1, <2>3, EnterLine
    <3> QED
      BY <2>1, <3>1
  <2> QED
    BY <1>2, <2>2, <2>3
<1>4. Arrives(x, "queue", s)
  BY <1>2, <1>3 DEF Arrives, At
<1>5. target[x] = s
  BY <1>1 DEF OrderInv, OnItsWay
<1>6. OnItsWay'
  <2> SUFFICES ASSUME NEW m \in Msgs, NEW t \in Servers
               PROVE  /\ At(m, "channel", t)' => target[m] = t
                      /\ At(m, "queue", t)' \/ At(m, "hand", t)'
                           => t = IF target[m] = NoServer THEN MsgFrom[m] ELSE target[m]
    BY <1>2 DEF OnItsWay
  <2>1. /\ At(m, "channel", t)' => At(m, "channel", t)
        /\ At(m, "queue", t)' => At(m, "queue", t) \/ (m = x /\ t = s)
        /\ At(m, "hand", t)' => At(m, "hand", t)
    BY <1>4 DEF Arrives, Kinds, Spots
  <2> QED
    BY <1>5, <2>1, NameAssumption DEF OrderInv, OnItsWay
<1>7. ASSUME NEW m \in Msgs, NEW n \in Msgs, SameWay(m, n)'
      PROVE  NotAhead(m, n)' /\ Behind(m, n)'
  <2>0. SameWay(m, n) /\ NotAhead(m, n) /\ Behind(m, n) /\ m # n
    BY <1>2, <1>7, MsgAssumption DEF OrderInv, SameWay
  <2>1. ASSUME x = m, NEW l \in Kinds, NEW t \in Spots, At(n, l, t) PROVE l = "channel"
    <3>1. Rank("channel") >= Rank(l)
      BY <1>1, <2>0, <2>1 DEF NotAhead, Kinds, Spots
    <3> QED
      BY <3>1 DEF Rank, Kinds
  <2>2. ASSUME x = n, NEW k \in Kinds, NEW t \in Spots, At(m, k, t) PROVE k # "channel"
    <3> SUFFICES ASSUME k = "channel" PROVE FALSE
      OBVIOUS
    <3>1. t = s
      BY <1>5, <2>0, <2>2 DEF SameWay, OrderInv, OnItsWay, At
    <3>2. m \in Range(channel[s]) /\ Before(channel[s], m, n)
      BY <2>0, <2>2, <3>1 DEF At, Behind
    <3> QED
      BY <1>0, <2>0, <2>2, <3>2, TailLine DEF x
  <2>3. NotAhead(m, n)'
    <3>1. x = m => \A l \in Kinds, t \in Spots : At(n, l, t) => Rank("queue") >= Rank(l)
      BY <2>1 DEF Rank
    <3>2. x = n => \A k \in Kinds, t \in Spots : At(m, k, t) => Rank(k) >= Rank("queue")
      BY <2>2 DEF Rank
    <3> QED
      BY <1>4, <2>0, <3>1, <3>2, ArrivalInOrder DEF Kinds, Spots
  <2>4. ASSUME NEW t \in Servers PROVE Before(channel'[t], m, n) /\ Before(queue'[t], m, n)
    <3>1. Before(channel[t], m, n) /\ Before(queue[t], m, n)
      BY <2>0 DEF Behind
    <3>2. Before(channel'[t], m, n)
      BY <1>0, <1>2, <3>1, LeaveBefore
    <3>3. x = m => n \notin Range(queue[s])
      BY <2>1 DEF At, Kinds, Spots
    <3>4. Before(Longer(queue, s, x)[t], m, n)
      BY <1>0, <1>1, <2>0, <3>1, <3>3, EnterBehind
    <3> QED
      BY <1>2, <3>1, <3>2, <3>4
  <2> QED
    BY <1>2, <2>0, <2>3, <2>4 DEF Behind
<1> QED
  BY <1>6, <1>7 DEF OrderInv

\* The goroutine of Run takes the head of the queue.
LEMMA OrderTake ==
  ASSUME RouteInv, PlaceInv, OrderInv, OneAfterAnother', NEW s \in Servers, TakeMessage(s)
  PROVE  OrderInv'
<1> DEFINE x == Head(queue[s])
<1>0. /\ queue \in [Servers -> Seq(Msgs)] /\ queue[s] # << >> /\ queue[s] \in Seq(Msgs)
      /\ IsInjective(queue[s]) /\ hand \in [Servers -> Msgs \cup {NoMsg}]
  BY DEF RouteInv, RoutingTypeOK, TakeMessage, PlaceInv, LinesOK
<1>1. x \in Msgs /\ x \in Range(queue[s]) /\ At(x, "queue", s)
  BY <1>0, TailLine, RangeOfSeq DEF At
<1> HIDE DEF x
<1>2. /\ taken' = taken /\ channel' = channel /\ target' = target /\ queue' = Shorter(queue, s)
      /\ (hand' = hand \/ hand' = [hand EXCEPT ![s] = x])
  BY DEF TakeMessage, sendVars, taken, Shorter, x
<1>3. ASSUME NEW t \in Servers
      PROVE  /\ \A y : y \in Range(queue'[t]) => y \in Range(queue[t])
             /\ \A y \in Msgs : hand'[t] = y => hand[t] = y \/ (t = s /\ y = x)
  <2>1. IsInjective(queue[t])
    BY DEF PlaceInv, LinesOK
  <2>2. \A y : y \in Range(queue'[t]) => y \in Range(queue[t])
    BY <1>0, <1>2, <2>1, LeaveLine
  <2>3. \A y \in Msgs : hand'[t] = y => hand[t] = y \/ (t = s /\ y = x)
    BY <1>0, <1>2
  <2> QED
    BY <2>2, <2>3
<1>4. Arrives(x, "hand", s)
  BY <1>2, <1>3 DEF Arrives, At
<1>5. s = IF target[x] = NoServer THEN MsgFrom[x] ELSE target[x]
  BY <1>1 DEF OrderInv, OnItsWay
<1>6. OnItsWay'
  <2> SUFFICES ASSUME NEW m \in Msgs, NEW t \in Servers
               PROVE  /\ At(m, "channel", t)' => target[m] = t
                      /\ At(m, "queue", t)' \/ At(m, "hand", t)'
                           => t = IF target[m] = NoServer THEN MsgFrom[m] ELSE target[m]
    BY <1>2 DEF OnItsWay
  <2>1. /\ At(m, "channel", t)' => At(m, "channel", t)
        /\ At(m, "queue", t)' => At(m, "queue", t)
        /\ At(m, "hand", t)' => At(m, "hand", t) \/ (m = x /\ t = s)
    BY <1>4 DEF Arrives, Kinds, Spots
  <2> QED
    BY <1>5, <2>1 DEF OrderInv, OnItsWay
<1>7. ASSUME NEW m \in Msgs, NEW n \in Msgs, SameWay(m, n)'
      PROVE  NotAhead(m, n)' /\ Behind(m, n)'
  <2>0. SameWay(m, n) /\ NotAhead(m, n) /\ Behind(m, n) /\ m # n
    BY <1>2, <1>7, MsgAssumption DEF OrderInv, SameWay
  <2>1. ASSUME x = m, NEW l \in Kinds, NEW t \in Spots, At(n, l, t) PROVE Rank("hand") >= Rank(l)
    <3>1. Rank("queue") >= Rank(l)
      BY <1>1, <2>0, <2>1 DEF NotAhead, Kinds, Spots
    <3> QED
      BY <3>1 DEF Rank, Kinds
  <2>2. ASSUME x = n, NEW k \in Kinds, NEW t \in Spots, At(m, k, t) PROVE Rank(k) >= Rank("hand")
    <3>1. Rank(k) >= Rank("queue")
      BY <1>1, <2>0, <2>2 DEF NotAhead, Kinds, Spots
    <3>2. k # "queue"
      <4> SUFFICES ASSUME k = "queue" PROVE FALSE
        OBVIOUS
      <4>1. t = s
        BY <1>5, <2>0, <2>2 DEF SameWay, OrderInv, OnItsWay, At
      <4>2. m \in Range(queue[s]) /\ Before(queue[s], m, n)
        BY <2>0, <2>2, <4>1 DEF At, Behind
      <4> QED
        BY <1>0, <2>0, <2>2, <4>2, TailLine DEF x
    <3> QED
      BY <3>1, <3>2 DEF Rank, Kinds
  <2>3. NotAhead(m, n)'
    BY <1>4, <2>0, <2>1, <2>2, ArrivalInOrder DEF Kinds, Spots
  <2>4. ASSUME NEW t \in Servers PROVE Before(channel'[t], m, n) /\ Before(queue'[t], m, n)
    <3>1. Before(channel[t], m, n) /\ Before(queue[t], m, n)
      BY <2>0 DEF Behind
    <3>2. Before(queue'[t], m, n)
      BY <1>0, <1>2, <3>1, LeaveBefore
    <3> QED
      BY <1>2, <3>1, <3>2
  <2> QED
    BY <1>2, <2>0, <2>3, <2>4 DEF Behind
<1> QED
  BY <1>6, <1>7 DEF OrderInv

\* A connection takes what the goroutine of Run has in its hand.
LEMMA OrderDeliver ==
  ASSUME RouteInv, PlaceInv, OrderInv, OneAfterAnother',
         NEW s \in Servers, NEW c \in Conns, Deliver(s, c)
  PROVE  OrderInv'
<1> DEFINE x == hand[s]
<1>0. hand \in [Servers -> Msgs \cup {NoMsg}] /\ RoutingTypeOK /\ taken \in Seq(Msgs)
  BY TakenLine DEF RouteInv, RoutingTypeOK
<1>1. x \in Msgs /\ At(x, "hand", s)
  BY TryingIsUp DEF RouteInv, Deliver, At
<1>2. /\ taken' = Append(taken, x) /\ UNCHANGED <<channel, queue, target>>
      /\ \A t \in Servers : hand'[t] = hand[t] \/ hand'[t] = NoMsg
  BY <1>0, <1>1, TakenMore DEF Deliver, sendVars, busVars
<1> HIDE DEF x
<1>3. Range(taken') = Range(taken) \cup {x}
  BY <1>0, <1>1, <1>2, AppendLine
<1>4. Arrives(x, "taken", NoServer)
  BY <1>2, <1>3, MsgAssumption DEF Arrives, At
<1>5. s = IF target[x] = NoServer THEN MsgFrom[x] ELSE target[x]
  BY <1>1 DEF OrderInv, OnItsWay
<1>6. OnItsWay'
  <2> SUFFICES ASSUME NEW m \in Msgs, NEW t \in Servers
               PROVE  /\ At(m, "channel", t)' => target[m] = t
                      /\ At(m, "queue", t)' \/ At(m, "hand", t)'
                           => t = IF target[m] = NoServer THEN MsgFrom[m] ELSE target[m]
    BY <1>2 DEF OnItsWay
  <2>1. /\ At(m, "channel", t)' => At(m, "channel", t)
        /\ At(m, "queue", t)' => At(m, "queue", t)
        /\ At(m, "hand", t)' => At(m, "hand", t)
    BY <1>4 DEF Arrives, Kinds, Spots
  <2> QED
    BY <2>1 DEF OrderInv, OnItsWay
<1>7. ASSUME NEW m \in Msgs, NEW n \in Msgs, SameWay(m, n)'
      PROVE  NotAhead(m, n)' /\ Behind(m, n)'
  <2>0. SameWay(m, n) /\ NotAhead(m, n) /\ Behind(m, n) /\ m # n
    BY <1>2, <1>7, MsgAssumption DEF OrderInv, SameWay
  <2>1. ASSUME x = m, NEW l \in Kinds, NEW t \in Spots, At(n, l, t) PROVE l # "taken"
    <3>1. Rank("hand") >= Rank(l)
      BY <1>1, <2>0, <2>1 DEF NotAhead, Kinds, Spots
    <3> QED
      BY <3>1 DEF Rank
  <2>2. ASSUME x = n, NEW k \in Kinds, NEW t \in Spots, At(m, k, t) PROVE k = "taken"
    <3>1. Rank(k) >= Rank("hand")
      BY <1>1, <2>0, <2>2 DEF NotAhead, Kinds, Spots
    <3>2. k # "hand"
      <4> SUFFICES ASSUME k = "hand" PROVE FALSE
        OBVIOUS
      <4>1. t = s /\ hand[s] = m
        BY <1>5, <2>0, <2>2 DEF SameWay, OrderInv, OnItsWay, At
      <4> QED
        BY <2>0, <2>2, <4>1 DEF x
    <3> QED
      BY <3>1, <3>2 DEF Rank, Kinds
  <2>3. NotAhead(m, n)'
    <3>1. x = m => \A l \in Kinds, t \in Spots : At(n, l, t) => Rank("taken") >= Rank(l)
      BY DEF Rank
    <3>2. x = n => \A k \in Kinds, t \in Spots : At(m, k, t) => Rank(k) >= Rank("taken")
      BY <2>2 DEF Rank
    <3> QED
      BY <1>4, <2>0, <3>1, <3>2, ArrivalInOrder DEF Kinds, Spots
  <2>4. Before(taken', m, n)
    <3>1. x = m => n \notin Range(taken)
      BY <2>1 DEF At, Kinds, Spots
    <3>2. Before(taken, m, n)
      BY <2>0 DEF Behind
    <3> QED
      BY <1>0, <1>1, <1>2, <2>0, <3>1, <3>2, AppendLine
  <2> QED
    BY <1>2, <2>0, <2>3, <2>4 DEF Behind
<1> QED
  BY <1>6, <1>7 DEF OrderInv

\* A message that is sent gets behind those which went before it.
LEMMA OrderSend ==
  ASSUME RouteInv, PlaceInv, OrderInv, OneAfterAnother', NEW x \in Msgs,
         ChooseWay(x) \/ EnqueueLocal(x) \/ FindLocal(x) \/ FindRoute(x) \/ Publish(x)
  PROVE  OrderInv'
<1>1. progress[x] # "sent" /\ MsgFrom[x] \in Servers
  BY MsgAssumption DEF ChooseWay, EnqueueLocal, FindLocal, FindRoute, Publish, Sending
<1>2. CASE UNCHANGED <<channel, queue, hand, deliveries, target>>
  BY <1>1, <1>2, OrderFind
<1>3. CASE ChooseWay(x)
  BY <1>2, <1>3 DEF ChooseWay, busVars, dispatchVars
<1>4. CASE EnqueueLocal(x)
  <2>1. CASE Len(queue[MsgFrom[x]]) < QueueCap
    <3>1. /\ queue' = Longer(queue, MsgFrom[x], x) /\ target[x] = NoServer
          /\ UNCHANGED <<channel, hand, deliveries, target>>
      BY <1>4, <2>1 DEF EnqueueLocal, Longer, dispatchVars, Sending, RouteInv, TargetOK
    <3> QED
      BY <1>1, <3>1, OrderEnter
  <2>2. CASE ~(Len(queue[MsgFrom[x]]) < QueueCap)
    BY <1>2, <1>4, <2>2 DEF EnqueueLocal, dispatchVars
  <2> QED
    BY <2>1, <2>2
<1>5. CASE FindLocal(x) \/ FindRoute(x)
  <2>1. UNCHANGED <<channel, queue, hand, deliveries>>
    BY <1>5 DEF FindLocal, FindRoute, busVars, dispatchVars
  <2>2. \E s : target' = target \/ target' = [target EXCEPT ![x] = s]
    BY <1>5 DEF FindLocal, FindRoute
  <2>3. \A m \in Msgs : m # x => target'[m] = target[m]
    BY <2>2 DEF RouteInv, RoutingTypeOK
  <2> QED
    BY <1>1, <2>1, <2>3, OrderFind
<1>6. CASE Publish(x)
  <2>1. target[x] \in Servers
    BY <1>6 DEF Publish, Sending, RouteInv, TargetOK
  <2>2. CASE channel' = Longer(channel, target[x], x)
    <3>1. UNCHANGED <<queue, hand, deliveries, target>>
      BY <1>6 DEF Publish, dispatchVars
    <3>2. PICK s \in Servers : s = target[x]
      BY <2>1
    <3> QED
      BY <1>1, <2>2, <3>1, <3>2, OrderEnter
  <2> QED
    BY <1>2, <1>6, <2>2 DEF Publish, dispatchVars, Longer
<1> QED
  BY <1>3, <1>4, <1>5, <1>6

\* Every other step moves the head of a line to the end of the next, or to the hand.
LEMMA OrderStep ==
  ASSUME RouteInv, PlaceInv, OrderInv, [RoutingNext]_allVars
  PROVE  OrderInv'
<1>0. OneAfterAnother'
  BY AfterStep
<1>1. CASE /\ UNCHANGED <<channel, queue, deliveries, target>>
           /\ \A s \in Servers : hand'[s] = hand[s] \/ hand'[s] = NoMsg
  <2>1. taken' = taken
    BY <1>1 DEF taken
  <2>2. \A m \in Msgs : \A l \in Kinds, t \in Spots : At(m, l, t)' => At(m, l, t)
    BY <1>1, <2>1, MsgAssumption DEF At
  <2> QED
    BY <1>0, <1>1, <2>1, <2>2, NothingArrives
<1>2. ASSUME NEW s \in Servers, GiveUp(s) PROVE OrderInv'
  BY <1>1, <1>2 DEF GiveUp, sendVars, busVars, RouteInv, RoutingTypeOK
<1> QED
  BY <1>0, <1>1, <1>2, OrderManager, OrderSend, OrderListen, OrderTake, OrderDeliver, RoutingSteps
  DEF allVars, routingVars, sendVars, busVars, CollectConns, SkipFull, UnregisterClosed

\* No message is anywhere in the beginning.
LEMMA OrderInit ==
  ASSUME RoutingInit
  PROVE  OrderInv
<1>1. taken = << >> /\ Range(<< >>) = {}
  BY DEF RoutingInit, taken, Range
<1>2. \A m \in Msgs : \A l \in Kinds, t \in Spots : ~At(m, l, t)
  BY <1>1, MsgAssumption DEF RoutingInit, At
<1>3. OneAfterAnother
  BY DEF RoutingInit, OneAfterAnother
<1>4. OnItsWay
  BY <1>2 DEF OnItsWay, Kinds, Spots
<1>5. ASSUME NEW m \in Msgs, NEW n \in Msgs PROVE NotAhead(m, n) /\ Behind(m, n)
  <2>1. NotAhead(m, n)
    BY <1>2 DEF NotAhead
  <2>2. Before(<< >>, m, n)
    BY DEF Before
  <2> QED
    BY <1>1, <2>1, <2>2 DEF Behind, RoutingInit
<1> QED
  BY <1>3, <1>4, <1>5 DEF OrderInv

\* Of two messages of one sender that go the same way, the later one is never
\* further, and never before the other where both are.
THEOREM OrderInvariant == RoutingSpec => []OrderInv
<1>1. RouteInv /\ PlaceInv /\ OrderInv /\ [RoutingNext]_allVars => OrderInv'
  BY OrderStep
<1> QED
  BY <1>1, OrderInit, RouteInvariant, PlaceInvariant, PTL DEF RoutingSpec

\* SameWayInOrder: two messages of one sender to one recipient that went the same
\* way are taken in the order in which they were sent.
THEOREM TakenInOrder == RoutingSpec => []SameWayInOrder
<1>1. RouteInv /\ PlaceInv /\ OrderInv => SameWayInOrder
  <2> SUFFICES ASSUME RouteInv, PlaceInv, OrderInv,
                      NEW i \in DOMAIN deliveries, NEW j \in DOMAIN deliveries, i < j,
                      MsgFrom[deliveries[i].msg] = MsgFrom[deliveries[j].msg],
                      MsgTo[deliveries[i].msg] = MsgTo[deliveries[j].msg],
                      target[deliveries[i].msg] = target[deliveries[j].msg]
               PROVE  deliveries[i].msg < deliveries[j].msg
    BY DEF SameWayInOrder
  <2>1. /\ DOMAIN taken = DOMAIN deliveries
        /\ taken[i] = deliveries[i].msg /\ taken[j] = deliveries[j].msg
        /\ taken \in Seq(Msgs)
    BY TakenLine DEF RouteInv
  <2>2. DOMAIN taken = 1 .. Len(taken) /\ taken[i] \in Msgs /\ taken[j] \in Msgs
        /\ i \in Int /\ j \in Int
    BY <2>1, LenProperties, ElementOfSeq
  <2>3. taken[i] # taken[j]
    BY <2>1, <2>2 DEF PlaceInv, LinesOK, IsInjective
  <2>4. ~SameWay(taken[j], taken[i])
    <3> SUFFICES ASSUME SameWay(taken[j], taken[i]) PROVE FALSE
      OBVIOUS
    <3>1. Before(taken, taken[j], taken[i])
      BY <2>2 DEF OrderInv, Behind
    <3>2. j < i
      BY <2>1, <3>1 DEF Before
    <3> QED
      BY <2>2, <3>2
  <2>5. ~(taken[j] < taken[i])
    BY <2>1, <2>4 DEF SameWay
  <2>6. taken[i] \in Nat /\ taken[j] \in Nat
    BY <2>2, MsgAssumption
  <2> QED
    BY <2>1, <2>3, <2>5, <2>6
<1> QED
  BY <1>1, RouteInvariant, PlaceInvariant, OrderInvariant, PTL

-----------------------------------------------------------------------------
(* No message is lost while its recipient is reachable.                    *)

\* A server that is down serves no connection.
DownServesNone ==
  \A c \in Conns : stage[ConnServer[c]] = "down" => pc[c] \in {"idle", "gone"}

\* A process that is gone takes its handlers with it, and none starts before it
\* is up again.
THEOREM DownServesNoneTheorem == Spec => []DownServesNone
<1>1. Init => DownServesNone
  BY ConnAssumption DEF Init, DownServesNone, Procs
<1>2. TypeOK /\ DownServesNone /\ [Next]_vars => DownServesNone'
  <2> SUFFICES ASSUME TypeOK, DownServesNone, [Next]_vars,
                      NEW c \in Conns, stage'[ConnServer[c]] = "down"
               PROVE  pc'[c] \in {"idle", "gone"}
    BY DEF DownServesNone
  <2> USE ConnAssumption, NameAssumption
      DEF TypeOK, mapVars, memoryVars, redisVars, procVars, serverVars, Goto
  <2>0. c \in Procs /\ c \notin Servers /\ ConnServer[c] \in Servers
    BY DEF Procs
  <2>1. stage[ConnServer[c]] = "down" => pc[c] \in {"idle", "gone"}
    BY DEF DownServesNone
  <2>2. ASSUME NEW p \in Procs, UnregisterConnection(p) PROVE pc'[c] \in {"idle", "gone"}
    <3>1. pc[p] \in UnregisterSteps /\ UNCHANGED stage
      BY <2>2 DEF UnregisterConnection, Remove, CloseRemoved, CheckOthers, DeleteLocalUser, DeleteRoute,
                  DeleteMember, RecheckOthers, MarkOffline, UnregisterSteps
    <3>2. p # c
      BY <2>1, <3>1 DEF UnregisterSteps
    <3>3. \E step : pc' = [pc EXCEPT ![p] = step]
      BY <2>2 DEF UnregisterConnection, Remove, CloseRemoved, CheckOthers, DeleteLocalUser, DeleteRoute,
                  DeleteMember, RecheckOthers, MarkOffline
    <3> QED
      BY <2>0, <2>1, <3>1, <3>2, <3>3
  <2>3. ASSUME NEW d \in Conns, \/ AddConnection(d) \/ AddLocalUser(d) \/ SetRoute(d)
                                \/ AddMember(d) \/ MarkOnline(d) \/ AnnounceOnline(d) \/ AnnounceOffline(d)
        PROVE  pc'[c] \in {"idle", "gone"}
    <3>1. /\ pc[d] \notin {"idle", "gone"} /\ UNCHANGED stage
          /\ \E step : pc' = [pc EXCEPT ![d] = step]
      BY <2>3 DEF AddConnection, AddLocalUser, SetRoute, AddMember, MarkOnline, AnnounceOnline, AnnounceOffline
    <3> QED
      BY <2>0, <2>1, <3>1
  <2>4. ASSUME NEW d \in Conns, Accept(d) PROVE pc'[c] \in {"idle", "gone"}
    <3>1. stage[ConnServer[d]] = "up" /\ UNCHANGED stage /\ \E step : pc' = [pc EXCEPT ![d] = step]
      BY <2>4 DEF Accept
    <3> QED
      BY <2>0, <2>1, <3>1
  <2>5. ASSUME NEW s \in Servers, NEW u \in Addressees, DropClosed(s, u) PROVE pc'[c] \in {"idle", "gone"}
    BY <2>0, <2>1, <2>5 DEF DropClosed
  <2>6. ASSUME NEW s \in Servers, ProcessGone(s) PROVE pc'[c] \in {"idle", "gone"}
    <3>1. CASE ConnServer[c] = s
      BY <2>0, <2>6, <3>1 DEF ProcessGone
    <3>2. CASE ConnServer[c] # s
      <4>1. pc'[c] = pc[c] /\ stage'[ConnServer[c]] = stage[ConnServer[c]]
        BY <2>0, <2>6, <3>2 DEF ProcessGone
      <4> QED
        BY <2>1, <4>1
    <3> QED
      BY <3>1, <3>2
  <2>7. ASSUME NEW s \in Servers, BeginStop(s) \/ ReadMembers(s) \/ DeleteMembers(s) \/ CloseAll(s) \/ Restart(s)
        PROVE  pc'[c] \in {"idle", "gone"}
    <3>1. UNCHANGED pc /\ \E step \in Stages \ {"down"} : stage' = [stage EXCEPT ![s] = step]
      BY <2>7 DEF BeginStop, ReadMembers, DeleteMembers, CloseAll, Restart, Stages
    <3> QED
      BY <2>0, <2>1, <3>1
  <2>8. CASE UNCHANGED <<pc, stage>>
    BY <2>1, <2>8
  <2> QED
    BY <2>2, <2>3, <2>4, <2>5, <2>6, <2>7, <2>8, NextSteps
    DEF vars, SweepUser, RouteExpires, ReaderCloses
<1> QED
  BY <1>1, <1>2, TypeInvariant, PTL DEF Spec

\* The recipient uses one server, nobody stops it or the sender's, and Redis and
\* the send buffers take what they are given.
Safe(m) == RedisEnabled /\ ~RedisMayFail /\ ~BuffersFill /\ OneServer(m) /\ NoStop(m)

\* The server a message goes to.
Dest(m) == IF target[m] = NoServer THEN MsgFrom[m] ELSE target[m]

\* A message that can reach connection c does: it goes to the server of c, and
\* whoever has it in hand has c still to try.
Follows(m, c) ==
  /\ fate[m] \notin {"stored", "unheard", "notHere"}
  /\ progress[m] \in {"enqueue", "publish", "sent"} /\ fate[m] = "none" => Dest(m) = ConnServer[c]
  /\ \A s \in Servers : hand[s] = m => c \in tries[s] /\ (phase[s] = "collect" => stale[s] = FALSE)

ReachOK(m) ==
  /\ progress[m] = "new" => reachable[m] = {}
  /\ reachable[m] \subseteq ReachableConns(MsgTo[m])
  /\ Safe(m) => \A c \in reachable[m] : Follows(m, c)
ReachInv == \A m \in Msgs : ReachOK(m)

\* What the steps rest on.
Ground == RouteInv /\ PlaceInv /\ OrderInv /\ NoGhostLocalUser /\ DownServesNone /\ NeverStopped

\* The history keeps a connection only while it is reachable.
LEMMA KeptReachable ==
  ASSUME RouteInv, KeepReachable, NEW m \in Msgs
  PROVE  /\ progress'[m] = "new" /\ reachable[m] = {} => reachable'[m] = {}
         /\ progress[m] # "new" => reachable'[m] \subseteq reachable[m]
         /\ progress'[m] # "new" => reachable'[m] \subseteq ReachableConns(MsgTo[m])'
BY DEF KeepReachable

\* A server of a reachable connection is up, when nobody stops it.
LEMMA ServingIsUp ==
  ASSUME Ground, NEW m \in Msgs, Safe(m), NEW c \in ReachableConns(MsgTo[m])
  PROVE  stage[ConnServer[c]] = "up"
BY ConnAssumption DEF Ground, DownServesNone, NeverStopped, Safe, NoStop, ReachableConns

\* A recipient known to the sender's server uses that one.
LEMMA LocalIsThere ==
  ASSUME Ground, NEW m \in Msgs, Safe(m), NEW c \in ReachableConns(MsgTo[m]),
         MsgTo[m] \in localUsers[MsgFrom[m]]
  PROVE  ConnServer[c] = MsgFrom[m]
<1>1. MsgFrom[m] \in Servers
  BY MsgAssumption
<1>2. PICK d \in Conns : ConnServer[d] = MsgFrom[m] /\ ConnUser[d] = MsgTo[m]
  BY <1>1 DEF Ground, NoGhostLocalUser
<1> QED
  BY <1>2 DEF Safe, OneServer, ReachableConns

\* A message that is not passed on is in nobody's hand.
LEMMA NotInHand ==
  ASSUME PlaceInv, NEW m \in Msgs, progress[m] # "sent", NEW s \in Servers
  PROVE  hand[s] # m
BY DEF PlaceInv, SpotOK, Live, At, Kinds, Spots

\* A message whose sending has not begun: only the choice of its way begins it.
LEMMA ReachChoose ==
  ASSUME Ground, ReachInv, KeepReachable, NEW m \in Msgs, ChooseWay(m), UNCHANGED vars
  PROVE  ReachOK(m)'
<1>0. /\ progress \in [Msgs -> {"new", "enqueue", "find", "get", "publish", "sent"}]
      /\ fate \in [Msgs -> Fates] /\ progress[m] = "new" /\ target[m] = NoServer /\ fate[m] = "none"
  BY DEF ChooseWay, Sending, Ground, RouteInv, RoutingTypeOK, TargetOK, PlaceInv, FateOK
<1>1. progress'[m] # "new" /\ target'[m] = NoServer /\ hand' = hand
  <2>1. Advance(m, "enqueue") \/ Advance(m, "find") \/ Advance(m, "sent")
    BY DEF ChooseWay
  <2> QED
    BY <1>0, <2>1 DEF Advance, ChooseWay, dispatchVars
<1>2. reachable'[m] \subseteq ReachableConns(MsgTo[m])'
  BY <1>1, KeptReachable DEF Ground
<1>3. ReachableConns(MsgTo[m])' = ReachableConns(MsgTo[m])
  BY DEF ReachableConns, Reachable, vars
<1>4. ASSUME Safe(m), NEW c \in ReachableConns(MsgTo[m]) PROVE Follows(m, c)'
  <2>1. /\ fate' = fate
        /\ \/ Advance(m, "find")
           \/ Advance(m, "enqueue") /\ MsgTo[m] \in localUsers[MsgFrom[m]]
    BY <1>4 DEF ChooseWay, Safe
  <2>2. /\ fate'[m] = "none"
        /\ progress'[m] \in {"find", "enqueue"}
        /\ progress'[m] = "enqueue" => ConnServer[c] = MsgFrom[m]
    BY <1>0, <1>4, <2>1, LocalIsThere DEF Advance
  <2>3. \A s \in Servers : hand'[s] # m
    BY <1>0, <1>1, NotInHand DEF Ground
  <2> QED
    BY <1>1, <2>2, <2>3 DEF Follows, Dest
<1> QED
  BY <1>1, <1>2, <1>3, <1>4 DEF ReachOK, Safe, OneServer, NoStop

\* Once its sending has begun, a message follows the connections it can reach: it
\* is enough to look at one of those.
LEMMA ReachGoesOn ==
  ASSUME Ground, ReachInv, KeepReachable, NEW m \in Msgs,
         progress[m] = "new" => progress'[m] = "new",
         progress[m] # "new" => progress'[m] # "new",
         \A c \in Conns :
           /\ Safe(m) /\ progress[m] # "new" /\ Follows(m, c)
           /\ c \in ReachableConns(MsgTo[m]) /\ c \in ReachableConns(MsgTo[m])'
           => Follows(m, c)'
  PROVE  ReachOK(m)'
<1>1. CASE progress[m] = "new"
  <2>1. progress'[m] = "new" /\ reachable'[m] = {}
    BY <1>1, KeptReachable DEF ReachInv, ReachOK, Ground
  <2> QED
    BY <2>1 DEF ReachOK
<1>2. CASE progress[m] # "new"
  <2>1. /\ progress'[m] # "new" /\ reachable'[m] \subseteq reachable[m]
        /\ reachable'[m] \subseteq ReachableConns(MsgTo[m])'
        /\ reachable[m] \subseteq ReachableConns(MsgTo[m])
    BY <1>2, KeptReachable DEF ReachInv, ReachOK, Ground
  <2>2. ASSUME Safe(m), NEW c \in reachable'[m] PROVE Follows(m, c)'
    <3>1. c \in Conns /\ Follows(m, c)
      BY <2>1, <2>2 DEF ReachInv, ReachOK, ReachableConns
    <3> QED
      BY <1>2, <2>1, <2>2, <3>1
  <2> QED
    BY <2>1, <2>2 DEF ReachOK, Safe, OneServer, NoStop
<1> QED
  BY <1>1, <1>2

\* The manager's steps leave a message with the connections it has to try, as
\* long as those are in the map.
LEMMA ReachManager ==
  ASSUME Ground, ManagerStep, NEW m \in Msgs, NEW c \in ReachableConns(MsgTo[m])',
         progress[m] # "new", Follows(m, c)
  PROVE  Follows(m, c)'
<1>1. Carried
  BY DEF ManagerStep
<1>2. /\ fate'[m] = fate[m] \/ fate'[m] = "lost"
      /\ fate'[m] # "lost" => progress'[m] = progress[m]
      /\ target'[m] = target[m]
  BY <1>1, CarriedMessage DEF FateOK
<1>3. ASSUME NEW s \in Servers, hand'[s] = m
      PROVE  c \in tries'[s] /\ (phase'[s] = "collect" => stale'[s] = FALSE)
  <2>1. ~Dies(s) /\ hand[s] = m /\ phase'[s] = phase[s]
    BY <1>1, <1>3, CarriedServer, MsgAssumption
  <2>2. c \in tries[s] /\ (phase[s] = "collect" => stale[s] = FALSE)
    BY <2>1 DEF Follows
  <2>3. ConnServer[c] = s /\ ConnUser[c] = MsgTo[hand[s]]
    BY <2>2 DEF Ground, RouteInv, RoutingTypeOK
  <2>4. c \in After(s)
    BY <2>3 DEF After, ReachableConns, Reachable
  <2> QED
    BY <1>1, <2>1, <2>2, <2>4, CarriedServer
<1> QED
  BY <1>2, <1>3 DEF Follows, Dest

\* The sender's steps after the choice.
LEMMA ReachSend ==
  ASSUME Ground, NEW x \in Msgs, EnqueueLocal(x) \/ FindLocal(x) \/ FindRoute(x) \/ Publish(x),
         NEW m \in Msgs, NEW c \in ReachableConns(MsgTo[m]),
         Safe(m), Follows(m, c)
  PROVE  Follows(m, c)'
<1>0. /\ progress \in [Msgs -> {"new", "enqueue", "find", "get", "publish", "sent"}]
      /\ fate \in [Msgs -> Fates] /\ target \in [Msgs -> Servers \cup {NoServer}]
  BY DEF Ground, RouteInv, RoutingTypeOK
<1>1. UNCHANGED <<hand, phase, stale, tries>>
  BY DEF EnqueueLocal, FindLocal, FindRoute, Publish, dispatchVars
<1>2. CASE x # m
  <2>1. /\ \E step : Advance(x, step)
        /\ fate' = fate \/ \E how : End(x, how)
        /\ target' = target \/ \E s : target' = [target EXCEPT ![x] = s]
    BY DEF EnqueueLocal, FindLocal, FindRoute, Publish
  <2>2. progress'[m] = progress[m] /\ fate'[m] = fate[m] /\ target'[m] = target[m]
    BY <1>0, <1>2, <2>1 DEF Advance, End
  <2> QED
    BY <1>1, <2>2 DEF Follows, Dest
<1>3. CASE x = m
  <2>1. fate[m] = "none" /\ progress[m] # "sent"
    BY <1>3 DEF EnqueueLocal, FindLocal, FindRoute, Publish, Sending, Ground, PlaceInv, FateOK
  <2>2. ASSUME /\ fate'[m] \notin {"stored", "unheard", "notHere"}
               /\ progress'[m] \in {"enqueue", "publish", "sent"} /\ fate'[m] = "none" => Dest(m)' = ConnServer[c]
        PROVE  Follows(m, c)'
    BY <1>1, <2>2 DEF Follows
  <2>3. CASE EnqueueLocal(m)
    <3>1. /\ progress[m] = "enqueue" /\ target' = target
          /\ fate' = fate \/ End(m, "rejected")
      BY <2>3 DEF EnqueueLocal, Sending
    <3>2. fate'[m] \in {"none", "rejected"} /\ Dest(m)' = ConnServer[c]
      BY <1>0, <2>1, <3>1 DEF End, Dest, Follows
    <3> QED
      BY <2>2, <3>2
  <2>4. CASE FindLocal(m)
    <3>1. fate' = fate
      BY <2>4 DEF FindLocal
    <3>2. CASE MsgTo[m] \in localUsers[MsgFrom[m]]
      <4>0. MsgFrom[m] \in Servers /\ MsgFrom[m] # NoServer
        BY MsgAssumption, NameAssumption
      <4>1. target'[m] = MsgFrom[m] /\ MsgFrom[m] # NoServer
        BY <1>0, <2>4, <3>2, <4>0 DEF FindLocal
      <4> QED
        BY <2>1, <2>2, <3>1, <3>2, <4>1, LocalIsThere DEF Dest
    <3>3. CASE MsgTo[m] \notin localUsers[MsgFrom[m]]
      <4>1. progress'[m] = "get"
        BY <1>0, <2>4, <3>3 DEF FindLocal, Advance
      <4> QED
        BY <2>1, <2>2, <3>1, <4>1
    <3> QED
      BY <3>2, <3>3
  <2>5. CASE FindRoute(m)
    <3>1. registry[MsgTo[m]] = ConnServer[c] /\ ConnServer[c] # NoServer
      BY ConnAssumption, NameAssumption DEF ReachableConns, Reachable, Safe
    <3>2. ~RedisFails(MsgFrom[m])
      <4>1. stage[MsgFrom[m]] # "closed"
        BY MsgAssumption DEF Ground, NeverStopped, Safe, NoStop
      <4> QED
        BY <4>1 DEF RedisFails, Safe
    <3>3. fate' = fate /\ target' = [target EXCEPT ![m] = registry[MsgTo[m]]]
      BY <2>5, <3>1, <3>2 DEF FindRoute
    <3> QED
      BY <1>0, <2>1, <2>2, <3>1, <3>3 DEF Dest
  <2>6. CASE Publish(m)
    <3>1. target[m] \in Servers /\ target[m] # NoServer /\ progress[m] = "publish" /\ target' = target
      BY <2>6, NameAssumption DEF Publish, Sending, Ground, RouteInv, TargetOK
    <3>2. target[m] = ConnServer[c]
      BY <2>1, <3>1 DEF Follows, Dest
    <3>3. stage[target[m]] = "up"
      BY <3>2, ServingIsUp
    <3>4. stage[MsgFrom[m]] = "up"
      BY <2>6, MsgAssumption DEF Publish, Sending, Ground, NeverStopped, Safe, NoStop
    <3>5. fate' = fate
      BY <2>6, <3>3, <3>4 DEF Publish, Safe
    <3> QED
      BY <2>1, <2>2, <3>1, <3>2, <3>5 DEF Dest
  <2> QED
    BY <1>3, <2>3, <2>4, <2>5, <2>6
<1> QED
  BY <1>2, <1>3

\* The listener's.
LEMMA ReachListen ==
  ASSUME Ground, NEW s \in Servers, Listen(s), NEW m \in Msgs, NEW c \in Conns, Follows(m, c)
  PROVE  Follows(m, c)'
<1>1. fate' = fate \/ \E x : End(x, "dropped")
  BY DEF Listen
<1>2. fate'[m] = fate[m] \/ fate'[m] = "dropped"
  BY <1>1 DEF End, Ground, RouteInv, RoutingTypeOK
<1>3. UNCHANGED <<progress, target, hand, phase, stale, tries>>
  BY DEF Listen, sendVars, dispatchVars
<1> QED
  BY <1>2, <1>3 DEF Follows, Dest

\* The goroutine of Run finds the connections of the recipient in the map.
LEMMA ReachTake ==
  ASSUME Ground, NEW s \in Servers, TakeMessage(s), NEW m \in Msgs,
         NEW c \in ReachableConns(MsgTo[m]), Follows(m, c)
  PROVE  Follows(m, c)'
<1> DEFINE x == Head(queue[s])
<1>0. /\ fate \in [Msgs -> Fates] /\ hand \in [Servers -> Msgs \cup {NoMsg}]
      /\ phase \in [Servers -> {"take", "collect", "try"}] /\ stale \in [Servers -> BOOLEAN]
      /\ tries \in [Servers -> SUBSET Conns] /\ queue[s] \in Seq(Msgs) /\ queue[s] # << >>
  BY DEF TakeMessage, Ground, RouteInv, RoutingTypeOK
<1>1. UNCHANGED <<progress, target>>
  BY DEF TakeMessage, sendVars
<1>2. x = m => m \in Range(queue[s])
  BY <1>0, TailLine
<1>3. x = m => ConnServer[c] = s /\ HasOtherConns(s, MsgTo[m]) /\ c \in UserConns(s, MsgTo[m])
  <2> SUFFICES ASSUME x = m
               PROVE  ConnServer[c] = s /\ HasOtherConns(s, MsgTo[m]) /\ c \in UserConns(s, MsgTo[m])
    OBVIOUS
  <2>1. At(m, "queue", s)
    BY <1>2 DEF At
  <2>2. Live(m) /\ Dest(m) = s
    BY <2>1, OnlySpot DEF Ground, OrderInv, OnItsWay, Dest, PlaceInv, SpotOK, Kinds, Spots
  <2>3. ConnServer[c] = s
    BY <2>2 DEF Live, Follows
  <2> QED
    BY <2>3 DEF UserConns, HasOtherConns, ReachableConns, Reachable
<1>4. CASE HasOtherConns(s, MsgTo[x])
  <2>1. /\ hand' = [hand EXCEPT ![s] = x]
        /\ stale' = [stale EXCEPT ![s] = FALSE]
        /\ tries' = [tries EXCEPT ![s] = UserConns(s, MsgTo[x])]
        /\ phase' = [phase EXCEPT ![s] = "collect"] /\ fate' = fate
    BY <1>4 DEF TakeMessage
  <2> HIDE DEF x
  <2>2. ASSUME NEW t \in Servers, hand'[t] = m
        PROVE  c \in tries'[t] /\ (phase'[t] = "collect" => stale'[t] = FALSE)
    <3>1. CASE t = s
      BY <1>0, <1>3, <2>1, <2>2, <3>1
    <3>2. CASE t # s
      BY <1>0, <2>1, <2>2, <3>2 DEF Follows
    <3> QED
      BY <3>1, <3>2
  <2> QED
    BY <1>1, <2>1, <2>2 DEF Follows, Dest
<1>5. CASE ~HasOtherConns(s, MsgTo[x])
  <2>1. x # m /\ End(x, "notHere") /\ UNCHANGED <<hand, phase, stale, tries>>
    BY <1>3, <1>5 DEF TakeMessage
  <2> HIDE DEF x
  <2>2. fate'[m] = fate[m]
    BY <1>0, <2>1 DEF End
  <2> QED
    BY <1>1, <2>1, <2>2 DEF Follows, Dest
<1> QED
  BY <1>4, <1>5

\* It tries them one after the other, and a reachable one is not closed.
LEMMA ReachTry ==
  ASSUME Ground, NEW s \in Servers,
         \/ CollectConns(s) \/ GiveUp(s)
         \/ \E d \in Conns : Deliver(s, d) \/ SkipFull(s, d) \/ UnregisterClosed(s, d),
         NEW m \in Msgs, NEW c \in ReachableConns(MsgTo[m]), Safe(m), Follows(m, c)
  PROVE  Follows(m, c)'
<1>0. /\ fate \in [Msgs -> Fates] /\ hand \in [Servers -> Msgs \cup {NoMsg}]
      /\ phase \in [Servers -> {"take", "collect", "try"}] /\ stale \in [Servers -> BOOLEAN]
      /\ tries \in [Servers -> SUBSET Conns] /\ c \notin closed
  BY DEF Ground, RouteInv, RoutingTypeOK, ReachableConns
<1>1. UNCHANGED <<progress, target>>
  BY DEF CollectConns, GiveUp, Deliver, SkipFull, UnregisterClosed, sendVars
<1>2. CASE CollectConns(s)
  BY <1>0, <1>1, <1>2 DEF CollectConns, Follows, Dest
<1>3. CASE GiveUp(s)
  <2>1. hand[s] # m
    BY <1>3 DEF GiveUp, Follows
  <2>2. fate'[m] = fate[m]
    BY <1>0, <1>3, <2>1 DEF GiveUp, End
  <2>3. ASSUME NEW t \in Servers, hand'[t] = m
        PROVE  c \in tries'[t] /\ (phase'[t] = "collect" => stale'[t] = FALSE)
    BY <1>0, <1>3, <2>3, MsgAssumption DEF GiveUp, Follows
  <2> QED
    BY <1>1, <2>2, <2>3 DEF Follows, Dest
<1>4. ASSUME NEW d \in Conns, Deliver(s, d) PROVE Follows(m, c)'
  <2>1. ASSUME NEW t \in Servers, hand'[t] = m
        PROVE  c \in tries'[t] /\ (phase'[t] = "collect" => stale'[t] = FALSE)
    BY <1>0, <1>4, <2>1, MsgAssumption DEF Deliver, Follows
  <2> QED
    BY <1>1, <1>4, <2>1 DEF Deliver, Follows, Dest
<1>5. ASSUME NEW d \in Conns, UnregisterClosed(s, d) PROVE Follows(m, c)'
  <2>1. d # c /\ tries' = [tries EXCEPT ![s] = @ \ {d}] /\ UNCHANGED <<hand, phase, stale, fate>>
    BY <1>0, <1>5 DEF UnregisterClosed
  <2>2. \A t \in Servers : c \in tries[t] => c \in tries'[t]
    BY <1>0, <2>1
  <2> QED
    BY <1>1, <2>1, <2>2 DEF Follows, Dest
<1>6. ASSUME NEW d \in Conns, SkipFull(s, d) PROVE FALSE
  BY <1>6 DEF SkipFull, Safe
<1> QED
  BY <1>2, <1>3, <1>4, <1>5, <1>6

\* No step ends, or moves past its recipient, a message that can still reach it.
LEMMA ReachStep ==
  ASSUME Ground, ReachInv, [RoutingNext]_allVars
  PROVE  ReachInv'
<1> SUFFICES ASSUME NEW m \in Msgs PROVE ReachOK(m)'
  BY DEF ReachInv
<1>1. CASE UNCHANGED allVars
  <2>1. ReachOK(m)
    BY DEF ReachInv
  <2> QED
    BY <1>1, <2>1 DEF allVars, routingVars, vars, ReachOK, Safe, OneServer, NoStop, Follows, Dest,
                      ReachableConns, Reachable
<1>2. CASE ChooseWay(m) /\ UNCHANGED vars /\ KeepReachable
  BY <1>2, ReachChoose
<1>3. CASE ~ChooseWay(m) /\ ~UNCHANGED allVars
  <2>1. progress[m] = "new" => progress'[m] = "new"
    BY <1>3, ProgressGoesOn DEF Ground
  <2>2. progress[m] # "new" => progress'[m] # "new"
    <3>1. progress \in [Msgs -> {"new", "enqueue", "find", "get", "publish", "sent"}]
      BY DEF Ground, RouteInv, RoutingTypeOK
    <3>2. CASE ManagerStep
      BY <3>2, CarriedMessage DEF ManagerStep
    <3>3. ASSUME NEW x \in Msgs,
                 ChooseWay(x) \/ EnqueueLocal(x) \/ FindLocal(x) \/ FindRoute(x) \/ Publish(x)
          PROVE  progress[m] # "new" => progress'[m] # "new"
      <4>1. \E step \in {"enqueue", "find", "get", "publish", "sent"} : Advance(x, step)
        BY <3>3 DEF ChooseWay, EnqueueLocal, FindLocal, FindRoute, Publish
      <4> QED
        BY <3>1, <4>1 DEF Advance
    <3>4. CASE UNCHANGED progress
      BY <3>4
    <3> QED
      BY <3>2, <3>3, <3>4, RoutingSteps
      DEF allVars, routingVars, sendVars, Listen, TakeMessage, CollectConns, Deliver, SkipFull, GiveUp,
          UnregisterClosed
  <2>3. KeepReachable
    BY <1>3, RoutingSteps
  <2>4. ASSUME NEW c \in Conns, Safe(m), progress[m] # "new", Follows(m, c),
               c \in ReachableConns(MsgTo[m]), c \in ReachableConns(MsgTo[m])'
        PROVE  Follows(m, c)'
    <3>1. CASE ManagerStep
      BY <2>4, <3>1, ReachManager
    <3>2. ASSUME NEW x \in Msgs, ChooseWay(x) PROVE Follows(m, c)'
      <4>1. x # m
        BY <1>3, <3>2
      <4>2. /\ \E step : Advance(x, step)
            /\ fate' = fate \/ \E how : End(x, how)
            /\ UNCHANGED <<target, hand, phase, stale, tries>>
        BY <3>2 DEF ChooseWay, dispatchVars
      <4>3. progress'[m] = progress[m] /\ fate'[m] = fate[m]
        BY <4>1, <4>2 DEF Advance, End, Ground, RouteInv, RoutingTypeOK
      <4> QED
        BY <2>4, <4>2, <4>3 DEF Follows, Dest
    <3>3. ASSUME NEW x \in Msgs, EnqueueLocal(x) \/ FindLocal(x) \/ FindRoute(x) \/ Publish(x)
          PROVE  Follows(m, c)'
      BY <2>4, <3>3, ReachSend
    <3>4. ASSUME NEW s \in Servers, Listen(s) PROVE Follows(m, c)'
      BY <2>4, <3>4, ReachListen
    <3>5. ASSUME NEW s \in Servers, TakeMessage(s) PROVE Follows(m, c)'
      BY <2>4, <3>5, ReachTake
    <3>6. ASSUME NEW s \in Servers,
                 \/ CollectConns(s) \/ GiveUp(s)
                 \/ \E d \in Conns : Deliver(s, d) \/ SkipFull(s, d) \/ UnregisterClosed(s, d)
          PROVE  Follows(m, c)'
      BY <2>4, <3>6, ReachTry
    <3> QED
      BY <1>3, <3>1, <3>2, <3>3, <3>4, <3>5, <3>6, RoutingSteps
  <2> QED
    BY <2>1, <2>2, <2>3, <2>4, ReachGoesOn
<1>4. ChooseWay(m) /\ ~UNCHANGED allVars => UNCHANGED vars /\ KeepReachable
  <2> SUFFICES ASSUME ChooseWay(m), ~UNCHANGED allVars PROVE UNCHANGED vars /\ KeepReachable
    OBVIOUS
  <2>1. progress[m] = "new" /\ progress'[m] # "new"
    <3>1. \E step \in {"enqueue", "find", "sent"} : Advance(m, step)
      BY DEF ChooseWay
    <3> QED
      BY <3>1 DEF ChooseWay, Sending, Advance, Ground, RouteInv, RoutingTypeOK
  <2>2. ~ManagerStep
    <3> SUFFICES ASSUME ManagerStep PROVE FALSE
      OBVIOUS
    <3>1. GoesDown(m)
      BY <2>1, CarriedMessage DEF ManagerStep
    <3>2. PICK s \in Servers : m \in Held(s)
      BY <3>1 DEF GoesDown
    <3>3. At(m, "channel", s) \/ At(m, "queue", s) \/ At(m, "hand", s)
      BY <2>1, <3>2 DEF Held, At, Range
    <3> QED
      BY <2>1, <3>3 DEF Ground, PlaceInv, SpotOK, Live, Kinds, Spots
  <2>3. ~\E s \in Servers, c \in Conns : UnregisterClosed(s, c)
    BY <2>1 DEF UnregisterClosed, sendVars
  <2> QED
    BY <2>2, <2>3, RoutingSteps
<1> QED
  BY <1>1, <1>2, <1>3, <1>4

\* No message has been sent in the beginning.
LEMMA ReachInit ==
  ASSUME RoutingInit
  PROVE  ReachInv
BY DEF RoutingInit, ReachInv, ReachOK, ReachableConns

\* The invariants of the routing and, through the refinement, of the manager.
THEOREM GroundInvariant == RoutingSpec => []Ground
<1>1. RoutingSpec => Spec
  BY IsManager DEF ImplementsManager
<1>2. PatientInv => NeverStopped
  BY DEF PatientInv
<1> QED
  BY <1>1, <1>2, RouteInvariant, PlaceInvariant, OrderInvariant, NoGhostLocalUserTheorem,
     DownServesNoneTheorem, PatientInvariant, PTL DEF Ground

\* NoLossWhileReachable: while one connection of the recipient is reachable, on its
\* one server, with Redis, no stop and no full buffer, a message is not given up.
THEOREM NothingLost == RoutingSpec => []NoLossWhileReachable
<1>1. Ground /\ ReachInv /\ [RoutingNext]_allVars => ReachInv'
  BY ReachStep
<1>2. ReachInv => NoLossWhileReachable
  BY DEF ReachInv, ReachOK, NoLossWhileReachable, Safe, Follows
<1> QED
  BY <1>1, <1>2, ReachInit, GroundInvariant, PTL DEF RoutingSpec
=============================================================================
