------------------------ MODULE StatusManager_proofs ------------------------
(***************************************************************************)
(* Proofs about StatusManager, for any servers, users, connections and     *)
(* heartbeats: what a copy of a record is worth while it is on its way to  *)
(* Redis, and that the last one arrives.                                   *)
(***************************************************************************)
EXTENDS StatusManager, SequenceTheorems, TLAPS

\* An update is under way only while there is one to make.
HasUpdate == \A c \in Conns : pc[c] # "ready" => turn[c] <= Len(Updates(c))
TypeInv == StatusTypeOK /\ HasUpdate

\* Nothing in Redis or of a copy excuses what is there.
Excused(u) == excuses[u] \cap {"overtaken", "failed"} # {}

\* What a copy that is not old has read so far is the record as it is now.
Copied(c) ==
  LET json == pipe[c].json
  IN  /\ pc[c] \in {"marshalFlags", "queueFlags", "queueOnline"} \cup ExecSteps
           => json.online = Record(c).online
      /\ pc[c] \in {"queueFlags", "queueOnline"} \cup ExecSteps => json.flags = Record(c).flags
      /\ pc[c] \in {"queueOnline"} \cup ExecSteps => pipe[c].flags = Record(c).flags
      /\ pc[c] \in ExecSteps => pipe[c].online = Record(c).online

\* The handlers of u at some steps whose copy is not old.
Fresh(u, steps) == {c \in Conns : ConnUser[c] = u /\ pc[c] \in steps /\ ~Old(c)}

\* Where a handler has run no command yet.
BeforeExec == {"flag", "marshal", "execStatus"} \cup ReadSteps

CopyInv ==
  /\ \A c \in stale : pc[c] \in ReadSteps \cup ExecSteps
  /\ \A c \in Conns : ~Old(c) => Copied(c)
  /\ \A c \in Conns : ~Old(c) /\ pc[c] \in {"execFlags", "execOnline"} => ConnUser[c] \in current
  /\ \A u \in current : newest[u] # NoServer
  /\ \A u \in Users : connKey[u].kind = "string" => "string" \in excuses[u]

\* The record of u that was changed last.
Newest(u) == statusCache[newest[u]][u]

\* Until Redis has had a copy that is not old, somebody is about to bring one.
Coming(u) == newest[u] # NoServer /\ u \notin current => Fresh(u, BeforeExec) # {}

\* Once it has had one, the JSON is the record, and so are the hash and the set,
\* unless a heartbeat has come since, or their commands are still to be run.
Arrived(u) ==
  u \in current =>
    /\ status[u] = << Newest(u) >>
    /\ \/ "string" \in excuses[u]
       \/ connKey[u] = [kind |-> "hash", flags |-> Newest(u).flags]
       \/ Fresh(u, {"execFlags"}) # {}
    /\ \/ "heartbeat" \in excuses[u]
       \/ u \in onlineUsers <=> Newest(u).online
       \/ Fresh(u, {"execFlags", "execOnline"}) # {}

SyncInv == \A u \in Users : ~Excused(u) => Coming(u) /\ Arrived(u)

-----------------------------------------------------------------------------
(* Types, and what each kind of step does.                                 *)

\* There is one update to make for a browser that stays, and three at most.
LEMMA UpdatesTyped ==
  ASSUME NEW c \in Conns
  PROVE  /\ Len(Updates(c)) \in 1 .. 3
         /\ \A i \in 1 .. Len(Updates(c)) : Updates(c)[i].online \in BOOLEAN
<1> DEFINE Entry == [type : {"websocket", "tcp", "tcp_ws"}, online : BOOLEAN]
           off == [type |-> "websocket", online |-> FALSE]
           on == [type |-> ConnType[c], online |-> TRUE]
           left == [type |-> ConnType[c], online |-> FALSE]
           first == IF ConnType[c] = "websocket" THEN << >> ELSE << off >>
           own == << on >>
           last == IF c \in Staying THEN << >> ELSE << left >>
<1>0. ConnType[c] \in {"websocket", "tcp", "tcp_ws"}
  BY StatusAssumption
<1>1. off \in Entry /\ on \in Entry /\ left \in Entry
  BY <1>0
<1>2. Updates(c) = first \o own \o last
  BY DEF Updates
<1>3. \A e \in Entry : e.online \in BOOLEAN
  OBVIOUS
<1> HIDE DEF Entry, off, on, left
<1>4. first \in Seq(Entry) /\ Len(first) \in 0 .. 1
  <2>1. << >> \in Seq(Entry) /\ Len(<< >>) = 0
    OBVIOUS
  <2>2. << off >> \in Seq(Entry) /\ Len(<< off >>) = 1
    BY <1>1
  <2> QED
    BY <2>1, <2>2
<1>5. own \in Seq(Entry) /\ Len(own) = 1
  BY <1>1
<1>6. last \in Seq(Entry) /\ Len(last) \in 0 .. 1
  <2>1. << >> \in Seq(Entry) /\ Len(<< >>) = 0
    OBVIOUS
  <2>2. << left >> \in Seq(Entry) /\ Len(<< left >>) = 1
    BY <1>1
  <2> QED
    BY <2>1, <2>2
<1> HIDE DEF first, own, last
<1>7. first \o own \in Seq(Entry) /\ Len(first \o own) = Len(first) + Len(own)
  BY <1>4, <1>5, ConcatProperties
<1> DEFINE two == first \o own
<1> HIDE DEF two
<1>8. two \o last \in Seq(Entry) /\ Len(two \o last) = Len(two) + Len(last)
  BY <1>6, <1>7, ConcatProperties DEF two
<1>9. Updates(c) \in Seq(Entry) /\ Len(Updates(c)) \in 1 .. 3
  BY <1>2, <1>4, <1>5, <1>6, <1>7, <1>8 DEF two
<1>10. \A i \in 1 .. Len(Updates(c)) : Updates(c)[i] \in Entry
  <2> DEFINE q == Updates(c)
  <2>1. q \in Seq(Entry)
    BY <1>9
  <2> HIDE DEF q
  <2>2. \A i \in 1 .. Len(q) : q[i] \in Entry
    BY <2>1
  <2> QED
    BY <2>2 DEF q
<1> QED
  BY <1>3, <1>9, <1>10

\* A change of a record, by SetOnline or SetFlag.
LEMMA RecordStep ==
  ASSUME TypeInv, NEW c \in Conns, SetOnline(c) \/ SetFlag(c)
  PROVE  /\ statusCache' \in [Servers -> [Users -> UserStatus]]
         /\ \A s \in Servers, u \in Users :
              (s # ConnServer[c] \/ u # ConnUser[c]) => statusCache'[s][u] = statusCache[s][u]
         /\ pc' \in [Conns -> Steps] /\ \A d \in Conns \ {c} : pc'[d] = pc[d]
         /\ pc[c] \in {"ready", "flag"} /\ pc'[c] \in {"flag", "marshal"}
         /\ turn[c] <= Len(Updates(c))
         /\ Changed(c)
         /\ UNCHANGED <<turn, pipe, beat, status, connKey, onlineUsers, excuses>>
<1> DEFINE s == ConnServer[c]
           u == ConnUser[c]
<1>0. s \in Servers /\ u \in Users /\ statusCache[s][u] \in UserStatus
      /\ statusCache \in [Servers -> [Users -> UserStatus]] /\ pc \in [Conns -> Steps]
  BY StatusAssumption DEF TypeInv, StatusTypeOK
<1>1. \E r \in UserStatus : statusCache' = [statusCache EXCEPT ![s] = [statusCache[s] EXCEPT ![u] = r]]
  <2>1. CASE SetOnline(c)
    <3>1. turn[c] \in 1 .. Len(Updates(c))
      BY <2>1, UpdatesTyped DEF SetOnline, TypeInv, StatusTypeOK
    <3>2. Update(c).online \in BOOLEAN
      BY <3>1, UpdatesTyped DEF Update
    <3>3. [statusCache[s][u] EXCEPT !.online = Update(c).online] \in UserStatus
      BY <1>0, <3>2 DEF UserStatus
    <3> QED
      BY <2>1, <3>3 DEF SetOnline
  <2>2. CASE SetFlag(c)
    <3> DEFINE flags == IF Update(c).online THEN statusCache[s][u].flags \cup ({Update(c).type} \cap FlagTypes)
                                            ELSE statusCache[s][u].flags \ {Update(c).type}
    <3>1. flags \in SUBSET FlagTypes
      BY <1>0 DEF UserStatus
    <3>2. [statusCache[s][u] EXCEPT !.flags = flags] \in UserStatus
      BY <1>0, <3>1 DEF UserStatus
    <3> QED
      BY <2>2, <3>2 DEF SetFlag
  <2> QED
    BY <2>1, <2>2
<1>2. statusCache' \in [Servers -> [Users -> UserStatus]]
  BY <1>0, <1>1
<1>3. \A r \in Servers, v \in Users : (r # s \/ v # u) => statusCache'[r][v] = statusCache[r][v]
  BY <1>0, <1>1
<1>4. /\ pc' \in [Conns -> Steps] /\ \A d \in Conns \ {c} : pc'[d] = pc[d]
      /\ pc[c] \in {"ready", "flag"} /\ pc'[c] \in {"flag", "marshal"}
  BY <1>0 DEF SetOnline, SetFlag, Goto, Steps
<1>5. turn[c] <= Len(Updates(c))
  BY DEF SetOnline, SetFlag, Goto, TypeInv, HasUpdate
<1> QED
  BY <1>2, <1>3, <1>4, <1>5 DEF SetOnline, SetFlag, redisVars

Pipes == [json : UserStatus, flags : SUBSET FlagTypes, online : BOOLEAN]

\* A handler reads one more field of the record.
LEMMA ReadStep ==
  ASSUME TypeInv, NEW c \in Conns,
         MarshalOnline(c) \/ MarshalFlags(c) \/ QueueFlags(c) \/ QueueOnline(c)
  PROVE  /\ pipe' \in [Conns -> Pipes] /\ \A d \in Conns \ {c} : pipe'[d] = pipe[d]
         /\ pc' \in [Conns -> Steps] /\ \A d \in Conns \ {c} : pc'[d] = pc[d]
         /\ pc[c] \in {"marshal"} \cup ReadSteps /\ pc'[c] \in ReadSteps \cup {"execStatus"}
         /\ ~Old(c) /\ Copied(c) => Copied(c)'
         /\ UNCHANGED <<statusCache, turn, beat, status, connKey, onlineUsers, newest, stale,
                        current, excuses>>
<1> DEFINE r == Record(c)
<1>0. /\ r \in UserStatus /\ r.online \in BOOLEAN /\ r.flags \in SUBSET FlagTypes
      /\ pipe \in [Conns -> Pipes] /\ pipe[c] \in Pipes /\ pipe[c].json \in UserStatus
      /\ pc \in [Conns -> Steps]
  BY StatusAssumption DEF TypeInv, StatusTypeOK, Record, Pipes, UserStatus
<1>1. UNCHANGED <<statusCache, turn, beat, status, connKey, onlineUsers, newest, stale, current, excuses>>
  BY DEF MarshalOnline, MarshalFlags, QueueFlags, QueueOnline, redisVars, historyVars
<1>2. Record(c)' = r
  BY <1>1 DEF Record
<1> HIDE DEF r
<1>3. CASE MarshalOnline(c)
  <2> DEFINE json == [pipe[c].json EXCEPT !.online = r.online]
             p == [pipe[c] EXCEPT !.json = json]
  <2>1. pipe' = [pipe EXCEPT ![c] = p]
    BY <1>3 DEF MarshalOnline, r
  <2>2. json \in UserStatus /\ json.online = r.online
    BY <1>0 DEF UserStatus
  <2>3. p \in Pipes /\ p.json = json
    BY <1>0, <2>2 DEF Pipes
  <2> HIDE DEF p, json
  <2>4. pipe' \in [Conns -> Pipes] /\ pipe'[c] = p /\ \A d \in Conns \ {c} : pipe'[d] = pipe[d]
    BY <1>0, <2>1, <2>3
  <2>5. pc[c] = "marshal" /\ pc' = [pc EXCEPT ![c] = "marshalFlags"]
    BY <1>3 DEF MarshalOnline, Goto
  <2> QED
    BY <1>0, <1>1, <1>2, <2>2, <2>3, <2>4, <2>5 DEF Copied, ReadSteps, ExecSteps, Steps
<1>4. CASE MarshalFlags(c)
  <2> DEFINE json == [pipe[c].json EXCEPT !.flags = r.flags]
             p == [pipe[c] EXCEPT !.json = json]
  <2>1. pipe' = [pipe EXCEPT ![c] = p]
    BY <1>4 DEF MarshalFlags, r
  <2>2. json \in UserStatus /\ json.flags = r.flags /\ json.online = pipe[c].json.online
    BY <1>0 DEF UserStatus
  <2>3. p \in Pipes /\ p.json = json
    BY <1>0, <2>2 DEF Pipes
  <2> HIDE DEF p, json
  <2>4. pipe' \in [Conns -> Pipes] /\ pipe'[c] = p /\ \A d \in Conns \ {c} : pipe'[d] = pipe[d]
    BY <1>0, <2>1, <2>3
  <2>5. pc[c] = "marshalFlags" /\ pc' = [pc EXCEPT ![c] = "queueFlags"]
    BY <1>4 DEF MarshalFlags, Goto
  <2> QED
    BY <1>0, <1>1, <1>2, <2>2, <2>3, <2>4, <2>5 DEF Copied, ReadSteps, ExecSteps, Steps, r
<1>5. CASE QueueFlags(c)
  <2> DEFINE p == [pipe[c] EXCEPT !.flags = r.flags]
  <2>1. pipe' = [pipe EXCEPT ![c] = p]
    BY <1>5 DEF QueueFlags, r
  <2>2. p \in Pipes /\ p.json = pipe[c].json /\ p.flags = r.flags
    BY <1>0 DEF Pipes
  <2> HIDE DEF p
  <2>3. pipe' \in [Conns -> Pipes] /\ pipe'[c] = p /\ \A d \in Conns \ {c} : pipe'[d] = pipe[d]
    BY <1>0, <2>1, <2>2
  <2>4. pc[c] = "queueFlags" /\ pc' = [pc EXCEPT ![c] = "queueOnline"]
    BY <1>5 DEF QueueFlags, Goto
  <2> QED
    BY <1>0, <1>1, <1>2, <2>2, <2>3, <2>4 DEF Copied, ReadSteps, ExecSteps, Steps, r
<1>6. CASE QueueOnline(c)
  <2> DEFINE p == [pipe[c] EXCEPT !.online = r.online]
  <2>1. pipe' = [pipe EXCEPT ![c] = p]
    BY <1>6 DEF QueueOnline, r
  <2>2. p \in Pipes /\ p.json = pipe[c].json /\ p.flags = pipe[c].flags /\ p.online = r.online
    BY <1>0 DEF Pipes
  <2> HIDE DEF p
  <2>3. pipe' \in [Conns -> Pipes] /\ pipe'[c] = p /\ \A d \in Conns \ {c} : pipe'[d] = pipe[d]
    BY <1>0, <2>1, <2>2
  <2>4. pc[c] = "queueOnline" /\ pc' = [pc EXCEPT ![c] = "execStatus"]
    BY <1>6 DEF QueueOnline, Goto
  <2> QED
    BY <1>0, <1>1, <1>2, <2>2, <2>3, <2>4 DEF Copied, ReadSteps, ExecSteps, Steps, r
<1> QED
  BY <1>3, <1>4, <1>5, <1>6

Excuses == {"overtaken", "failed", "string", "heartbeat"}

\* What happens to a user's keys is added to the excuses, and they keep their type.
LEMMA ExcuseStep ==
  ASSUME TypeInv, NEW u \in Users, NEW new \in SUBSET Excuses, NEW gone, Excuse(u, new, gone)
  PROVE  /\ excuses' \in [Users -> SUBSET Excuses]
         /\ \A v \in Users \ {u} : excuses'[v] = excuses[v]
         /\ excuses'[u] = (excuses[u] \ gone) \cup new
<1>0. excuses \in [Users -> SUBSET Excuses]
  BY DEF TypeInv, StatusTypeOK, Excuses
<1>1. excuses' = [excuses EXCEPT ![u] = (excuses[u] \ gone) \cup new]
  BY DEF Excuse
<1>2. (excuses[u] \ gone) \cup new \in SUBSET Excuses
  BY <1>0
<1> QED
  BY <1>0, <1>1, <1>2

\* A command of the handler of c: Redis has had a copy that is not old, or one that
\* is old and has overtaken if there was one before.
LEMMA CommandStep ==
  ASSUME TypeInv, NEW c \in Conns, ExecStatus(c) \/ ExecFlags(c) \/ ExecOnline(c)
  PROVE  /\ \A d \in Conns \ {c} : pc'[d] = pc[d] /\ (d \in stale' <=> d \in stale)
         /\ pc' \in [Conns -> Steps] /\ pc[c] \in ExecSteps
         /\ pc'[c] \in {"execFlags", "execOnline", "ready"}
         /\ pc'[c] = "ready" => c \notin stale'
         /\ pc'[c] # "ready" => pipe' = pipe /\ stale' = stale
         /\ \A d \in Conns \ {c} : pipe'[d] = pipe[d]
         /\ Old(c) => current' = current
         /\ ~Old(c) => current' = current \cup {ConnUser[c]}
         /\ \E gone \in SUBSET {"string", "heartbeat"} : Excuse(ConnUser[c], Overtaken(c), gone)
         /\ Overtaken(c) \in SUBSET Excuses
         /\ UNCHANGED <<statusCache, beat, newest>>
<1>0. pc \in [Conns -> Steps] /\ pipe \in [Conns -> Pipes] /\ Overtaken(c) \in SUBSET Excuses
  BY DEF TypeInv, StatusTypeOK, Pipes, Overtaken, Excuses
<1>1. CASE ExecStatus(c)
  <2>1. pc[c] = "execStatus" /\ pc' = [pc EXCEPT ![c] = "execFlags"] /\ UNCHANGED <<stale, pipe>>
    BY <1>1 DEF ExecStatus, Goto
  <2> QED
    BY <1>0, <1>1, <2>1 DEF ExecStatus, Runs, Steps, ExecSteps
<1>2. CASE ExecFlags(c)
  <2>1. pc[c] = "execFlags" /\ pc' = [pc EXCEPT ![c] = "execOnline"] /\ UNCHANGED <<stale, pipe>>
    BY <1>2 DEF ExecFlags, Goto
  <2>2. \E gone \in SUBSET {"string", "heartbeat"} : Excuse(ConnUser[c], Overtaken(c), gone)
    BY <1>2 DEF ExecFlags
  <2> QED
    BY <1>0, <1>2, <2>1, <2>2 DEF ExecFlags, Runs, Steps, ExecSteps
<1>3. CASE ExecOnline(c)
  <2>1. /\ pc[c] = "execOnline" /\ pc' = [pc EXCEPT ![c] = "ready"]
        /\ stale' = stale \ {c} /\ pipe' = [pipe EXCEPT ![c] = NoPipe]
    BY <1>3 DEF ExecOnline, Return
  <2>2. \E gone \in SUBSET {"string", "heartbeat"} : Excuse(ConnUser[c], Overtaken(c), gone)
    BY <1>3 DEF ExecOnline
  <2> QED
    BY <1>0, <1>3, <2>1, <2>2 DEF ExecOnline, Runs, Steps, ExecSteps
<1> QED
  BY <1>1, <1>2, <1>3

\* Every step is of one of these kinds.
LEMMA StatusSteps ==
  ASSUME [Next]_vars
  PROVE  \/ \E c \in Conns : \/ SkipUpdate(c)
                           \/ SetOnline(c) \/ SetFlag(c)
                           \/ MarshalOnline(c) \/ MarshalFlags(c) \/ QueueFlags(c) \/ QueueOnline(c)
                           \/ ExecStatus(c) \/ ExecFlags(c) \/ ExecOnline(c)
                           \/ ExecFails(c)
         \/ \E b \in Beats : BeatConnections(b) \/ BeatOnline(b)
         \/ \E u \in Users : Expire(u)
         \/ UNCHANGED vars
BY DEF Next, UpdateUserStatus

\* An update that is one of at most three has a next place.
LEMMA NextTurn == \A i \in 1 .. 4, n \in 1 .. 3 : i <= n => i + 1 \in 1 .. 4
OBVIOUS

\* A call that returns goes on to the next update, if there is one.
LEMMA ReturnTyped ==
  ASSUME TypeInv, NEW c \in Conns, pc[c] # "ready", Return(c)
  PROVE  /\ pc' \in [Conns -> Steps] /\ turn' \in [Conns -> 1 .. 4]
         /\ pipe' \in [Conns -> Pipes] /\ stale' \subseteq Conns
         /\ HasUpdate'
<1>0. /\ pc \in [Conns -> Steps] /\ turn \in [Conns -> 1 .. 4] /\ pipe \in [Conns -> Pipes]
      /\ stale \subseteq Conns
  BY DEF TypeInv, StatusTypeOK, Pipes
<1>1. turn[c] <= Len(Updates(c)) /\ Len(Updates(c)) \in 1 .. 3
  BY UpdatesTyped DEF TypeInv, HasUpdate
<1>2. turn' = [turn EXCEPT ![c] = turn[c] + 1] /\ turn[c] + 1 \in 1 .. 4
  <2>1. turn[c] \in 1 .. 4
    BY <1>0
  <2>2. turn[c] + 1 \in 1 .. 4
    BY <1>1, <2>1, NextTurn
  <2> QED
    BY <2>2 DEF Return
<1>3. NoPipe \in Pipes
  BY DEF NoPipe, Pipes, Offline, UserStatus
<1>4. HasUpdate'
  BY <1>0, <1>2 DEF Return, TypeInv, HasUpdate, Updates
<1> QED
  BY <1>0, <1>2, <1>3, <1>4 DEF Return, Steps

\* Every step keeps the types.
LEMMA NextTypeInv ==
  ASSUME TypeInv, [Next]_vars
  PROVE  TypeInv'
<1>0. /\ statusCache \in [Servers -> [Users -> UserStatus]]
      /\ pc \in [Conns -> Steps] /\ turn \in [Conns -> 1 .. 4] /\ pipe \in [Conns -> Pipes]
      /\ beat \in [Beats -> {"new", "add", "done"}]
      /\ status \in [Users -> {<< >>} \cup {<< r >> : r \in UserStatus}]
      /\ connKey \in [Users -> [kind : {"hash", "string"}, flags : SUBSET FlagTypes]]
      /\ onlineUsers \subseteq Users
      /\ newest \in [Users -> Servers \cup {NoServer}]
      /\ stale \subseteq Conns /\ current \subseteq Users
      /\ excuses \in [Users -> SUBSET Excuses]
      /\ HasUpdate
  BY DEF TypeInv, StatusTypeOK, Excuses, Pipes
<1> USE StatusAssumption
<1>1. ASSUME NEW c \in Conns, SkipUpdate(c) PROVE TypeInv'
  <2>0. turn[c] \in 1 .. 4 /\ turn[c] <= Len(Updates(c)) /\ Len(Updates(c)) \in 1 .. 3
    BY <1>0, <1>1, UpdatesTyped DEF SkipUpdate
  <2>1. turn[c] + 1 \in 1 .. 4 /\ turn' = [turn EXCEPT ![c] = turn[c] + 1] /\ pc[c] = "ready"
    <3>1. turn[c] + 1 \in 1 .. 4
      BY <2>0, NextTurn
    <3> QED
      BY <1>1, <3>1 DEF SkipUpdate
  <2>2. turn' \in [Conns -> 1 .. 4]
    BY <1>0, <2>1
  <2>3. HasUpdate'
    BY <1>0, <1>1, <2>1 DEF SkipUpdate, HasUpdate, Updates
  <2> QED
    BY <1>0, <1>1, <2>2, <2>3 DEF SkipUpdate, TypeInv, StatusTypeOK, Excuses, Pipes, redisVars, historyVars
<1>2. ASSUME NEW c \in Conns, SetOnline(c) \/ SetFlag(c) PROVE TypeInv'
  <2>1. /\ statusCache' \in [Servers -> [Users -> UserStatus]]
        /\ pc' \in [Conns -> Steps] /\ \A d \in Conns \ {c} : pc'[d] = pc[d]
        /\ turn[c] <= Len(Updates(c))
        /\ Changed(c)
        /\ UNCHANGED <<turn, pipe, beat, status, connKey, onlineUsers, excuses>>
    BY <1>2, RecordStep
  <2>2. HasUpdate'
    BY <1>0, <2>1 DEF HasUpdate, Updates
  <2>3. newest' \in [Users -> Servers \cup {NoServer}] /\ stale' \subseteq Conns /\ current' \subseteq Users
    BY <1>0, <2>1 DEF Changed
  <2> QED
    BY <1>0, <2>1, <2>2, <2>3 DEF TypeInv, StatusTypeOK, Excuses, Pipes
<1>3. ASSUME NEW c \in Conns, MarshalOnline(c) \/ MarshalFlags(c) \/ QueueFlags(c) \/ QueueOnline(c)
      PROVE  TypeInv'
  <2>1. /\ pipe' \in [Conns -> Pipes]
        /\ pc' \in [Conns -> Steps] /\ \A d \in Conns \ {c} : pc'[d] = pc[d]
        /\ pc[c] # "ready"
        /\ UNCHANGED <<statusCache, turn, beat, status, connKey, onlineUsers, newest, stale,
                       current, excuses>>
    BY <1>3, ReadStep DEF ReadSteps
  <2>2. HasUpdate'
    BY <1>0, <2>1 DEF HasUpdate, Updates
  <2> QED
    BY <1>0, <2>1, <2>2 DEF TypeInv, StatusTypeOK, Excuses, Pipes
<1>4. ASSUME NEW c \in Conns, ExecStatus(c) \/ ExecFlags(c) \/ ExecOnline(c) PROVE TypeInv'
  <2> DEFINE u == ConnUser[c]
  <2>0. u \in Users /\ pc[c] \in ExecSteps /\ pc[c] # "ready"
    BY <1>4, CommandStep DEF ExecSteps
  <2>1. PICK gone \in SUBSET {"string", "heartbeat"} : Excuse(u, Overtaken(c), gone)
    BY <1>4, CommandStep
  <2>2. excuses' \in [Users -> SUBSET Excuses]
    BY <1>4, <2>0, <2>1, ExcuseStep, CommandStep
  <2>3. current' \subseteq Users /\ pc' \in [Conns -> Steps] /\ UNCHANGED <<statusCache, beat, newest>>
    <3>1. current' \in {current, current \cup {u}}
      BY <1>4, CommandStep
    <3> QED
      BY <1>0, <1>4, <2>0, <3>1, CommandStep
  <2>4. /\ turn' \in [Conns -> 1 .. 4] /\ pipe' \in [Conns -> Pipes] /\ stale' \subseteq Conns
        /\ HasUpdate'
    <3>1. CASE ExecOnline(c)
      BY <2>0, <3>1, ReturnTyped DEF ExecOnline
    <3>2. CASE ExecStatus(c) \/ ExecFlags(c)
      <4>1. UNCHANGED <<turn, pipe, stale>> /\ \A d \in Conns \ {c} : pc'[d] = pc[d]
        BY <1>4, <3>2, CommandStep DEF ExecStatus, ExecFlags
      <4> QED
        BY <1>0, <2>0, <4>1 DEF HasUpdate, Updates
    <3> QED
      BY <1>4, <3>1, <3>2
  <2>5. /\ status' \in [Users -> {<< >>} \cup {<< r >> : r \in UserStatus}]
        /\ connKey' \in [Users -> [kind : {"hash", "string"}, flags : SUBSET FlagTypes]]
        /\ onlineUsers' \subseteq Users
    <3>1. pipe[c].json \in UserStatus /\ pipe[c].flags \in SUBSET FlagTypes
      BY <1>0 DEF Pipes
    <3>2. CASE ExecStatus(c)
      <4>1. status' = [status EXCEPT ![u] = << pipe[c].json >>] /\ UNCHANGED <<connKey, onlineUsers>>
        BY <3>2 DEF ExecStatus
      <4>2. << pipe[c].json >> \in {<< r >> : r \in UserStatus}
        BY <3>1
      <4> QED
        BY <1>0, <4>1, <4>2
    <3>3. CASE ExecFlags(c)
      <4>1. /\ UNCHANGED <<status, onlineUsers>>
            /\ \/ connKey' = [connKey EXCEPT ![u] = [connKey[u] EXCEPT !.flags = pipe[c].flags]]
               \/ UNCHANGED connKey
        BY <3>3 DEF ExecFlags
      <4>2. [connKey[u] EXCEPT !.flags = pipe[c].flags] \in [kind : {"hash", "string"}, flags : SUBSET FlagTypes]
        <5>1. connKey[u] \in [kind : {"hash", "string"}, flags : SUBSET FlagTypes]
          BY <1>0, <2>0
        <5> QED
          BY <3>1, <5>1
      <4>3. connKey' \in [Users -> [kind : {"hash", "string"}, flags : SUBSET FlagTypes]]
        BY <1>0, <4>1, <4>2
      <4> QED
        BY <1>0, <4>1, <4>3
    <3>4. CASE ExecOnline(c)
      BY <1>0, <2>0, <3>4 DEF ExecOnline
    <3> QED
      BY <1>4, <3>2, <3>3, <3>4
  <2> QED
    BY <1>0, <2>2, <2>3, <2>4, <2>5 DEF TypeInv, StatusTypeOK, Excuses, Pipes
<1>5. ASSUME NEW c \in Conns, ExecFails(c) PROVE TypeInv'
  <2>1. pc[c] # "ready" /\ Return(c) /\ Excuse(ConnUser[c], {"failed"}, {})
    BY <1>5 DEF ExecFails, ExecSteps
  <2>2. excuses' \in [Users -> SUBSET Excuses]
    BY <2>1, ExcuseStep DEF Excuses
  <2>3. UNCHANGED <<statusCache, beat, status, connKey, onlineUsers, newest, current>>
    BY <1>5 DEF ExecFails, redisVars
  <2> QED
    BY <1>0, <2>1, <2>2, <2>3, ReturnTyped DEF TypeInv, StatusTypeOK, Excuses, Pipes
<1>6. ASSUME NEW b \in Beats, BeatConnections(b) \/ BeatOnline(b) PROVE TypeInv'
  <2>0. BeatUser[b] \in Users
    OBVIOUS
  <2>1. excuses' \in [Users -> SUBSET Excuses]
    BY <1>0, <1>6, <2>0, ExcuseStep DEF BeatConnections, BeatOnline, Excuses
  <2>2. /\ connKey' \in [Users -> [kind : {"hash", "string"}, flags : SUBSET FlagTypes]]
        /\ onlineUsers' \subseteq Users /\ beat' \in [Beats -> {"new", "add", "done"}]
    <3>1. [kind |-> "string", flags |-> {}] \in [kind : {"hash", "string"}, flags : SUBSET FlagTypes]
      OBVIOUS
    <3>2. CASE BeatConnections(b)
      BY <1>0, <2>0, <3>1, <3>2 DEF BeatConnections
    <3>3. CASE BeatOnline(b)
      BY <1>0, <2>0, <3>3 DEF BeatOnline
    <3> QED
      BY <1>6, <3>2, <3>3
  <2>3. UNCHANGED <<statusCache, pc, turn, pipe, status, newest, stale, current>>
    BY <1>6 DEF BeatConnections, BeatOnline, historyVars
  <2>4. HasUpdate'
    BY <1>0, <2>3 DEF HasUpdate, Updates
  <2> QED
    BY <1>0, <2>1, <2>2, <2>3, <2>4 DEF TypeInv, StatusTypeOK, Excuses, Pipes
<1>7. ASSUME NEW u \in Users, Expire(u) PROVE TypeInv'
  <2>1. connKey' \in [Users -> [kind : {"hash", "string"}, flags : SUBSET FlagTypes]]
    BY <1>0, <1>7 DEF Expire
  <2>2. HasUpdate'
    BY <1>0, <1>7 DEF HasUpdate, Updates, Expire
  <2> QED
    BY <1>0, <1>7, <2>1, <2>2 DEF Expire, TypeInv, StatusTypeOK, Excuses, Pipes, historyVars
<1>8. CASE UNCHANGED vars
  BY <1>0, <1>8 DEF vars, TypeInv, StatusTypeOK, Excuses, Pipes, HasUpdate, Updates
<1> QED
  BY <1>1, <1>2, <1>3, <1>4, <1>5, <1>6, <1>7, <1>8, StatusSteps

\* The initial values have their types, and every handler its first update to make.
LEMMA InitTypeInv == Init => TypeInv
<1> SUFFICES ASSUME Init PROVE TypeInv
  OBVIOUS
<1>1. NoPipe \in [json : UserStatus, flags : SUBSET FlagTypes, online : BOOLEAN] /\ Offline \in UserStatus
  BY DEF NoPipe, Offline, UserStatus
<1> QED
  BY <1>1 DEF Init, TypeInv, StatusTypeOK, HasUpdate, Steps

\* The records in memory, the copies on their way and the three keys in Redis keep
\* their types.
THEOREM StatusTyped == Spec => []StatusTypeOK
<1>1. Spec => []TypeInv
  BY InitTypeInv, NextTypeInv, PTL DEF Spec
<1>2. TypeInv => StatusTypeOK
  BY DEF TypeInv
<1> QED
  BY <1>1, <1>2, PTL

-----------------------------------------------------------------------------
(* Copies.                                                                 *)

\* A change of a record of u makes what other handlers of u have read of it old,
\* and leaves all other users' copies as they were.
LEMMA ChangeEffect ==
  ASSUME TypeInv, CopyInv, NEW c \in Conns, SetOnline(c) \/ SetFlag(c)
  PROVE  /\ ~Old(c)' /\ newest'[ConnUser[c]] # NoServer
         /\ \A d \in Conns \ {c} :
              IF ConnUser[d] = ConnUser[c]
                THEN Old(d)' \/ pc'[d] \notin ReadSteps \cup ExecSteps
                ELSE (Old(d)' <=> Old(d)) /\ Record(d)' = Record(d)
         /\ \A u \in Users \ {ConnUser[c]} :
              newest'[u] = newest[u] /\ (u \in current' <=> u \in current)
         /\ ConnUser[c] \notin current'
<1>1. /\ \A s \in Servers, u \in Users :
           (s # ConnServer[c] \/ u # ConnUser[c]) => statusCache'[s][u] = statusCache[s][u]
      /\ \A d \in Conns \ {c} : pc'[d] = pc[d]
      /\ pc[c] \in {"ready", "flag"}
      /\ Changed(c)
  BY RecordStep
<1>2. /\ \A d \in Conns : ConnServer[d] \in Servers /\ ConnUser[d] \in Users
      /\ NoServer \notin Servers
  BY StatusAssumption
<1>3. newest \in [Users -> Servers \cup {NoServer}]
  BY DEF TypeInv, StatusTypeOK
<1>4. /\ newest'[ConnUser[c]] = ConnServer[c]
      /\ \A u \in Users \ {ConnUser[c]} : newest'[u] = newest[u]
      /\ current' = current \ {ConnUser[c]}
      /\ stale' = stale \cup {d \in Conns : ConnUser[d] = ConnUser[c] /\ pc[d] \in ReadSteps \cup ExecSteps}
  BY <1>1, <1>2, <1>3 DEF Changed
<1>5. c \notin stale'
  BY <1>1, <1>4 DEF CopyInv, ReadSteps, ExecSteps
<1>6. ASSUME NEW d \in Conns \ {c}
      PROVE  IF ConnUser[d] = ConnUser[c]
               THEN Old(d)' \/ pc'[d] \notin ReadSteps \cup ExecSteps
               ELSE (Old(d)' <=> Old(d)) /\ Record(d)' = Record(d)
  <2>1. CASE ConnUser[d] = ConnUser[c]
    BY <1>1, <1>4, <2>1 DEF Old
  <2>2. CASE ConnUser[d] # ConnUser[c]
    BY <1>1, <1>2, <1>4, <2>2 DEF Old, Record
  <2> QED
    BY <2>1, <2>2
<1> QED
  BY <1>2, <1>4, <1>5, <1>6 DEF Old

\* A step that changes no record and no history of changes, and of a copy at most
\* its end.
LEMMA CopySame ==
  ASSUME NEW d \in Conns, UNCHANGED <<statusCache, newest>>, d \in stale' <=> d \in stale
  PROVE  (Old(d)' <=> Old(d)) /\ Record(d)' = Record(d)
BY DEF Old, Record

\* What a copy that is not old has read is the record, and it is known that Redis
\* has had such a copy.
LEMMA NextCopyInv ==
  ASSUME TypeInv, CopyInv, [Next]_vars
  PROVE  CopyInv'
<1> DEFINE StaleOK == \A c \in stale : pc[c] \in ReadSteps \cup ExecSteps
           CopiedOK(d) == ~Old(d) => Copied(d)
           RunOK(d) == ~Old(d) /\ pc[d] \in {"execFlags", "execOnline"} => ConnUser[d] \in current
           CurrentOK == \A u \in current : newest[u] # NoServer
           StringOK == \A u \in Users : connKey[u].kind = "string" => "string" \in excuses[u]
<1>0. /\ StaleOK /\ CurrentOK /\ StringOK /\ \A d \in Conns : CopiedOK(d) /\ RunOK(d)
      /\ stale \subseteq Conns /\ current \subseteq Users
      /\ newest \in [Users -> Servers \cup {NoServer}]
      /\ excuses \in [Users -> SUBSET {"overtaken", "failed", "string", "heartbeat"}]
      /\ \A d \in Conns : ConnUser[d] \in Users /\ ConnServer[d] \in Servers
      /\ NoServer \notin Servers
  BY StatusAssumption DEF CopyInv, TypeInv, StatusTypeOK
<1>1. ASSUME NEW c \in Conns, SetOnline(c) \/ SetFlag(c) PROVE CopyInv'
  <2>1. /\ \A d \in Conns \ {c} : pc'[d] = pc[d]
        /\ pc[c] \in {"ready", "flag"} /\ pc'[c] \in {"flag", "marshal"}
        /\ Changed(c)
        /\ UNCHANGED <<pipe, connKey, excuses>>
    BY <1>1, RecordStep
  <2>2. StaleOK'
    <3>1. stale' = stale \cup {d \in Conns : ConnUser[d] = ConnUser[c] /\ pc[d] \in ReadSteps \cup ExecSteps}
      BY <2>1 DEF Changed
    <3>2. \A d \in stale' : d # c /\ d \in Conns /\ pc[d] \in ReadSteps \cup ExecSteps
      BY <1>0, <2>1, <3>1 DEF ReadSteps, ExecSteps
    <3> QED
      BY <2>1, <3>2
  <2>3. ASSUME NEW d \in Conns PROVE CopiedOK(d)' /\ RunOK(d)'
    <3>1. CASE d = c
      BY <2>1, <3>1 DEF Copied, ExecSteps
    <3>2. CASE d # c /\ ConnUser[d] = ConnUser[c]
      <4>1. Old(d)' \/ pc'[d] \notin ReadSteps \cup ExecSteps
        BY <1>1, <3>2, ChangeEffect
      <4> QED
        BY <4>1 DEF Copied, ReadSteps, ExecSteps
    <3>3. CASE d # c /\ ConnUser[d] # ConnUser[c]
      <4>1. (Old(d)' <=> Old(d)) /\ Record(d)' = Record(d) /\ (ConnUser[d] \in current' <=> ConnUser[d] \in current)
        BY <1>0, <1>1, <3>3, ChangeEffect
      <4>2. pc'[d] = pc[d] /\ pipe' = pipe
        BY <2>1, <3>3
      <4>3. Copied(d) => Copied(d)'
        BY <4>1, <4>2 DEF Copied
      <4> QED
        BY <1>0, <4>1, <4>2, <4>3
    <3> QED
      BY <3>1, <3>2, <3>3
  <2>4. CurrentOK'
    <3>1. \A u \in current' : u \in current /\ u # ConnUser[c]
      BY <2>1 DEF Changed
    <3> QED
      BY <1>0, <1>1, <3>1, ChangeEffect
  <2> QED
    BY <1>0, <2>1, <2>2, <2>3, <2>4 DEF CopyInv
<1>2. ASSUME NEW c \in Conns, MarshalOnline(c) \/ MarshalFlags(c) \/ QueueFlags(c) \/ QueueOnline(c)
      PROVE  CopyInv'
  <2>1. /\ \A d \in Conns \ {c} : pipe'[d] = pipe[d] /\ pc'[d] = pc[d]
        /\ pc'[c] \in ReadSteps \cup {"execStatus"}
        /\ ~Old(c) /\ Copied(c) => Copied(c)'
        /\ UNCHANGED <<statusCache, connKey, newest, stale, current, excuses>>
    BY <1>2, ReadStep
  <2>2. StaleOK'
    BY <1>0, <2>1 DEF ReadSteps, ExecSteps
  <2>3. ASSUME NEW d \in Conns PROVE CopiedOK(d)' /\ RunOK(d)'
    <3>1. (Old(d)' <=> Old(d)) /\ Record(d)' = Record(d)
      BY <2>1, CopySame
    <3>2. CASE d = c
      BY <1>0, <2>1, <3>1, <3>2 DEF ReadSteps
    <3>3. CASE d # c
      <4>1. Copied(d) => Copied(d)'
        BY <2>1, <3>1, <3>3 DEF Copied
      <4> QED
        BY <1>0, <2>1, <3>1, <3>3, <4>1
    <3> QED
      BY <3>2, <3>3
  <2> QED
    BY <1>0, <2>1, <2>2, <2>3 DEF CopyInv
<1>3. ASSUME NEW c \in Conns, ExecStatus(c) \/ ExecFlags(c) \/ ExecOnline(c) PROVE CopyInv'
  <2>1. /\ \A d \in Conns \ {c} : pc'[d] = pc[d] /\ (d \in stale' <=> d \in stale) /\ pipe'[d] = pipe[d]
        /\ pc[c] \in ExecSteps
        /\ pc'[c] \in {"execFlags", "execOnline", "ready"}
        /\ pc'[c] = "ready" => c \notin stale'
        /\ pc'[c] # "ready" => pipe' = pipe /\ stale' = stale
        /\ Old(c) => current' = current
        /\ ~Old(c) => current' = current \cup {ConnUser[c]}
        /\ UNCHANGED <<statusCache, newest>>
    BY <1>3, CommandStep
  <2>2. StaleOK'
    <3>1. stale' \subseteq Conns
      BY <1>0, <1>3 DEF ExecStatus, ExecFlags, ExecOnline, Return
    <3> QED
      BY <1>0, <2>1, <3>1 DEF ExecSteps
  <2>3. ASSUME NEW d \in Conns PROVE CopiedOK(d)' /\ RunOK(d)'
    <3>1. CASE d = c /\ pc'[c] = "ready"
      BY <3>1 DEF Copied, ExecSteps
    <3>2. CASE d = c /\ pc'[c] # "ready"
      <4>1. (Old(c)' <=> Old(c)) /\ Record(c)' = Record(c)
        BY <2>1, <3>2, CopySame
      <4>2. Copied(c) => Copied(c)'
        BY <2>1, <3>2, <4>1 DEF Copied, ExecSteps
      <4> QED
        BY <1>0, <2>1, <3>2, <4>1, <4>2
    <3>3. CASE d # c
      <4>1. (Old(d)' <=> Old(d)) /\ Record(d)' = Record(d)
        BY <2>1, <3>3, CopySame
      <4>2. Copied(d) => Copied(d)'
        BY <2>1, <3>3, <4>1 DEF Copied
      <4>3. current \subseteq current'
        BY <2>1
      <4> QED
        BY <1>0, <2>1, <3>3, <4>1, <4>2, <4>3
    <3> QED
      BY <3>1, <3>2, <3>3
  <2>4. CurrentOK'
    BY <1>0, <2>1 DEF Old
  <2>5. StringOK'
    <3>0. ConnUser[c] \in Users
      BY <1>0
    <3>1. CASE ExecFlags(c)
      <4>1. /\ connKey' = [connKey EXCEPT ![ConnUser[c]].flags = pipe[c].flags] \/ UNCHANGED connKey
            /\ connKey \in [Users -> [kind : {"hash", "string"}, flags : SUBSET FlagTypes]]
        BY <3>1 DEF ExecFlags, TypeInv, StatusTypeOK
      <4>2. \A u \in Users : connKey'[u].kind = connKey[u].kind
        BY <4>1
      <4>3. PICK gone : /\ Excuse(ConnUser[c], Overtaken(c), gone)
                        /\ "string" \in gone => connKey[ConnUser[c]].kind = "hash"
        BY <3>1 DEF ExecFlags
      <4>4. /\ \A v \in Users \ {ConnUser[c]} : excuses'[v] = excuses[v]
            /\ excuses'[ConnUser[c]] = (excuses[ConnUser[c]] \ gone) \cup Overtaken(c)
        BY <1>0, <3>0, <4>3 DEF Excuse
      <4> QED
        BY <1>0, <4>2, <4>3, <4>4
    <3>2. CASE ExecStatus(c) \/ ExecOnline(c)
      <4>1. UNCHANGED connKey
        BY <3>2 DEF ExecStatus, ExecOnline
      <4>2. PICK gone : Excuse(ConnUser[c], Overtaken(c), gone) /\ "string" \notin gone
        BY <3>2 DEF ExecStatus, ExecOnline
      <4>3. /\ \A v \in Users \ {ConnUser[c]} : excuses'[v] = excuses[v]
            /\ excuses'[ConnUser[c]] = (excuses[ConnUser[c]] \ gone) \cup Overtaken(c)
        BY <1>0, <3>0, <4>2 DEF Excuse
      <4> QED
        BY <1>0, <4>1, <4>2, <4>3
    <3> QED
      BY <1>3, <3>1, <3>2
  <2> QED
    BY <2>2, <2>3, <2>4, <2>5 DEF CopyInv
<1>4. ASSUME NEW c \in Conns, ExecFails(c) PROVE CopyInv'
  <2>1. /\ pc[c] \in ExecSteps /\ Return(c) /\ Excuse(ConnUser[c], {"failed"}, {})
        /\ UNCHANGED <<statusCache, connKey, newest, current>>
    BY <1>4 DEF ExecFails, redisVars
  <2>2. /\ \A d \in Conns \ {c} : pc'[d] = pc[d] /\ (d \in stale' <=> d \in stale) /\ pipe'[d] = pipe[d]
        /\ pc'[c] = "ready" /\ stale' = stale \ {c}
    BY <2>1 DEF Return, TypeInv, StatusTypeOK
  <2>3. StaleOK'
    BY <1>0, <2>2
  <2>4. ASSUME NEW d \in Conns PROVE CopiedOK(d)' /\ RunOK(d)'
    <3>1. CASE d = c
      BY <2>2, <3>1 DEF Copied, ExecSteps
    <3>2. CASE d # c
      <4>1. (Old(d)' <=> Old(d)) /\ Record(d)' = Record(d)
        BY <2>1, <2>2, <3>2, CopySame
      <4>2. Copied(d) => Copied(d)'
        BY <2>2, <3>2, <4>1 DEF Copied
      <4> QED
        BY <1>0, <2>1, <2>2, <3>2, <4>1, <4>2
    <3> QED
      BY <3>1, <3>2
  <2>5. \A u \in Users : excuses[u] \subseteq excuses'[u]
    <3>1. /\ \A v \in Users \ {ConnUser[c]} : excuses'[v] = excuses[v]
          /\ excuses'[ConnUser[c]] = (excuses[ConnUser[c]] \ {}) \cup {"failed"}
      BY <1>0, <2>1 DEF Excuse
    <3> QED
      BY <3>1
  <2> QED
    BY <1>0, <2>1, <2>3, <2>4, <2>5 DEF CopyInv
<1>5. ASSUME UNCHANGED <<statusCache, pc, pipe, newest, stale, current>>, StringOK' PROVE CopyInv'
  <2>1. ASSUME NEW d \in Conns PROVE CopiedOK(d)' /\ RunOK(d)'
    <3>1. (Old(d)' <=> Old(d)) /\ Record(d)' = Record(d)
      BY <1>5, CopySame
    <3>2. Copied(d) => Copied(d)'
      BY <1>5, <3>1 DEF Copied
    <3> QED
      BY <1>0, <1>5, <3>1, <3>2
  <2> QED
    BY <1>0, <1>5, <2>1 DEF CopyInv
<1>6. ASSUME NEW b \in Beats, BeatConnections(b) \/ BeatOnline(b) PROVE CopyInv'
  <2>0. BeatUser[b] \in Users /\ connKey \in [Users -> [kind : {"hash", "string"}, flags : SUBSET FlagTypes]]
    BY StatusAssumption DEF TypeInv, StatusTypeOK
  <2>1. StringOK'
    <3>1. CASE BeatConnections(b)
      <4>1. /\ \A v \in Users \ {BeatUser[b]} : excuses'[v] = excuses[v] /\ connKey'[v] = connKey[v]
            /\ excuses'[BeatUser[b]] = (excuses[BeatUser[b]] \ {}) \cup {"string"}
        BY <1>0, <2>0, <3>1 DEF BeatConnections, Excuse
      <4> QED
        BY <1>0, <4>1
    <3>2. CASE BeatOnline(b)
      <4>1. UNCHANGED connKey /\ (Excuse(BeatUser[b], {"heartbeat"}, {}) \/ UNCHANGED excuses)
        BY <3>2 DEF BeatOnline
      <4>2. CASE UNCHANGED excuses
        BY <1>0, <4>1, <4>2
      <4>3. CASE Excuse(BeatUser[b], {"heartbeat"}, {})
        <5>1. /\ \A v \in Users \ {BeatUser[b]} : excuses'[v] = excuses[v]
              /\ excuses'[BeatUser[b]] = (excuses[BeatUser[b]] \ {}) \cup {"heartbeat"}
          BY <1>0, <2>0, <4>3 DEF Excuse
        <5> QED
          BY <1>0, <4>1, <5>1
      <4> QED
        BY <4>1, <4>2, <4>3
    <3> QED
      BY <1>6, <3>1, <3>2
  <2> QED
    BY <1>5, <1>6, <2>1 DEF BeatConnections, BeatOnline, historyVars
<1>7. ASSUME NEW u \in Users, Expire(u) PROVE CopyInv'
  <2>1. connKey \in [Users -> [kind : {"hash", "string"}, flags : SUBSET FlagTypes]]
    BY DEF TypeInv, StatusTypeOK
  <2>2. StringOK'
    BY <1>0, <1>7, <2>1 DEF Expire
  <2> QED
    BY <1>5, <1>7, <2>2 DEF Expire, historyVars
<1>8. ASSUME NEW c \in Conns, SkipUpdate(c) PROVE CopyInv'
  BY <1>0, <1>5, <1>8 DEF SkipUpdate, historyVars, redisVars
<1>9. CASE UNCHANGED vars
  BY <1>0, <1>5, <1>9 DEF vars
<1> QED
  BY <1>1, <1>2, <1>3, <1>4, <1>6, <1>7, <1>8, <1>9, StatusSteps

-----------------------------------------------------------------------------
(* What arrives in Redis.                                                  *)

\* A step that touches no handler of u, and nothing of u's.
LEMMA OtherUser ==
  ASSUME NEW u \in Users,
         \A d \in Conns : ConnUser[d] = u => pc'[d] = pc[d] /\ (Old(d)' <=> Old(d)),
         newest'[u] = newest[u], u \in current' <=> u \in current, Newest(u)' = Newest(u),
         status'[u] = status[u], connKey'[u] = connKey[u], u \in onlineUsers' <=> u \in onlineUsers,
         excuses'[u] = excuses[u], Coming(u), Arrived(u)
  PROVE  Coming(u)' /\ Arrived(u)'
<1>1. ASSUME NEW steps PROVE Fresh(u, steps)' = Fresh(u, steps)
  BY DEF Fresh
<1>2. Coming(u)'
  BY <1>1 DEF Coming
<1> QED
  BY <1>1, <1>2 DEF Arrived

\* A handler with a copy that is not old runs a command: Redis now has of its user
\* what the command brings, and the rest is still to come.
LEMMA FreshCommand ==
  ASSUME TypeInv, CopyInv, NEW c \in Conns, ExecStatus(c) \/ ExecFlags(c) \/ ExecOnline(c),
         ~Old(c), ConnUser[c] \in current => Arrived(ConnUser[c])
  PROVE  Arrived(ConnUser[c])'
<1> DEFINE u == ConnUser[c]
<1>1. /\ \A d \in Conns \ {c} : pc'[d] = pc[d] /\ (d \in stale' <=> d \in stale)
      /\ pc'[c] # "ready" => stale' = stale
      /\ UNCHANGED <<statusCache, newest>>
  BY CommandStep
<1>2. /\ u \in Users /\ pipe[c] \in Pipes /\ Record(c) \in UserStatus
      /\ excuses \in [Users -> SUBSET {"overtaken", "failed", "string", "heartbeat"}]
      /\ connKey \in [Users -> [kind : {"hash", "string"}, flags : SUBSET FlagTypes]]
      /\ pc \in [Conns -> Steps] /\ DOMAIN status = Users
  BY StatusAssumption DEF TypeInv, StatusTypeOK, Pipes, Record
<1>3. Copied(c) /\ Record(c) = Newest(u) /\ Newest(u)' = Newest(u)
  BY <1>1 DEF CopyInv, Old, Record, Newest
<1>4. \A d \in Conns \ {c} : Old(d)' <=> Old(d)
  BY <1>1 DEF Old
<1>5. ASSUME NEW steps, NEW d \in Fresh(u, steps), d # c PROVE d \in Fresh(u, steps)'
  BY <1>1, <1>4, <1>5 DEF Fresh
<1>6. CASE ExecStatus(c)
  <2>1. /\ pc[c] = "execStatus" /\ pc'[c] = "execFlags" /\ status' = [status EXCEPT ![u] = << pipe[c].json >>]
    BY <1>2, <1>6 DEF ExecStatus, Goto
  <2>2. pipe[c].json = Newest(u)
    <3>1. pipe[c].json \in UserStatus /\ Newest(u) \in UserStatus
      BY <1>2, <1>3 DEF Pipes
    <3>2. pipe[c].json.online = Newest(u).online /\ pipe[c].json.flags = Newest(u).flags
      BY <1>3, <2>1 DEF Copied, ExecSteps
    <3> QED
      BY <3>1, <3>2 DEF UserStatus
  <2>3. status'[u] = << Newest(u) >>
    BY <1>2, <2>1, <2>2
  <2>4. c \in Fresh(u, {"execFlags"})' /\ c \in Fresh(u, {"execFlags", "execOnline"})'
    BY <1>1, <2>1 DEF Fresh, Old
  <2> QED
    BY <1>3, <2>3, <2>4 DEF Arrived
<1>7. CASE ExecFlags(c)
  <2>1. /\ pc[c] = "execFlags" /\ pc'[c] = "execOnline" /\ UNCHANGED <<status, onlineUsers>>
    BY <1>2, <1>7 DEF ExecFlags, Goto
  <2>2. u \in current /\ Arrived(u)
    BY <2>1 DEF CopyInv
  <2>3. "string" \in excuses'[u] \/ connKey'[u] = [kind |-> "hash", flags |-> Newest(u).flags]
    <3>1. CASE connKey[u].kind = "hash" /\ connKey' = [connKey EXCEPT ![u].flags = pipe[c].flags]
      <4>1. pipe[c].flags = Newest(u).flags
        BY <1>3, <2>1 DEF Copied, ExecSteps
      <4> QED
        BY <1>2, <3>1, <4>1
    <3>2. CASE connKey[u].kind = "string" /\ Excuse(u, Overtaken(c), {})
      BY <1>2, <3>2 DEF CopyInv, Excuse
    <3> QED
      BY <1>7, <3>1, <3>2 DEF ExecFlags
  <2>4. c \in Fresh(u, {"execFlags", "execOnline"})'
    BY <1>1, <2>1 DEF Fresh, Old
  <2> QED
    BY <1>3, <2>1, <2>2, <2>3, <2>4 DEF Arrived
<1>8. CASE ExecOnline(c)
  <2>1. /\ pc[c] = "execOnline" /\ UNCHANGED <<status, connKey>>
        /\ onlineUsers' = IF pipe[c].online THEN onlineUsers \cup {u} ELSE onlineUsers \ {u}
        /\ Excuse(u, Overtaken(c), {"heartbeat"})
    BY <1>8 DEF ExecOnline
  <2>2. u \in current /\ Arrived(u)
    BY <2>1 DEF CopyInv
  <2>3. pipe[c].online = Newest(u).online
    BY <1>3, <2>1 DEF Copied, ExecSteps
  <2>4. u \in onlineUsers' <=> Newest(u).online
    BY <2>1, <2>3
  <2>5. "string" \in excuses[u] => "string" \in excuses'[u]
    BY <1>2, <2>1 DEF Excuse
  <2>6. Fresh(u, {"execFlags"}) # {} => Fresh(u, {"execFlags"})' # {}
    <3>1. \A d \in Fresh(u, {"execFlags"}) : d # c
      BY <2>1 DEF Fresh
    <3> QED
      BY <1>5, <3>1
  <2> QED
    BY <1>3, <2>1, <2>2, <2>4, <2>5, <2>6 DEF Arrived
<1> QED
  BY <1>6, <1>7, <1>8

\* Every change of a record is followed by a copy of it, and what has arrived stays
\* there: only a copy that overtakes, a heartbeat or a broken connection undo it,
\* and these are known.
LEMMA NextSyncInv ==
  ASSUME TypeInv, CopyInv, SyncInv, [Next]_vars
  PROVE  SyncInv'
<1> SUFFICES ASSUME NEW u \in Users, ~Excused(u)' PROVE Coming(u)' /\ Arrived(u)'
  BY DEF SyncInv
<1>0. /\ excuses \in [Users -> SUBSET {"overtaken", "failed", "string", "heartbeat"}]
      /\ connKey \in [Users -> [kind : {"hash", "string"}, flags : SUBSET FlagTypes]]
      /\ newest \in [Users -> Servers \cup {NoServer}]
      /\ pc \in [Conns -> Steps] /\ DOMAIN status = Users
      /\ \A d \in Conns : ConnUser[d] \in Users /\ ConnServer[d] \in Servers
      /\ NoServer \notin Servers
  BY StatusAssumption DEF TypeInv, StatusTypeOK
<1>1. ASSUME NEW c \in Conns, SetOnline(c) \/ SetFlag(c) PROVE Coming(u)' /\ Arrived(u)'
  <2>1. /\ pc'[c] \in {"flag", "marshal"} /\ \A d \in Conns \ {c} : pc'[d] = pc[d]
        /\ \A s \in Servers, v \in Users :
             (s # ConnServer[c] \/ v # ConnUser[c]) => statusCache'[s][v] = statusCache[s][v]
        /\ UNCHANGED <<status, connKey, onlineUsers, excuses>>
    BY <1>1, RecordStep
  <2>2. CASE u = ConnUser[c]
    <3>1. c \in Fresh(u, BeforeExec)' /\ u \notin current'
      BY <1>1, <2>1, <2>2, ChangeEffect DEF Fresh, BeforeExec
    <3> QED
      BY <3>1 DEF Coming, Arrived
  <2>3. CASE u # ConnUser[c]
    <3>1. newest'[u] = newest[u] /\ (u \in current' <=> u \in current)
      BY <1>1, <2>3, ChangeEffect
    <3>2. \A d \in Conns : ConnUser[d] = u => pc'[d] = pc[d] /\ (Old(d)' <=> Old(d))
      BY <1>1, <2>1, <2>3, ChangeEffect
    <3>3. newest[u] \in Servers => Newest(u)' = Newest(u)
      BY <2>1, <2>3, <3>1 DEF Newest
    <3>4. Coming(u) /\ Arrived(u)
      BY <2>1 DEF SyncInv, Excused
    <3>5. CASE newest[u] \in Servers
      BY <2>1, <3>1, <3>2, <3>3, <3>4, <3>5, OtherUser
    <3>6. CASE newest[u] = NoServer
      BY <3>1, <3>6 DEF Coming, Arrived, CopyInv
    <3> QED
      BY <1>0, <3>5, <3>6
  <2> QED
    BY <2>2, <2>3
<1>2. ASSUME NEW c \in Conns, MarshalOnline(c) \/ MarshalFlags(c) \/ QueueFlags(c) \/ QueueOnline(c)
      PROVE  Coming(u)' /\ Arrived(u)'
  <2>1. /\ \A d \in Conns \ {c} : pc'[d] = pc[d]
        /\ pc[c] \in {"marshal"} \cup ReadSteps /\ pc'[c] \in ReadSteps \cup {"execStatus"}
        /\ UNCHANGED <<statusCache, status, connKey, onlineUsers, newest, stale, current, excuses>>
    BY <1>2, ReadStep
  <2>2. \A d \in Conns : Old(d)' <=> Old(d)
    BY <2>1 DEF Old
  <2>3. Fresh(u, BeforeExec) \subseteq Fresh(u, BeforeExec)'
    BY <2>1, <2>2 DEF Fresh, BeforeExec
  <2>4. /\ Fresh(u, {"execFlags"}) \subseteq Fresh(u, {"execFlags"})'
        /\ Fresh(u, {"execFlags", "execOnline"}) \subseteq Fresh(u, {"execFlags", "execOnline"})'
    BY <2>1, <2>2 DEF Fresh, ReadSteps
  <2>5. Coming(u) /\ Arrived(u) /\ Newest(u)' = Newest(u)
    BY <2>1 DEF SyncInv, Excused, Newest
  <2>6. Coming(u)'
    BY <2>1, <2>3, <2>5 DEF Coming
  <2>7. Arrived(u)'
    BY <2>1, <2>4, <2>5 DEF Arrived
  <2> QED
    BY <2>6, <2>7
<1>3. ASSUME NEW c \in Conns, ExecStatus(c) \/ ExecFlags(c) \/ ExecOnline(c)
      PROVE  Coming(u)' /\ Arrived(u)'
  <2>1. /\ \A d \in Conns \ {c} : pc'[d] = pc[d] /\ (d \in stale' <=> d \in stale)
        /\ pc[c] \in ExecSteps
        /\ Old(c) => current' = current
        /\ ~Old(c) => current' = current \cup {ConnUser[c]}
        /\ UNCHANGED <<statusCache, newest>>
    BY <1>3, CommandStep
  <2>2. PICK gone \in SUBSET {"string", "heartbeat"} : Excuse(ConnUser[c], Overtaken(c), gone)
    BY <1>3, CommandStep
  <2>3. /\ \A v \in Users \ {ConnUser[c]} : excuses'[v] = excuses[v]
        /\ excuses'[ConnUser[c]] = (excuses[ConnUser[c]] \ gone) \cup Overtaken(c)
    BY <1>0, <2>2 DEF Excuse
  <2>4. ~Excused(u)
    BY <1>0, <2>2, <2>3 DEF Excused
  <2>5. Coming(u) /\ Arrived(u)
    BY <2>4 DEF SyncInv
  <2>6. CASE u # ConnUser[c]
    <3>1. \A d \in Conns : ConnUser[d] = u => pc'[d] = pc[d] /\ (Old(d)' <=> Old(d))
      BY <2>1, <2>6 DEF Old
    <3>2. status'[u] = status[u] /\ connKey'[u] = connKey[u] /\ (u \in onlineUsers' <=> u \in onlineUsers)
      <4>1. CASE ExecStatus(c)
        BY <1>0, <2>6, <4>1 DEF ExecStatus
      <4>2. CASE ExecFlags(c)
        BY <1>0, <2>6, <4>2 DEF ExecFlags
      <4>3. CASE ExecOnline(c)
        BY <2>6, <4>3 DEF ExecOnline
      <4> QED
        BY <1>3, <4>1, <4>2, <4>3
    <3>3. newest'[u] = newest[u] /\ (u \in current' <=> u \in current) /\ Newest(u)' = Newest(u)
      BY <2>1, <2>6 DEF Newest
    <3> QED
      BY <2>3, <2>5, <2>6, <3>1, <3>2, <3>3, OtherUser
  <2>7. CASE u = ConnUser[c] /\ ~Old(c)
    <3>1. Arrived(u)'
      BY <1>3, <2>5, <2>7, FreshCommand
    <3>2. u \in current'
      BY <2>1, <2>7
    <3> QED
      BY <3>1, <3>2 DEF Coming
  <2>8. CASE u = ConnUser[c] /\ Old(c)
    <3>1. u \notin current
      BY <2>3, <2>8 DEF Overtaken, Excused
    <3>2. u \notin current' /\ newest' = newest
      BY <2>1, <2>8, <3>1
    <3>3. Fresh(u, BeforeExec) \subseteq Fresh(u, BeforeExec)'
      BY <2>1, <2>8 DEF Fresh, Old
    <3> QED
      BY <2>5, <3>1, <3>2, <3>3 DEF Coming, Arrived
  <2> QED
    BY <2>6, <2>7, <2>8
<1>4. ASSUME NEW c \in Conns, ExecFails(c) PROVE Coming(u)' /\ Arrived(u)'
  <2>1. /\ Return(c) /\ Excuse(ConnUser[c], {"failed"}, {})
        /\ UNCHANGED <<statusCache, status, connKey, onlineUsers, newest, current>>
    BY <1>4 DEF ExecFails, redisVars
  <2>2. /\ \A v \in Users \ {ConnUser[c]} : excuses'[v] = excuses[v]
        /\ "failed" \in excuses'[ConnUser[c]]
    BY <1>0, <2>1 DEF Excuse
  <2>3. u # ConnUser[c]
    BY <2>2 DEF Excused
  <2>4. \A d \in Conns : ConnUser[d] = u => pc'[d] = pc[d] /\ (Old(d)' <=> Old(d))
    BY <1>0, <2>1, <2>3 DEF Old, Return
  <2>5. Coming(u) /\ Arrived(u) /\ Newest(u)' = Newest(u)
    BY <2>1, <2>2, <2>3 DEF SyncInv, Excused, Newest
  <2> QED
    BY <2>1, <2>2, <2>3, <2>4, <2>5, OtherUser
<1>5. ASSUME UNCHANGED <<statusCache, pc, status, newest, stale, current>> PROVE
        /\ \A d \in Conns : pc'[d] = pc[d] /\ (Old(d)' <=> Old(d))
        /\ Newest(u)' = Newest(u)
        /\ \A steps : Fresh(u, steps)' = Fresh(u, steps)
  BY <1>5 DEF Old, Newest, Fresh
<1>6. ASSUME NEW b \in Beats, BeatConnections(b) PROVE Coming(u)' /\ Arrived(u)'
  <2>1. /\ UNCHANGED <<statusCache, pc, status, newest, stale, current, onlineUsers>>
        /\ BeatUser[b] \in Users
    BY <1>6, StatusAssumption DEF BeatConnections, historyVars
  <2>2. /\ \A v \in Users \ {BeatUser[b]} : excuses'[v] = excuses[v] /\ connKey'[v] = connKey[v]
        /\ excuses'[BeatUser[b]] = (excuses[BeatUser[b]] \ {}) \cup {"string"}
    BY <1>0, <1>6, <2>1 DEF BeatConnections, Excuse
  <2>3. Coming(u) /\ Arrived(u)
    BY <2>2 DEF SyncInv, Excused
  <2>4. Coming(u)'
    BY <1>5, <2>1, <2>3 DEF Coming
  <2>5. Arrived(u)'
    BY <1>5, <2>1, <2>2, <2>3 DEF Arrived
  <2> QED
    BY <2>4, <2>5
<1>7. ASSUME NEW b \in Beats, BeatOnline(b) PROVE Coming(u)' /\ Arrived(u)'
  <2>1. /\ UNCHANGED <<statusCache, pc, status, connKey, newest, stale, current>>
        /\ BeatUser[b] \in Users
    BY <1>7, StatusAssumption DEF BeatOnline, historyVars
  <2>2. \/ UNCHANGED <<onlineUsers, excuses>>
        \/ /\ \A v \in Users \ {BeatUser[b]} : excuses'[v] = excuses[v] /\ (v \in onlineUsers' <=> v \in onlineUsers)
           /\ excuses'[BeatUser[b]] = (excuses[BeatUser[b]] \ {}) \cup {"heartbeat"}
    BY <1>0, <1>7, <2>1 DEF BeatOnline, Excuse
  <2>3. Coming(u) /\ Arrived(u)
    BY <2>2 DEF SyncInv, Excused
  <2>4. Coming(u)'
    BY <1>5, <2>1, <2>3 DEF Coming
  <2>5. Arrived(u)'
    BY <1>5, <2>1, <2>2, <2>3 DEF Arrived
  <2> QED
    BY <2>4, <2>5
<1>8. ASSUME NEW v \in Users, Expire(v) PROVE Coming(u)' /\ Arrived(u)'
  <2>1. /\ UNCHANGED <<statusCache, pc, status, newest, stale, current, onlineUsers, excuses>>
        /\ connKey[v].kind = "string"
        /\ \A w \in Users \ {v} : connKey'[w] = connKey[w]
    BY <1>0, <1>8 DEF Expire, historyVars
  <2>2. Coming(u) /\ Arrived(u)
    BY <2>1 DEF SyncInv, Excused
  <2>3. u = v => "string" \in excuses[u]
    BY <2>1 DEF CopyInv
  <2>4. Coming(u)'
    BY <1>5, <2>1, <2>2 DEF Coming
  <2>5. Arrived(u)'
    BY <1>5, <2>1, <2>2, <2>3 DEF Arrived
  <2> QED
    BY <2>4, <2>5
<1>9. ASSUME UNCHANGED <<statusCache, pc, status, connKey, onlineUsers, newest, stale, current, excuses>>
      PROVE  Coming(u)' /\ Arrived(u)'
  <2>1. Coming(u) /\ Arrived(u)
    BY <1>9 DEF SyncInv, Excused
  <2>2. Coming(u)'
    BY <1>5, <1>9, <2>1 DEF Coming
  <2>3. Arrived(u)'
    BY <1>5, <1>9, <2>1 DEF Arrived
  <2> QED
    BY <2>2, <2>3
<1>10. ASSUME NEW c \in Conns, SkipUpdate(c) PROVE Coming(u)' /\ Arrived(u)'
  BY <1>9, <1>10 DEF SkipUpdate, redisVars, historyVars
<1>11. CASE UNCHANGED vars
  BY <1>9, <1>11 DEF vars
<1> QED
  BY <1>1, <1>2, <1>3, <1>4, <1>6, <1>7, <1>8, <1>10, <1>11, StatusSteps

\* From every moment on, what Redis has of a user is the record that was changed
\* last, or a copy of that is on its way.
THEOREM SyncInvariant == Spec => [](TypeInv /\ CopyInv /\ SyncInv)
<1>1. Init => TypeInv /\ CopyInv /\ SyncInv
  <2> SUFFICES ASSUME Init PROVE CopyInv /\ SyncInv
    BY InitTypeInv
  <2>1. CopyInv
    BY DEF Init, CopyInv, Copied, ExecSteps
  <2>2. SyncInv
    BY DEF Init, SyncInv, Coming, Arrived
  <2> QED
    BY <2>1, <2>2
<1>2. TypeInv /\ CopyInv /\ SyncInv /\ [Next]_vars => (TypeInv /\ CopyInv /\ SyncInv)'
  BY NextTypeInv, NextCopyInv, NextSyncInv
<1> QED
  BY <1>1, <1>2, PTL DEF Spec

\* Once no update of a user is under way nobody is about to bring anything.
LEMMA SettledArrived ==
  ASSUME TypeInv, CopyInv, SyncInv, NEW u \in Users, Settled(u)
  PROVE  u \in current /\ Arrived(u) /\ Fresh(u, {"execFlags"}) = {} /\ Fresh(u, {"execFlags", "execOnline"}) = {}
<1>1. Fresh(u, BeforeExec) = {} /\ Fresh(u, {"execFlags"}) = {} /\ Fresh(u, {"execFlags", "execOnline"}) = {}
  BY DEF Settled, Fresh, BeforeExec, ReadSteps
<1>2. Coming(u) /\ Arrived(u) /\ newest[u] # NoServer
  BY DEF SyncInv, Settled, Excused
<1> QED
  BY <1>1, <1>2 DEF Coming

\* Redis ends with the record of the server that changed it last, however the
\* updates of a user's connections on any servers, and heartbeats, interleave,
\* unless a copy was overtaken or cut short.
THEOREM RecordArrives == Spec => []RecordCatchesUp
<1>1. TypeInv /\ CopyInv /\ SyncInv => RecordCatchesUp
  BY SettledArrived DEF RecordCatchesUp, Arrived, Newest
<1> QED
  BY <1>1, SyncInvariant, PTL

\* The same for the set of online users.
THEOREM OnlineSetArrives == Spec => []OnlineSetCatchesUp
<1>1. TypeInv /\ CopyInv /\ SyncInv => OnlineSetCatchesUp
  BY SettledArrived DEF OnlineSetCatchesUp, Arrived, Newest
<1> QED
  BY <1>1, SyncInvariant, PTL
=============================================================================
