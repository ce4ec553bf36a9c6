---------------------------- MODULE StatusManager ----------------------------
(***************************************************************************)
(* Who is online.  Every server keeps a record of each user in memory,     *)
(* which the handlers of connections change under a mutex, and copies it   *)
(* to Redis after they have released it: the record as JSON, a hash of its *)
(* flags, and the membership in the set of online users, as commands of    *)
(* one pipeline, which is no transaction.  An HTTP heartbeat writes two of *)
(* these keys too.                                                         *)
(***************************************************************************)
EXTENDS Naturals, Sequences, FiniteSets

CONSTANTS
  Servers, Users,
  Conns,        \* connections, each with a handler
  ConnUser, ConnServer, ConnType,
  Staying,      \* those whose client stays
  Beats,        \* HTTP heartbeats
  BeatUser,
  MayFail,      \* those whose connection to Redis may break during a pipeline
  NoServer

ASSUME StatusAssumption ==
  /\ ConnUser \in [Conns -> Users] /\ ConnServer \in [Conns -> Servers]
  /\ ConnType \in [Conns -> {"websocket", "tcp", "tcp_ws"}]
  /\ Staying \subseteq Conns
  /\ BeatUser \in [Beats -> Users]
  /\ MayFail \subseteq Conns \cup Beats /\ NoServer \notin Servers

\* The types that have a flag of their own and that somebody passes.
FlagTypes == {"websocket", "tcp"}
UserStatus == [online : BOOLEAN, flags : SUBSET FlagTypes]
Offline == [online |-> FALSE, flags |-> {}]

VARIABLES
  statusCache, \* the records in memory
  pc,          \* what a handler does next in UpdateUserStatus
  turn,        \* which of its updates that is
  pipe,        \* what it has read from the record so far
  beat,        \* how far the pipeline of a heartbeat is
  status,      \* Redis: the record as JSON, << >> before there is one
  connKey,     \* Redis: a hash of flags, or the string a heartbeat has put there
  onlineUsers, \* Redis: the set
  newest,      \* history: the server that changed a record of the user last,
  stale,       \* the handlers that had begun to read a record before that,
  current,     \* the users of whom Redis has had a copy that is not older, and
  excuses      \* what has happened to their keys

redisVars == <<status, connKey, onlineUsers>>
historyVars == <<newest, stale, current>>
vars == <<statusCache, pc, turn, pipe, beat, status, connKey, onlineUsers,
          newest, stale, current, excuses>>

\* The updates of the handler of c: a TCP-style connection first unregisters
\* the user's WebSocket connections.
Updates(c) ==
  LET off(type) == << [type |-> type, online |-> FALSE] >>
  IN  (IF ConnType[c] = "websocket" THEN << >> ELSE off("websocket"))
        \o << [type |-> ConnType[c], online |-> TRUE] >>
        \o (IF c \in Staying THEN << >> ELSE off(ConnType[c]))

Update(c) == Updates(c)[turn[c]]
NoPipe == [json |-> Offline, flags |-> {}, online |-> FALSE]
Record(c) == statusCache[ConnServer[c]][ConnUser[c]]

Init ==
  /\ statusCache = [s \in Servers |-> [u \in Users |-> Offline]]
  /\ pc = [c \in Conns |-> "ready"] /\ turn = [c \in Conns |-> 1]
  /\ pipe = [c \in Conns |-> NoPipe]
  /\ beat = [b \in Beats |-> "new"]
  /\ status = [u \in Users |-> << >>]
  /\ connKey = [u \in Users |-> [kind |-> "hash", flags |-> {}]]
  /\ onlineUsers = {}
  /\ newest = [u \in Users |-> NoServer] /\ stale = {} /\ current = {}
  /\ excuses = [u \in Users |-> {}]

-----------------------------------------------------------------------------
(* UpdateUserStatus: the record, under the mutex.                          *)

ReadSteps == {"marshalFlags", "queueFlags", "queueOnline"}
ExecSteps == {"execStatus", "execFlags", "execOnline"}
Steps == {"ready", "flag", "marshal"} \cup ReadSteps \cup ExecSteps

Goto(c, from, to) == pc[c] = from /\ pc' = [pc EXCEPT ![c] = to]

\* The record has changed: what others have read of it is old.
Changed(c) ==
  LET u == ConnUser[c]
  IN  /\ newest' = [newest EXCEPT ![u] = ConnServer[c]]
      /\ stale' = stale \cup {d \in Conns : ConnUser[d] = u /\ pc[d] \in ReadSteps \cup ExecSteps}
      /\ current' = current \ {u}

\* UnregisterConnection has seen other connections: the user stays online.
SkipUpdate(c) ==
  /\ pc[c] = "ready" /\ turn[c] <= Len(Updates(c))
  /\ ~Update(c).online
  /\ turn' = [turn EXCEPT ![c] = @ + 1]
  /\ UNCHANGED <<statusCache, pc, pipe, beat, redisVars, historyVars, excuses>>

\* The mutex is taken and the record made or found; its common flag, ...
SetOnline(c) ==
  /\ Goto(c, "ready", "flag")
  /\ turn[c] <= Len(Updates(c))
  /\ \A d \in Conns : ConnServer[d] = ConnServer[c] => pc[d] # "flag"
  /\ statusCache' = [statusCache EXCEPT ![ConnServer[c]][ConnUser[c]].online = Update(c).online]
  /\ Changed(c)
  /\ UNCHANGED <<turn, pipe, beat, redisVars, excuses>>

\* ... the flag of the connection's type, if it has one, and the mutex is free.
SetFlag(c) ==
  /\ Goto(c, "flag", "marshal")
  /\ statusCache' =
       [statusCache EXCEPT ![ConnServer[c]][ConnUser[c]].flags =
          IF Update(c).online THEN @ \cup ({Update(c).type} \cap FlagTypes)
                              ELSE @ \ {Update(c).type}]
  /\ Changed(c)
  /\ UNCHANGED <<turn, pipe, beat, redisVars, excuses>>

-----------------------------------------------------------------------------
(* syncToRedis: the record is read again, without the mutex, while others   *)
(* may change it.                                                          *)

\* json.Marshal reads the common flag, ...
MarshalOnline(c) ==
  /\ pipe' = [pipe EXCEPT ![c].json.online = Record(c).online]
  /\ Goto(c, "marshal", "marshalFlags")
  /\ UNCHANGED <<statusCache, turn, beat, redisVars, historyVars, excuses>>

\* ... and then the flags; ...
MarshalFlags(c) ==
  /\ pipe' = [pipe EXCEPT ![c].json.flags = Record(c).flags]
  /\ Goto(c, "marshalFlags", "queueFlags")
  /\ UNCHANGED <<statusCache, turn, beat, redisVars, historyVars, excuses>>

\* ... the commands for the hash depend on the flags as they are now, ...
QueueFlags(c) ==
  /\ pipe' = [pipe EXCEPT ![c].flags = Record(c).flags]
  /\ Goto(c, "queueFlags", "queueOnline")
  /\ UNCHANGED <<statusCache, turn, beat, redisVars, historyVars, excuses>>

\* ... and the command for the set on the common flag as it is now.
QueueOnline(c) ==
  /\ pipe' = [pipe EXCEPT ![c].online = Record(c).online]
  /\ Goto(c, "queueOnline", "execStatus")
  /\ UNCHANGED <<statusCache, turn, beat, redisVars, historyVars, excuses>>

-----------------------------------------------------------------------------
(* pipe.Exec: Redis runs the commands one after the other.                 *)

\* What c has copied misses the last change of the user's records: c had begun
\* to read before it, or the change was made at another server.
Old(c) == c \in stale \/ newest[ConnUser[c]] # ConnServer[c]

\* A command of c is run.  An old copy overtakes if Redis has had a newer one.
Runs(c) ==
  /\ current' = IF Old(c) THEN current ELSE current \cup {ConnUser[c]}
  /\ UNCHANGED newest

Overtaken(c) == IF Old(c) /\ ConnUser[c] \in current THEN {"overtaken"} ELSE {}

Excuse(u, new, gone) == excuses' = [excuses EXCEPT ![u] = (@ \ gone) \cup new]

\* The call returns.
Return(c) ==
  /\ pc' = [pc EXCEPT ![c] = "ready"]
  /\ turn' = [turn EXCEPT ![c] = @ + 1]
  /\ pipe' = [pipe EXCEPT ![c] = NoPipe]
  /\ stale' = stale \ {c}

ExecStatus(c) ==
  LET u == ConnUser[c]
  IN  /\ status' = [status EXCEPT ![u] = << pipe[c].json >>]
      /\ Goto(c, "execStatus", "execFlags")
      /\ Runs(c) /\ Excuse(u, Overtaken(c), {})
      /\ UNCHANGED <<statusCache, stale, turn, pipe, beat, connKey, onlineUsers>>

\* Slip: flags are set and never deleted.
ExecFlagsSetOnly(c) ==
  LET u == ConnUser[c]
  IN  /\ connKey[u].kind = "hash"
      /\ connKey' = [connKey EXCEPT ![u].flags = @ \cup pipe[c].flags]
      /\ Excuse(u, Overtaken(c), {"string"})
      /\ Goto(c, "execFlags", "execOnline")
      /\ Runs(c)
      /\ UNCHANGED <<statusCache, stale, turn, pipe, beat, status, onlineUsers>>

\* One HSET or HDEL for every type.  They fail when a heartbeat has made the key
\* a string; the pipeline goes on.
ExecFlags(c) ==
  LET u == ConnUser[c]
  IN  /\ \/ /\ connKey[u].kind = "hash"
            /\ connKey' = [connKey EXCEPT ![u].flags = pipe[c].flags]
            /\ Excuse(u, Overtaken(c), {"string"})
         \/ /\ connKey[u].kind = "string"
            /\ Excuse(u, Overtaken(c), {})
            /\ UNCHANGED connKey
      /\ Goto(c, "execFlags", "execOnline")
      /\ Runs(c)
      /\ UNCHANGED <<statusCache, stale, turn, pipe, beat, status, onlineUsers>>

\* Slip: who goes offline stays in the set.
ExecOnlineAddOnly(c) ==
  LET u == ConnUser[c]
  IN  /\ pc[c] = "execOnline"
      /\ onlineUsers' = IF pipe[c].online THEN onlineUsers \cup {u} ELSE onlineUsers
      /\ Runs(c) /\ Excuse(u, Overtaken(c), {"heartbeat"})
      /\ Return(c)
      /\ UNCHANGED <<statusCache, beat, status, connKey>>

\* SADD or SREM, and the update is over.
ExecOnline(c) ==
  LET u == ConnUser[c]
  IN  /\ pc[c] = "execOnline"
      /\ onlineUsers' = IF pipe[c].online THEN onlineUsers \cup {u} ELSE onlineUsers \ {u}
      /\ Runs(c) /\ Excuse(u, Overtaken(c), {"heartbeat"})
      /\ Return(c)
      /\ UNCHANGED <<statusCache, beat, status, connKey>>

\* The connection to Redis breaks, before or between the commands; the caller
\* logs the error and goes on.
ExecFails(c) ==
  /\ c \in MayFail
  /\ pc[c] \in ExecSteps
  /\ Excuse(ConnUser[c], {"failed"}, {})
  /\ Return(c)
  /\ UNCHANGED <<statusCache, beat, redisVars, newest, current>>

UpdateUserStatus(c) ==
  \/ SkipUpdate(c) \/ SetOnline(c) \/ SetFlag(c)
  \/ MarshalOnline(c) \/ MarshalFlags(c) \/ QueueFlags(c) \/ QueueOnline(c)
  \/ ExecStatus(c) \/ ExecFlags(c) \/ ExecOnline(c) \/ ExecFails(c)

-----------------------------------------------------------------------------
(* Heartbeat of the HTTP interface, and the ten minutes of a key.          *)

\* SET of the key of the hash to a string, which succeeds whatever was there, ...
BeatConnections(b) ==
  LET u == BeatUser[b]
  IN  /\ beat[b] = "new"
      /\ beat' = [beat EXCEPT ![b] = "add"]
      /\ connKey' = [connKey EXCEPT ![u] = [kind |-> "string", flags |-> {}]]
      /\ Excuse(u, {"string"}, {})
      /\ UNCHANGED <<statusCache, pc, turn, pipe, status, onlineUsers, historyVars>>

\* ... and SADD, if the connection to Redis has not broken.
BeatOnline(b) ==
  LET u == BeatUser[b]
  IN  /\ beat[b] = "add"
      /\ beat' = [beat EXCEPT ![b] = "done"]
      /\ \/ /\ onlineUsers' = onlineUsers \cup {u}
            /\ Excuse(u, {"heartbeat"}, {})
         \/ b \in MayFail /\ UNCHANGED <<onlineUsers, excuses>>
      /\ UNCHANGED <<statusCache, pc, turn, pipe, status, connKey, historyVars>>

\* The string expires.  The hash and the set do not; the JSON does, which is left
\* out since no update reads it back.
Expire(u) ==
  /\ connKey[u].kind = "string"
  /\ connKey' = [connKey EXCEPT ![u] = [kind |-> "hash", flags |-> {}]]
  /\ UNCHANGED <<statusCache, pc, turn, pipe, beat, status, onlineUsers, historyVars, excuses>>

-----------------------------------------------------------------------------
Next ==
  \/ \E c \in Conns : UpdateUserStatus(c)
  \/ \E b \in Beats : BeatConnections(b) \/ BeatOnline(b)
  \/ \E u \in Users : Expire(u)

Spec == Init /\ [][Next]_vars

-----------------------------------------------------------------------------
(* Properties.                                                             *)

\* Every variable has its type.
StatusTypeOK ==
  /\ statusCache \in [Servers -> [Users -> UserStatus]]
  /\ pc \in [Conns -> Steps] /\ turn \in [Conns -> 1 .. 4]
  /\ pipe \in [Conns -> [json : UserStatus, flags : SUBSET FlagTypes, online : BOOLEAN]]
  /\ beat \in [Beats -> {"new", "add", "done"}]
  /\ status \in [Users -> {<< >>} \cup {<< r >> : r \in UserStatus}]
  /\ connKey \in [Users -> [kind : {"hash", "string"}, flags : SUBSET FlagTypes]]
  /\ onlineUsers \subseteq Users
  /\ newest \in [Users -> Servers \cup {NoServer}]
  /\ stale \subseteq Conns /\ current \subseteq Users
  /\ excuses \in [Users -> SUBSET {"overtaken", "failed", "string", "heartbeat"}]

\* No update of u is under way, and none was cut short or overtaken.
Settled(u) ==
  /\ \A c \in Conns : ConnUser[c] = u => pc[c] = "ready"
  /\ newest[u] # NoServer
  /\ excuses[u] \cap {"overtaken", "failed"} = {}

\* Although a record is copied without its mutex, field by field and more than
\* once, Redis has the whole of the record of the server that changed it last once
\* no update is under way, unless a copy made before reached Redis after a later
\* one, or was cut short: the JSON, and the hash unless a heartbeat has replaced it
\* since it was last written.
RecordCatchesUp ==
  \A u \in Users : Settled(u) =>
    LET record == statusCache[newest[u]][u]
    IN  /\ status[u] = << record >>
        /\ "string" \notin excuses[u] => connKey[u] = [kind |-> "hash", flags |-> record.flags]

\* The same for the set of online users, which outlives both keys: also when the
\* commands of the same pipeline before it have failed on the string of a
\* heartbeat, unless the heartbeat came last.
OnlineSetCatchesUp ==
  \A u \in Users : Settled(u) /\ "heartbeat" \notin excuses[u] =>
    (u \in onlineUsers <=> statusCache[newest[u]][u].online)
=============================================================================
