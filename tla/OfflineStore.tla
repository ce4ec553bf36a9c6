---------------------------- MODULE OfflineStore ----------------------------
(***************************************************************************)
(* Messages of the first connection manager: its queue, the Redis channel  *)
(* message_to:<user> to which every server is subscribed, processMessage,  *)
(* and the store for messages that no connection took.  The store is the   *)
(* table of messages itself, with the status "unsent"; a user who connects *)
(* is sent these again by a goroutine that then marks them as "sent".      *)
(*                                                                         *)
(* A message exists in copies: the sender's object, one for every server   *)
(* that receives it from Redis, and one for every goroutine that resends   *)
(* it.  A copy remembers the id its row in the table has or will have.     *)
(* It runs beside the handlers of LegacyManager, whose maps it reads.      *)
(***************************************************************************)
EXTENDS LegacyManager, Sequences

CONSTANTS
  Msgs,       \* messages: what a client sends, or the answer it is given
  MsgTo,      \* the RecipientID of a message
  MsgServer,  \* the server it is sent at
  NoCopy,     \* the goroutine of Run has no message in hand
  NoId,       \* an answer has no id before it is stored
  FreshIds,   \* bound: the ids storeOfflineMessage may generate
  QueueCap,   \* capacity of messageQueueChan (1000 in the code)
  SlowConns,  \* connections whose send channel may be full
  DbMayFail,  \* a query may fail
  Groups,     \* bound: the sets of connections that may come together
  Audience,   \* bound: the connections that are there when messages are sent
  Before      \* bound: those of them that are closed before this one opens

ASSUME MsgAssumption ==
  /\ MsgTo \in [Msgs -> Users]
  /\ MsgServer \in [Msgs -> Servers]
  /\ NoId \notin Msgs \cup FreshIds
  /\ Msgs \cap FreshIds = {}
ASSUME CapAssumption ==
  /\ QueueCap \in Nat \ {0}
  /\ SlowConns \subseteq Conns
  /\ DbMayFail \in BOOLEAN
  /\ Groups \subseteq SUBSET Conns
  /\ Audience \subseteq Conns
  /\ Before \in [Conns -> SUBSET Conns]

Ids == Msgs \cup FreshIds

\* The origin of a copy: the sender, Redis, or the goroutine of a connection.
Origins == {"sender", "redis"} \cup Conns
Copies == [msg : Msgs, id : Ids \cup {NoId}, from : Origins]

ASSUME CopyAssumption == NoCopy \notin Copies

VARIABLES
  sending,   \* how far handleMessage is with a message
  rows,      \* the table of messages: id, message and status
  queue,     \* per server: messageQueueChan
  pending,   \* per server: published and not yet received
  hand,      \* per server: the copy processMessage is working on
  phase,     \* per server: how far it is
  detached,  \* per server: the map it looked up is no longer the manager's
  tries,     \* per server: the connections it has still to try
  handled,   \* the copies with HandledByLocal whose sender has yet to look
  resend,    \* per connection: sendOfflineMessages of its registration
  ended      \* history: the messages, with their ids, of which a copy has been
             \* taken by a connection, has been given up because its id is in
             \* the table, or was lost to a full queue, a failed query or the
             \* end of its manager

msgVars == <<sending, rows, queue, pending, hand, phase, detached, tries,
             handled, resend, ended>>
allVars == <<vars, msgVars>>
runVars == <<hand, phase, detached, tries>>

\* A goroutine that resends nothing.
Resend(step) == [at |-> step, todo |-> {}, listed |-> {}, now |-> NoId]

StoreInit ==
  /\ Init
  /\ sending = [m \in Msgs |-> "new"]
  /\ rows = {}
  /\ queue = [s \in Servers |-> << >>]
  /\ pending = [s \in Servers |-> << >>]
  /\ hand = [s \in Servers |-> NoCopy]
  /\ phase = [s \in Servers |-> "take"]
  /\ detached = [s \in Servers |-> FALSE]
  /\ tries = [s \in Servers |-> {}]
  /\ handled = {}
  /\ resend = [c \in Conns |-> Resend("idle")]
  /\ ended = {}

UsedIds == {r.id : r \in rows}

\* What a copy is a copy of.
Item(copy) == <<copy.msg, copy.id>>

\* A copy as Redis passes it on: a new object, with the same id.
Relayed(copy) == [copy EXCEPT !.from = "redis"]

-----------------------------------------------------------------------------
(* SendMessage(copy) at server s: the queue, and then Redis, unless the     *)
(* goroutine of Run has already marked the object as handled.              *)

\* A full queue refuses it; that of a closed manager is never emptied.
Enqueue(s, copy) ==
  /\ queue' = IF Len(queue[s]) < QueueCap THEN [queue EXCEPT ![s] = Append(@, copy)] ELSE queue
  /\ ended' = IF Len(queue[s]) < QueueCap /\ life[s] = "up" THEN ended ELSE ended \cup {Item(copy)}

Refused(s) == Len(queue[s]) = QueueCap

\* Every server whose subscription still runs receives it, the publisher too.
Publish(s, copy) ==
  \/ /\ RedisEnabled /\ RedisAnswers(s) /\ copy \notin handled
     /\ pending' = [t \in Servers |-> IF life[t] = "up" THEN Append(pending[t], Relayed(copy))
                                                     ELSE pending[t]]
  \/ /\ RedisEnabled => RedisFails(s) \/ copy \in handled
     /\ UNCHANGED pending

-----------------------------------------------------------------------------
(* handleMessage, run by the reader of a connection.                       *)

\* A client's message has the id it was saved with, an answer has none.
SenderCopy(m) == [msg |-> m, id |-> IF m \in UsedIds THEN m ELSE NoId, from |-> "sender"]

Sending(m, step) == sending[m] = step /\ life[MsgServer[m]] # "down"
Advance(m, step) == sending' = [sending EXCEPT ![m] = step]

\* SendMessage begins: the queue takes the message or refuses it.
SendMessage(m) ==
  /\ Enqueue(MsgServer[m], SenderCopy(m))
  /\ Advance(m, IF Refused(MsgServer[m]) THEN "refused" ELSE "publish")
  /\ UNCHANGED <<vars, rows, pending, runVars, handled, resend>>

\* A message of a client is saved, and not sent if that fails.
SaveChat(m) ==
  /\ Sending(m, "new")
  /\ \/ /\ rows' = rows \cup {[id |-> m, msg |-> m, status |-> "saved"]}
        /\ Advance(m, "saved")
     \/ /\ DbMayFail
        /\ Advance(m, "refused")
        /\ UNCHANGED rows
  /\ UNCHANGED <<vars, queue, pending, runVars, handled, resend, ended>>

\* A ping, or a message without a recipient, on a TCP connection is answered
\* with a message to its own user; a WebSocket reader answers by itself.
Answer(m) ==
  /\ Sending(m, "new")
  /\ \E c \in Conns \ closed :
       /\ pc[c] = "serve" /\ ConnType[c] = "tcp"
       /\ ConnUser[c] = MsgTo[m] /\ ConnServer[c] = MsgServer[m]
  /\ SendMessage(m)

SendChat(m) ==
  /\ Sending(m, "saved")
  /\ SendMessage(m)

SendPublish(m) ==
  /\ Sending(m, "publish")
  /\ Publish(MsgServer[m], SenderCopy(m))
  /\ Advance(m, "sent")
  /\ handled' = handled \ {SenderCopy(m)}
  /\ UNCHANGED <<vars, rows, queue, runVars, resend, ended>>

HandleMessage(m) == SaveChat(m) \/ SendChat(m) \/ Answer(m) \/ SendPublish(m)

-----------------------------------------------------------------------------
(* startRedisSubscription: a copy for a user with a local connection joins *)
(* the queue, any other is passed over.                                    *)

Receive(s) ==
  LET copy == Head(pending[s])
  IN  /\ life[s] = "up"
      /\ pending[s] # << >>
      /\ pending' = [pending EXCEPT ![s] = Tail(@)]
      /\ IF UserConns(s, MsgTo[copy.msg]) # {}
           THEN Enqueue(s, copy)
           ELSE UNCHANGED <<queue, ended>>
      /\ UNCHANGED <<vars, sending, rows, runVars, handled, resend>>

-----------------------------------------------------------------------------
(* processMessage, run by the goroutine of Run.                            *)

Working(s, step) == life[s] = "up" /\ pc[s] = "idle" /\ phase[s] = step
Recipient(s) == MsgTo[hand[s].msg]

\* The SendMessage that has put this object into the queue has not yet looked
\* whether it is handled; nobody looks later.
StillSending(copy) ==
  CASE copy.from = "sender" -> sending[copy.msg] = "publish"
    [] copy.from = "redis" -> FALSE
    [] OTHER -> resend[copy.from].at = "publish" /\ resend[copy.from].now = copy.id

\* The copy is marked as handled and the recipient's map is looked up.
Take(s) ==
  LET copy == Head(queue[s])
  IN  /\ Working(s, "take")
      /\ queue[s] # << >>
      /\ queue' = [queue EXCEPT ![s] = Tail(@)]
      /\ hand' = [hand EXCEPT ![s] = copy]
      /\ handled' = IF StillSending(copy) THEN handled \cup {copy} ELSE handled
      /\ detached' = [detached EXCEPT ![s] = FALSE]
      /\ phase' = [phase EXCEPT ![s] =
                     IF UserConns(s, MsgTo[copy.msg]) = {} THEN "try" ELSE "collect"]
      /\ UNCHANGED <<vars, sending, rows, pending, tries, resend, ended>>

\* Its connections are collected under a second read lock: none, if the map has
\* been emptied since, even if the user has another one now.
Collect(s) ==
  /\ Working(s, "collect")
  /\ tries' = [tries EXCEPT ![s] = IF detached[s] THEN {} ELSE UserConns(s, Recipient(s))]
  /\ detached' = [detached EXCEPT ![s] = FALSE]
  /\ phase' = [phase EXCEPT ![s] = "try"]
  /\ UNCHANGED <<vars, sending, rows, queue, pending, hand, handled, resend, ended>>

LetGo(s) ==
  /\ hand' = [hand EXCEPT ![s] = NoCopy]
  /\ phase' = [phase EXCEPT ![s] = "take"]
  /\ tries' = [tries EXCEPT ![s] = {}]
  /\ UNCHANGED detached

\* An open connection with room takes it and the work is done.  (The first
\* loop, over TCP connections, compares ids with a type and never runs.)
Deliver(s) ==
  /\ Working(s, "try")
  /\ tries[s] \ closed # {}
  /\ ended' = ended \cup {Item(hand[s])}
  /\ LetGo(s)
  /\ UNCHANGED <<vars, sending, rows, queue, pending, handled, resend>>

\* A full one is passed over, ...
PassFull(s) ==
  /\ Working(s, "try")
  /\ \E c \in (tries[s] \cap SlowConns) \ closed : tries' = [tries EXCEPT ![s] = @ \ {c}]
  /\ UNCHANGED <<vars, sending, rows, queue, pending, hand, phase, detached, handled, resend, ended>>

\* ... a closed WebSocket connection is unregistered, by its id, and ...
PassClosed(s) ==
  /\ Working(s, "try")
  /\ \E c \in tries[s] \cap closed :
       /\ ConnType[c] # "tcp"
       /\ tries' = [tries EXCEPT ![s] = @ \ {c}]
  /\ BeginDrop(s, Recipient(s))
  /\ UNCHANGED <<sending, rows, queue, pending, hand, phase, detached, handled, resend, ended>>

\* What is lost with the memory of server s.
InMemory(s) ==
  {Item(queue[s][i]) : i \in DOMAIN queue[s]}
    \cup (IF hand[s] = NoCopy THEN {} ELSE {Item(hand[s])})

\* ... a closed TCP connection makes the process panic: all it held is gone.
Panic(s) ==
  /\ Working(s, "try")
  /\ \E c \in tries[s] \cap closed : ConnType[c] = "tcp"
  /\ ProcessGone(s)
  /\ ended' = ended \cup InMemory(s)
  /\ queue' = [queue EXCEPT ![s] = << >>]
  /\ pending' = [pending EXCEPT ![s] = << >>]
  /\ resend' = [c \in Conns |-> IF ConnServer[c] = s THEN Resend("done") ELSE resend[c]]
  /\ LetGo(s)
  /\ UNCHANGED <<sending, rows, handled>>

NewId == CHOOSE i \in FreshIds : i \notin UsedIds
Unsent(i, copy) == [id |-> i, msg |-> copy.msg, status |-> "unsent"]

\* Slip: an object without an id is inserted as it is, and refused.
StoreWithId(s) ==
  LET copy == hand[s]
  IN  /\ Working(s, "try")
      /\ tries[s] = {}
      /\ rows' = rows \cup {Unsent(i, copy) : i \in {copy.id} \cap (Ids \ UsedIds)}
      /\ ended' = IF copy.id \in UsedIds THEN ended \cup {Item(copy)} ELSE ended
      /\ LetGo(s)
      /\ UNCHANGED <<vars, sending, queue, pending, handled, resend>>

\* When nothing is left to try, storeOfflineMessage inserts a row, "unsent".  A
\* copy without an id gets one; one whose id is in the table cannot be inserted,
\* and is given up.
Store(s) ==
  LET copy == hand[s]
  IN  /\ Working(s, "try")
      /\ tries[s] = {}
      /\ \/ /\ copy.id = NoId
            /\ FreshIds \ UsedIds # {}
            /\ rows' = rows \cup {Unsent(NewId, copy)}
            /\ UNCHANGED ended
         \/ /\ copy.id \in UsedIds \/ DbMayFail
            /\ ended' = ended \cup {Item(copy)}
            /\ UNCHANGED rows
      /\ LetGo(s)
      /\ UNCHANGED <<vars, sending, queue, pending, handled, resend>>

ProcessMessage(s) ==
  \/ Take(s) \/ Collect(s) \/ Deliver(s) \/ PassFull(s) \/ PassClosed(s)
  \/ Panic(s) \/ Store(s)

-----------------------------------------------------------------------------
(* sendOfflineMessages, the goroutine every registration starts.           *)

Resending(c, step) == resend[c].at = step /\ life[ConnServer[c]] # "down"
RowCopy(c, i) == [msg |-> (CHOOSE r \in rows : r.id = i).msg, id |-> i, from |-> c]

\* Slip: the rows are marked when they are read, before any has been sent.
MarkWhenRead(c) ==
  LET found == {r.id : r \in {r \in rows : r.status = "unsent" /\ MsgTo[r.msg] = ConnUser[c]}}
  IN  /\ Resending(c, "query")
      /\ resend' = [resend EXCEPT ![c] =
            [Resend(IF found = {} THEN "done" ELSE "enqueue") EXCEPT !.todo = found, !.listed = found]]
      /\ rows' = {IF r.id \in found THEN [r EXCEPT !.status = "sent"] ELSE r : r \in rows}
      /\ UNCHANGED <<vars, sending, queue, pending, runVars, handled, ended>>

\* GetOfflineMessages: the user's rows that are unsent, if any.
Query(c) ==
  LET found == {r.id : r \in {r \in rows : r.status = "unsent" /\ MsgTo[r.msg] = ConnUser[c]}}
  IN  /\ Resending(c, "query")
      /\ \/ /\ resend' = [resend EXCEPT ![c] =
                 [Resend(IF found = {} THEN "done" ELSE "enqueue")
                    EXCEPT !.todo = found, !.listed = found]]
         \/ /\ DbMayFail
            /\ resend' = [resend EXCEPT ![c] = Resend("done")]
      /\ UNCHANGED <<vars, sending, rows, queue, pending, runVars, handled, ended>>

\* SendMessage for each row, in an order left open; one that is refused is
\* skipped.
ResendEnqueue(c) ==
  /\ Resending(c, "enqueue")
  /\ \E i \in resend[c].todo :
       /\ resend' = [resend EXCEPT
            ![c].todo = @ \ {i},
            ![c].now = IF Refused(ConnServer[c]) THEN NoId ELSE i,
            ![c].at = IF ~Refused(ConnServer[c]) THEN "publish"
                      ELSE IF resend[c].todo = {i} THEN "mark" ELSE "enqueue"]
       /\ Enqueue(ConnServer[c], RowCopy(c, i))
  /\ UNCHANGED <<vars, sending, rows, pending, runVars, handled>>

ResendPublish(c) ==
  /\ Resending(c, "publish")
  /\ Publish(ConnServer[c], RowCopy(c, resend[c].now))
  /\ resend' = [resend EXCEPT ![c].now = NoId,
                               ![c].at = IF resend[c].todo = {} THEN "mark" ELSE "enqueue"]
  /\ handled' = handled \ {RowCopy(c, resend[c].now)}
  /\ UNCHANGED <<vars, sending, rows, queue, runVars, ended>>

\* MarkOfflineMessagesAsSent: all that were listed, sent or not.
Mark(c) ==
  /\ Resending(c, "mark")
  /\ \/ rows' = {IF r.id \in resend[c].listed THEN [r EXCEPT !.status = "sent"] ELSE r : r \in rows}
     \/ DbMayFail /\ UNCHANGED rows
  /\ resend' = [resend EXCEPT ![c] = Resend("done")]
  /\ UNCHANGED <<vars, sending, queue, pending, runVars, handled, ended>>

SendOfflineMessages(c) == Query(c) \/ ResendEnqueue(c) \/ ResendPublish(c) \/ Mark(c)

-----------------------------------------------------------------------------
(* The steps of LegacyManager.                                             *)

\* A step that serves a connection starts its goroutine, and a map that becomes
\* empty is thrown away by the manager while processMessage still holds it.
Carried ==
  /\ resend' = [c \in Conns |-> IF pc[c] = "online" /\ pc'[c] = "serve"
                                  THEN Resend("query") ELSE resend[c]]
  /\ detached' = [s \in Servers |->
                    \/ detached[s]
                    \/ phase[s] = "collect" /\ UserConns(s, Recipient(s)) \cap connections' = {}]
  /\ UNCHANGED <<sending, rows, queue, pending, hand, phase, tries, handled>>

\* Bound: the connections of one group come in any order.  Once a message is being
\* sent only those of the audience are there, one after the other, and the
\* servers that have none of them no longer are.
FewConns ==
  LET there == {c \in Conns : pc[c] # "idle"}
  IN  /\ \E group \in Groups : there \subseteq group
      /\ (\E m \in Msgs : sending[m] # "new")
           => /\ there \subseteq Audience
              /\ \A c \in there : Before[c] \subseteq closed
              /\ \A s \in Servers : life[s] = "up" => \E c \in Audience : ConnServer[c] = s

ManagerStep ==
  \/ /\ \/ ClientStep
        \/ \E c \in Conns : HandlerStep(c)
        \/ \E s \in Servers : UnregisterConnection(s)
     /\ UNCHANGED ended
     /\ Carried
     /\ FewConns'
  \/ \E s \in StopServers :
       /\ phase[s] = "take"
       /\ CloseManager(s)
       /\ ended' = ended \cup InMemory(s)
       /\ Carried

StoreNext ==
  \/ ManagerStep
  \/ \E m \in Msgs : HandleMessage(m) /\ FewConns'
  \/ \E s \in Servers : Receive(s) \/ ProcessMessage(s)
  \/ \E c \in Conns : SendOfflineMessages(c)

StoreSpec == StoreInit /\ [][StoreNext]_allVars

-----------------------------------------------------------------------------
(* Properties.                                                             *)

\* A message, with its id, is in a queue that is still served, or in hand.
OnItsWay(item) == \E s \in Servers : life[s] = "up" /\ item \in InMemory(s)

\* An answer that SendMessage has accepted is taken by a connection, or on its
\* way, or kept in the table for the next one, unless a query failed or its
\* manager ended: a failed delivery never drops what has been saved nowhere,
\* whether its connections leave or are exchanged while it is tried.
KeptOrDelivered ==
  \A m \in Msgs :
    sending[m] \in {"publish", "sent"}
      => LET item == Item(SenderCopy(m))
         IN  \/ item \in ended
             \/ OnItsWay(item)
             \/ \E r \in rows : r.msg = m

\* A row that was stored and is now marked as sent has been taken by some
\* connection, or is on its way to one, or its copy was lost for a reason the
\* code reports: the queue was full, a query failed or the manager ended; or it
\* was tried in vain, and could not be stored again under its own id.
MarkedWasSent ==
  \A r \in rows :
    r.status = "sent"
      => LET item == <<r.msg, r.id>>
         IN  item \in ended \/ OnItsWay(item)
=============================================================================
