------------------------ MODULE MessageService_proofs ------------------------
(***************************************************************************)
(* Proofs about the way of a message into the tables and on to the         *)
(* connection manager, about friendships, and about the order of status    *)
(* notifications, for any number of sends, requests and broadcasts, and    *)
(* whether or not the database may fail.                                   *)
(***************************************************************************)
EXTENDS MessageService, SequenceTheorems, TLAPS

-----------------------------------------------------------------------------
(* Types.                                                                  *)

Forwards == [send : Sends, to : Users \cup {Group}]
Notifications == [cast : Broadcasts, to : Users]

\* The id of a message is one of the ids.
LEMMA IdInRange == \A m \in Sends : IdOf[m] \in Range(IdOf)
BY SendAssumption

\* The initial values have their types.
LEMMA InitTypeOK == Init => ServiceTypeOK
<1> SUFFICES ASSUME Init PROVE ServiceTypeOK
  OBVIOUS
<1>1. /\ forwarded \in Seq(Forwards) /\ notify \in Seq(Notifications)
      /\ notified \in Seq(Notifications) /\ Len(notify) <= NotifyCap
  BY EmptySeq, SocialAssumption DEF Init
<1>2. friendRows \in [Users -> [Users -> Nat]] /\ toNotify \in [Broadcasts -> [Users -> Nat]]
  BY DEF Init, Nobody
<1> QED
  BY <1>1, <1>2 DEF Init, ServiceTypeOK, Forwards, Notifications

\* The steps of a message keep the types,
LEMMA HandleTypes ==
  ASSUME ServiceTypeOK, NEW m \in Sends, HandleMessage(m)
  PROVE  ServiceTypeOK'
<1>1. CASE SaveOwn(m)
  BY <1>1, IdInRange DEF ServiceTypeOK, SaveOwn, Handle, friendVars, statusVars
<1>2. CASE SaveCommon(m)
  BY <1>2, IdInRange DEF ServiceTypeOK, SaveCommon, Handle, friendVars, statusVars
<1>3. CASE Forward(m)
  <2>1. forwarded' \in Seq(Forwards)
    <3>1. [send |-> m, to |-> RecipientOf[m]] \in Forwards
      BY SendAssumption DEF Forwards
    <3>2. forwarded \in Seq(Forwards)
      BY DEF ServiceTypeOK, Forwards
    <3> QED
      BY <1>3, <3>1, <3>2, AppendProperties DEF Forward
  <2> QED
    BY <1>3, <2>1 DEF ServiceTypeOK, Forward, Forwards, Handle, friendVars, statusVars
<1> QED
  BY <1>1, <1>2, <1>3 DEF HandleMessage

\* What a new row for u's friend v adds to the count of w's friend x.
Added(w, x, u, v) == IF w = u /\ x = v THEN 1 ELSE 0

WithRow(rows, u, v) == [rows EXCEPT ![u][v] = @ + 1]

Counts == [Users -> [Users -> Nat]]

\* (an insert adds one row, in one direction)
LEMMA OneRow ==
  ASSUME NEW rows \in Counts, NEW u \in Users, NEW v \in Users
  PROVE  /\ WithRow(rows, u, v) \in Counts
         /\ \A w, x \in Users : WithRow(rows, u, v)[w][x] = rows[w][x] + Added(w, x, u, v)
<1>1. rows[u] \in [Users -> Nat] /\ rows[u][v] + 1 \in Nat
  BY DEF Counts
<1>2. [rows[u] EXCEPT ![v] = rows[u][v] + 1] \in [Users -> Nat]
  BY <1>1
<1>3. WithRow(rows, u, v) \in Counts
  BY <1>2 DEF WithRow, Counts
<1>4. \A w, x \in Users : WithRow(rows, u, v)[w][x] = rows[w][x] + Added(w, x, u, v)
  BY DEF Added, WithRow, Counts
<1> QED
  BY <1>3, <1>4

\* The transaction of a request adds one row to either side.
LEMMA InsertedRows ==
  ASSUME ServiceTypeOK, NEW r \in Requests, InsertFriends(r), friendRows' # friendRows
  PROVE  /\ friendRows' \in Counts
         /\ \A w, x \in Users :
              friendRows'[w][x] =
                friendRows[w][x] + Added(w, x, Asker[r], Friend[r]) + Added(w, x, Friend[r], Asker[r])
<1>1. PICK u \in Users, v \in Users : u = Asker[r] /\ v = Friend[r]
  BY SocialAssumption
<1>2. friendRows' = WithRow(WithRow(friendRows, u, v), v, u)
  BY <1>1 DEF InsertFriends, WithRow
<1>3. friendRows \in Counts
  BY DEF ServiceTypeOK, Counts
<1>4. /\ WithRow(friendRows, u, v) \in Counts
      /\ \A w, x \in Users : WithRow(friendRows, u, v)[w][x] = friendRows[w][x] + Added(w, x, u, v)
  BY <1>3, OneRow
<1>5. PICK once : once = WithRow(friendRows, u, v)
  OBVIOUS
<1>6. /\ WithRow(once, v, u) \in Counts
      /\ \A w, x \in Users : WithRow(once, v, u)[w][x] = once[w][x] + Added(w, x, v, u)
  <2>1. once \in Counts
    BY <1>4, <1>5
  <2> QED
    BY <2>1, OneRow
<1> QED
  BY <1>1, <1>2, <1>4, <1>5, <1>6

\* those of a friend request,
LEMMA FriendTypes ==
  ASSUME ServiceTypeOK, NEW r \in Requests, AddFriend(r)
  PROVE  ServiceTypeOK'
<1>1. CASE CountFriends(r)
  BY <1>1 DEF ServiceTypeOK, CountFriends, messageVars, statusVars
<1>2. CASE InsertFriends(r)
  <2>1. friendRows' \in [Users -> [Users -> Nat]]
    BY <1>2, InsertedRows DEF ServiceTypeOK, Counts
  <2> QED
    BY <1>2, <2>1 DEF ServiceTypeOK, InsertFriends, messageVars, statusVars
<1> QED
  BY <1>1, <1>2 DEF AddFriend

\* those of a broadcast, which adds to the channel only if there is room,
LEMMA BroadcastTypes ==
  ASSUME ServiceTypeOK, NEW b \in Broadcasts, BroadcastStatus(b)
  PROVE  ServiceTypeOK'
<1>1. CASE ReadFriends(b)
  <2>1. toNotify' \in [Broadcasts -> [Users -> Nat]]
    <3>1. friendRows[UserOf[b]] \in [Users -> Nat] /\ toNotify \in [Broadcasts -> [Users -> Nat]]
      BY SocialAssumption DEF ServiceTypeOK
    <3> QED
      BY <1>1, <3>1 DEF ReadFriends
  <2>2. earlier' \in [Broadcasts -> SUBSET Broadcasts]
    BY <1>1 DEF ServiceTypeOK, ReadFriends
  <2> QED
    BY <1>1, <2>1, <2>2 DEF ServiceTypeOK, ReadFriends, messageVars, friendVars
<1>2. CASE BroadcastEnds(b)
  BY <1>2 DEF ServiceTypeOK, BroadcastEnds, messageVars, friendVars
<1>3. ASSUME NEW v \in Users, PushStatus(b, v) PROVE ServiceTypeOK'
  <2>1. toNotify' \in [Broadcasts -> [Users -> Nat]]
    <3>1. toNotify \in [Broadcasts -> [Users -> Nat]] /\ toNotify[b][v] > 0
      BY <1>3 DEF ServiceTypeOK, PushStatus
    <3>2. toNotify[b][v] - 1 \in Nat
      BY <3>1
    <3> QED
      BY <1>3, <3>1, <3>2 DEF PushStatus
  <2>2. notify' \in Seq(Notifications) /\ Len(notify') <= NotifyCap
    <3>1. notify \in Seq(Notifications) /\ Len(notify) <= NotifyCap
      BY DEF ServiceTypeOK, Notifications
    <3>2. [cast |-> b, to |-> v] \in Notifications
      BY DEF Notifications
    <3>3. CASE Len(notify) < NotifyCap
      <4>1. notify' = Append(notify, [cast |-> b, to |-> v])
        BY <1>3, <3>3 DEF PushStatus
      <4> QED
        BY <3>1, <3>2, <3>3, <4>1, AppendProperties, LenProperties, SocialAssumption
    <3>4. CASE ~(Len(notify) < NotifyCap)
      BY <1>3, <3>1, <3>4 DEF PushStatus
    <3> QED
      BY <3>3, <3>4
  <2>3. dropped' \subseteq Broadcasts \X Users
    BY <1>3 DEF ServiceTypeOK, PushStatus
  <2> QED
    BY <1>3, <2>1, <2>2, <2>3 DEF ServiceTypeOK, PushStatus, Notifications, messageVars, friendVars
<1> QED
  BY <1>1, <1>2, <1>3 DEF BroadcastStatus

\* that of the goroutine of the channel,
LEMMA ProcessTypes ==
  ASSUME ServiceTypeOK, ProcessNotification
  PROVE  ServiceTypeOK'
<1>1. notify \in Seq(Notifications) /\ notify # << >> /\ Len(notify) <= NotifyCap
      /\ notified \in Seq(Notifications)
  BY DEF ServiceTypeOK, Notifications, ProcessNotification
<1>2. Head(notify) \in Notifications /\ Tail(notify) \in Seq(Notifications)
      /\ Len(Tail(notify)) <= NotifyCap
  BY <1>1, HeadTailProperties, LenProperties, SocialAssumption
<1>3. Append(notified, Head(notify)) \in Seq(Notifications)
  BY <1>1, <1>2, AppendProperties
<1> QED
  BY <1>2, <1>3 DEF ServiceTypeOK, Notifications, ProcessNotification, messageVars, friendVars

\* and so all steps do.
LEMMA NextTypeOK ==
  ASSUME ServiceTypeOK, [Next]_vars
  PROVE  ServiceTypeOK'
<1>1. CASE UNCHANGED vars
  BY <1>1 DEF ServiceTypeOK, vars
<1> QED
  BY <1>1, HandleTypes, FriendTypes, BroadcastTypes, ProcessTypes DEF Next

\* Every variable keeps its type, and the channel of notifications its capacity.
THEOREM ServiceTyped == Spec => []ServiceTypeOK
BY InitTypeOK, NextTypeOK, PTL DEF Spec

-----------------------------------------------------------------------------
(* Saved, then forwarded, and only once.                                   *)

\* How far a message is tells which tables know its id; two messages with one id
\* never both get past the second insert; what was forwarded has come to its end.
SaveInv ==
  /\ \A m \in Sends : handling[m] = "common" => IdOf[m] \in privateRows \cup groupRows
  /\ \A m \in Sends : handling[m] \in {"forward", "done"} => IdOf[m] \in commonRows
  /\ commonRows \subseteq privateRows \cup groupRows
  /\ \A m, n \in Sends :
       /\ handling[m] \in {"forward", "done"} /\ handling[n] \in {"forward", "done"}
       /\ IdOf[m] = IdOf[n]
       => m = n
  /\ \A i \in DOMAIN forwarded : handling[forwarded[i].send] = "done"
  /\ \A i, j \in DOMAIN forwarded : forwarded[i].send = forwarded[j].send => i = j

\* Nothing has been saved or sent.
LEMMA InitSave == Init => SaveInv
BY EmptySeq DEF Init, SaveInv

\* A message is forwarded once, as the last thing its handler does with it.
LEMMA ForwardKeepsSave ==
  ASSUME ServiceTypeOK, SaveInv, NEW m \in Sends, Forward(m)
  PROVE  SaveInv'
<1>1. /\ DOMAIN forwarded' = DOMAIN forwarded \cup {Len(forwarded) + 1}
      /\ Len(forwarded) + 1 \notin DOMAIN forwarded
      /\ \A i \in DOMAIN forwarded : forwarded'[i] = forwarded[i] /\ forwarded[i].send \in Sends
      /\ forwarded'[Len(forwarded) + 1].send = m
  <2>1. [send |-> m, to |-> RecipientOf[m]] \in Forwards /\ forwarded \in Seq(Forwards)
    BY SendAssumption DEF Forwards, ServiceTypeOK
  <2>2. forwarded' = Append(forwarded, [send |-> m, to |-> RecipientOf[m]])
    BY DEF Forward
  <2>3. /\ DOMAIN forwarded = 1..Len(forwarded) /\ Len(forwarded) \in Nat
        /\ DOMAIN forwarded' = 1..(Len(forwarded) + 1)
        /\ \A i \in 1..Len(forwarded) : forwarded'[i] = forwarded[i]
        /\ forwarded'[Len(forwarded) + 1] = [send |-> m, to |-> RecipientOf[m]]
    BY <2>1, <2>2, AppendProperties, LenProperties
  <2>4. \A i \in 1..Len(forwarded) : forwarded[i] \in Forwards
    BY <2>1, <2>3, ElementOfSeq
  <2>5. \A i \in 1..Len(forwarded) : forwarded[i].send \in Sends
    BY <2>4 DEF Forwards
  <2> QED
    BY <2>3, <2>5
<1>2. handling[m] = "forward" /\ handling' = [handling EXCEPT ![m] = "done"]
      /\ UNCHANGED <<privateRows, groupRows, commonRows>>
  BY DEF Forward, Handle
<1>3. \A i \in DOMAIN forwarded : forwarded[i].send # m
  BY <1>1, <1>2 DEF SaveInv
<1>4. /\ \A i \in DOMAIN forwarded' : handling'[forwarded'[i].send] = "done"
      /\ \A i, j \in DOMAIN forwarded' : forwarded'[i].send = forwarded'[j].send => i = j
  BY <1>1, <1>2, <1>3 DEF SaveInv, ServiceTypeOK
<1> QED
  BY <1>2, <1>4 DEF SaveInv, ServiceTypeOK

\* The other steps go from insert to insert, and only one of two with an id passes
\* the second.
LEMMA NextSave ==
  ASSUME ServiceTypeOK, SaveInv, [Next]_vars
  PROVE  SaveInv'
<1> DEFINE Done == \A i \in DOMAIN forwarded : handling[forwarded[i].send] = "done"
<1>1. ASSUME NEW m \in Sends, UNCHANGED forwarded,
             handling[m] # "done", NEW to, handling' = [handling EXCEPT ![m] = to]
      PROVE  Done'
  BY <1>1 DEF SaveInv, ServiceTypeOK
<1>2. ASSUME NEW m \in Sends, SaveOwn(m) PROVE SaveInv'
  <2>1. Done' /\ UNCHANGED <<forwarded, commonRows>>
    BY <1>1, <1>2 DEF SaveOwn, Handle
  <2>2. /\ \A n \in Sends \ {m} : handling'[n] = handling[n]
        /\ handling'[m] \in {"common", "failed"}
        /\ privateRows \subseteq privateRows' /\ groupRows \subseteq groupRows'
    BY <1>2 DEF ServiceTypeOK, SaveOwn, Handle
  <2>3. handling'[m] = "common" => IdOf[m] \in privateRows' \cup groupRows'
    BY <1>2 DEF ServiceTypeOK, SaveOwn, Handle
  <2>4. \A n \in Sends : handling'[n] \in {"forward", "done"} => n # m /\ handling[n] \in {"forward", "done"}
    BY <2>2
  <2>5. \A n \in Sends : handling'[n] = "common" => IdOf[n] \in privateRows' \cup groupRows'
    BY <2>2, <2>3 DEF SaveInv
  <2> QED
    BY <2>1, <2>2, <2>4, <2>5 DEF SaveInv
<1>3. ASSUME NEW m \in Sends, SaveCommon(m) PROVE SaveInv'
  <2>1. Done' /\ UNCHANGED <<forwarded, privateRows, groupRows>>
    BY <1>1, <1>3 DEF SaveCommon, Handle
  <2>2. CASE /\ IdOf[m] \notin commonRows
             /\ commonRows' = commonRows \cup {IdOf[m]}
             /\ Handle(m, "common", "forward")
    <3>1. \A n \in Sends \ {m} : handling'[n] = handling[n]
      BY <2>2 DEF Handle, ServiceTypeOK
    <3>2. handling[m] = "common" /\ handling'[m] = "forward"
      BY <2>2 DEF Handle, ServiceTypeOK
    <3>3. \A n \in Sends \ {m} : handling[n] \in {"forward", "done"} => IdOf[n] # IdOf[m]
      BY <2>2 DEF SaveInv
    <3> QED
      BY <2>1, <2>2, <3>1, <3>2, <3>3 DEF SaveInv
  <2>3. CASE UNCHANGED commonRows /\ Handle(m, "common", "failed")
    BY <2>1, <2>3 DEF SaveInv, ServiceTypeOK, Handle
  <2> QED
    BY <1>3, <2>2, <2>3 DEF SaveCommon
<1>4. ASSUME NEW m \in Sends, Forward(m) PROVE SaveInv'
  BY <1>4, ForwardKeepsSave
<1>5. ASSUME NEW r \in Requests, AddFriend(r) PROVE UNCHANGED messageVars
  BY <1>5 DEF AddFriend, CountFriends, InsertFriends
<1>6. ASSUME NEW b \in Broadcasts, BroadcastStatus(b) PROVE UNCHANGED messageVars
  BY <1>6 DEF BroadcastStatus, ReadFriends, BroadcastEnds, PushStatus
<1>7. CASE UNCHANGED messageVars
  BY <1>7 DEF messageVars, SaveInv
<1> QED
  BY <1>2, <1>3, <1>4, <1>5, <1>6, <1>7 DEF Next, HandleMessage, ProcessNotification, vars,
     messageVars

\* What was forwarded are messages.
LEMMA ForwardedSends ==
  ASSUME ServiceTypeOK
  PROVE  \A i \in DOMAIN forwarded : forwarded[i].send \in Sends
<1>1. forwarded \in Seq(Forwards)
  BY DEF ServiceTypeOK, Forwards
<1>2. \A i \in DOMAIN forwarded : forwarded[i] \in Forwards
  BY <1>1, ElementOfSeq, LenProperties
<1> QED
  BY <1>2 DEF Forwards

\* So the tables know what was forwarded.
LEMMA SaveInvariant == Spec => []SaveInv
BY InitSave, NextSave, ServiceTyped, PTL DEF Spec

\* A message that reached the connection manager is in the history, and what is in
\* the history is in the table of its kind, whichever insert fails and however often
\* a client sends the message again.
THEOREM SavedBeforeForwarded == Spec => []ForwardedIsSaved
<1>1. ServiceTypeOK /\ SaveInv => ForwardedIsSaved
  <2> SUFFICES ASSUME ServiceTypeOK, SaveInv PROVE ForwardedIsSaved
    OBVIOUS
  <2>1. ASSUME NEW i \in DOMAIN forwarded PROVE IdOf[forwarded[i].send] \in commonRows
    <3>1. forwarded[i].send \in Sends
      BY ForwardedSends
    <3> QED
      BY <3>1 DEF SaveInv
  <2> QED
    BY <2>1 DEF SaveInv, ForwardedIsSaved
<1> QED
  BY <1>1, ServiceTyped, SaveInvariant, PTL

\* Of all the times a message with one id is sent, at most one is forwarded: the
\* primary key of the history stops the others, whatever the interleaving.
THEOREM NeverForwardedTwice == Spec => []ForwardedOnce
<1>1. ServiceTypeOK /\ SaveInv => ForwardedOnce
  <2> SUFFICES ASSUME ServiceTypeOK, SaveInv,
                      NEW i \in DOMAIN forwarded, NEW j \in DOMAIN forwarded,
                      IdOf[forwarded[i].send] = IdOf[forwarded[j].send]
               PROVE  i = j
    BY DEF ForwardedOnce
  <2>1. forwarded[i].send \in Sends /\ forwarded[j].send \in Sends
    BY ForwardedSends
  <2>2. handling[forwarded[i].send] = "done" /\ handling[forwarded[j].send] = "done"
    BY DEF SaveInv
  <2>3. forwarded[i].send = forwarded[j].send
    BY <2>1, <2>2 DEF SaveInv
  <2> QED
    BY <2>3 DEF SaveInv
<1> QED
  BY <1>1, ServiceTyped, SaveInvariant, PTL

-----------------------------------------------------------------------------
(* Friendship.                                                             *)

\* Friendship stays mutual, row by row, although the count of a request and its
\* inserts are separate steps: the two inserts are one.
THEOREM AlwaysMutual == Spec => []FriendshipMutual
<1>1. Init => FriendshipMutual
  BY DEF Init, Nobody, FriendshipMutual
<1>2. ASSUME ServiceTypeOK, FriendshipMutual, [Next]_vars PROVE FriendshipMutual'
  <2>1. ASSUME NEW r \in Requests, InsertFriends(r) PROVE FriendshipMutual'
    <3>1. CASE UNCHANGED friendRows
      BY <1>2, <3>1 DEF FriendshipMutual
    <3>2. CASE friendRows' # friendRows
      <4>1. \A w, x \in Users :
              friendRows'[w][x] =
                friendRows[w][x] + Added(w, x, Asker[r], Friend[r]) + Added(w, x, Friend[r], Asker[r])
        BY <1>2, <2>1, <3>2, InsertedRows
      <4>2. \A w, x \in Users : friendRows[w][x] = friendRows[x][w] /\ friendRows[w][x] \in Nat
        BY <1>2 DEF FriendshipMutual, ServiceTypeOK
      <4>3. \A w, x, u, v : Added(w, x, u, v) = Added(x, w, v, u) /\ Added(w, x, u, v) \in Nat
        BY DEF Added
      <4> QED
        BY <4>1, <4>2, <4>3 DEF FriendshipMutual
    <3> QED
      BY <3>1, <3>2
  <2>2. ASSUME NEW r \in Requests, CountFriends(r) PROVE UNCHANGED friendRows
    BY <2>2 DEF CountFriends
  <2>3. ASSUME NEW m \in Sends, HandleMessage(m) PROVE UNCHANGED friendRows
    BY <2>3 DEF HandleMessage, SaveOwn, SaveCommon, Forward, friendVars
  <2>4. ASSUME NEW b \in Broadcasts, BroadcastStatus(b) PROVE UNCHANGED friendRows
    BY <2>4 DEF BroadcastStatus, ReadFriends, BroadcastEnds, PushStatus, friendVars
  <2>5. CASE UNCHANGED friendRows
    BY <1>2, <2>5 DEF FriendshipMutual
  <2> QED
    BY <1>2, <2>1, <2>2, <2>3, <2>4, <2>5 DEF Next, AddFriend, ProcessNotification, friendVars, vars
<1> QED
  BY <1>1, <1>2, ServiceTyped, PTL DEF Spec

-----------------------------------------------------------------------------
(* The order of notifications.                                             *)

Before(b, c) == b \in earlier[c]

\* A broadcast that had ended before another began has ended, and the other has
\* begun; only broadcasts that have begun are in the channel or have left it; and what
\* has left, and what is in, the channel is in the order of the broadcasts.
OrderInv ==
  /\ \A b, c \in Broadcasts : Before(b, c) => casting[b] = "done" /\ casting[c] # "new"
  /\ \A i \in DOMAIN notify : casting[notify[i].cast] # "new"
  /\ \A i \in DOMAIN notified : casting[notified[i].cast] # "new"
  /\ \A i, j \in DOMAIN notified : Before(notified[i].cast, notified[j].cast) => i < j
  /\ \A i \in DOMAIN notify, j \in DOMAIN notified : ~Before(notify[i].cast, notified[j].cast)
  /\ \A i, j \in DOMAIN notify : Before(notify[i].cast, notify[j].cast) => i < j

\* No broadcast has begun.
LEMMA InitOrder == Init => OrderInv
BY EmptySeq DEF Init, OrderInv, Before

\* The broadcast a notification belongs to.
LEMMA CastTypes ==
  ASSUME ServiceTypeOK
  PROVE  /\ DOMAIN notify = 1..Len(notify) /\ Len(notify) \in Nat
         /\ DOMAIN notified = 1..Len(notified) /\ Len(notified) \in Nat
         /\ \A i \in DOMAIN notify : notify[i].cast \in Broadcasts
         /\ \A i \in DOMAIN notified : notified[i].cast \in Broadcasts
<1>1. notify \in Seq(Notifications) /\ notified \in Seq(Notifications)
  BY DEF ServiceTypeOK, Notifications
<1>2. /\ DOMAIN notify = 1..Len(notify) /\ Len(notify) \in Nat
      /\ DOMAIN notified = 1..Len(notified) /\ Len(notified) \in Nat
      /\ \A i \in 1..Len(notify) : notify[i] \in Notifications
      /\ \A i \in 1..Len(notified) : notified[i] \in Notifications
  BY <1>1, ElementOfSeq, LenProperties
<1> QED
  BY <1>2 DEF Notifications

\* A broadcast that begins is after all that have ended.
LEMMA ReadKeepsOrder ==
  ASSUME ServiceTypeOK, OrderInv, NEW b \in Broadcasts, ReadFriends(b)
  PROVE  OrderInv'
<1>1. /\ casting[b] = "new" /\ UNCHANGED <<notify, notified>>
      /\ earlier' = [earlier EXCEPT ![b] = {c \in Broadcasts : casting[c] = "done"}]
      /\ casting'[b] # "new" /\ \A c \in Broadcasts \ {b} : casting'[c] = casting[c]
  BY DEF ReadFriends, ServiceTypeOK
<1>2. /\ \A i \in DOMAIN notify : notify[i].cast \in Broadcasts \ {b}
      /\ \A i \in DOMAIN notified : notified[i].cast \in Broadcasts \ {b}
  BY <1>1, CastTypes DEF OrderInv
<1>3. /\ \A c, d \in Broadcasts : d # b => (Before(c, d)' <=> Before(c, d))
      /\ \A c \in Broadcasts : Before(c, b)' <=> casting[c] = "done"
  BY <1>1 DEF Before, ServiceTypeOK
<1>4. \A c, d \in Broadcasts : Before(c, d)' => (casting[c] = "done" /\ casting[d] # "new")'
  BY <1>1, <1>3 DEF OrderInv
<1> QED
  BY <1>1, <1>2, <1>3, <1>4 DEF OrderInv

\* One that ends is after none that has not begun.
LEMMA EndKeepsOrder ==
  ASSUME ServiceTypeOK, OrderInv, NEW b \in Broadcasts, BroadcastEnds(b)
  PROVE  OrderInv'
<1>1. /\ UNCHANGED <<notify, notified, earlier>>
      /\ \A c \in Broadcasts : casting'[c] = IF c = b THEN "done" ELSE casting[c]
  BY DEF BroadcastEnds, ServiceTypeOK
<1> QED
  BY <1>1, CastTypes DEF OrderInv, Before

\* A notification gets behind all that are in the channel or have left it.
LEMMA PushKeepsOrder ==
  ASSUME ServiceTypeOK, OrderInv, NEW b \in Broadcasts, NEW v \in Users, PushStatus(b, v)
  PROVE  OrderInv'
<1>1. casting[b] = "push" /\ UNCHANGED <<casting, notified, earlier>>
  BY DEF PushStatus
<1>2. CASE UNCHANGED notify
  BY <1>1, <1>2 DEF OrderInv, Before
<1>3. CASE notify' = Append(notify, [cast |-> b, to |-> v])
  <2>1. /\ DOMAIN notify' = 1..(Len(notify) + 1)
        /\ \A i \in 1..Len(notify) : notify'[i] = notify[i]
        /\ notify'[Len(notify) + 1].cast = b
    <3>1. notify \in Seq(Notifications) /\ [cast |-> b, to |-> v] \in Notifications
      BY DEF ServiceTypeOK, Notifications
    <3> QED
      BY <1>3, <3>1, AppendProperties, LenProperties
  <2>2. \A c \in Broadcasts : ~Before(b, c)
    BY <1>1 DEF OrderInv
  <2>3. \A i \in DOMAIN notify' : notify'[i].cast \in Broadcasts
                                  /\ (i \in DOMAIN notify \/ notify'[i].cast = b)
    BY <2>1, CastTypes
  <2>4. \A i, j \in DOMAIN notify' : Before(notify'[i].cast, notify'[j].cast) => i < j
    <3> SUFFICES ASSUME NEW i \in DOMAIN notify', NEW j \in DOMAIN notify',
                        Before(notify'[i].cast, notify'[j].cast)
                 PROVE  i < j
      OBVIOUS
    <3>1. i \in DOMAIN notify /\ notify'[i] = notify[i]
      BY <2>1, <2>2, <2>3, CastTypes
    <3>2. CASE j \in DOMAIN notify
      BY <2>1, <3>1, <3>2, CastTypes DEF OrderInv
    <3>3. CASE j \notin DOMAIN notify
      BY <2>1, <3>1, <3>3, CastTypes
    <3> QED
      BY <3>2, <3>3
  <2>5. \A i \in DOMAIN notify', j \in DOMAIN notified : ~Before(notify'[i].cast, notified[j].cast)
    BY <2>1, <2>2, <2>3, CastTypes DEF OrderInv
  <2>6. \A i \in DOMAIN notify' : casting[notify'[i].cast] # "new"
    BY <1>1, <2>1, <2>3, CastTypes DEF OrderInv
  <2> QED
    BY <1>1, <2>4, <2>5, <2>6 DEF OrderInv, Before
<1> QED
  BY <1>2, <1>3 DEF PushStatus

\* The goroutine of the channel takes the first notification.
LEMMA ProcessKeepsOrder ==
  ASSUME ServiceTypeOK, OrderInv, ProcessNotification
  PROVE  OrderInv'
<1> DEFINE n == Len(notified)
<1>1. /\ UNCHANGED <<casting, earlier>> /\ notify' = Tail(notify)
      /\ notified' = Append(notified, Head(notify))
  BY DEF ProcessNotification
<1>2. /\ 1 \in DOMAIN notify /\ n \in Nat
      /\ DOMAIN notify' = 1..(Len(notify) - 1) /\ Len(notify) \in Nat
      /\ \A i \in DOMAIN notify' : i + 1 \in DOMAIN notify /\ notify'[i] = notify[i + 1]
      /\ DOMAIN notified' = 1..(n + 1)
      /\ \A i \in DOMAIN notified : notified'[i] = notified[i]
      /\ notified'[n + 1] = notify[1]
  <2>1. notify \in Seq(Notifications) /\ notified \in Seq(Notifications) /\ notify # << >>
    BY DEF ServiceTypeOK, Notifications, ProcessNotification
  <2>2. /\ Len(notify) \in Nat /\ Len(notify) # 0 /\ DOMAIN notify = 1..Len(notify)
        /\ Tail(notify) \in Seq(Notifications) /\ Len(Tail(notify)) = Len(notify) - 1
        /\ \A i \in 1..Len(Tail(notify)) : Tail(notify)[i] = notify[i + 1]
        /\ Head(notify) = notify[1] /\ Head(notify) \in Notifications
    BY <2>1, HeadTailProperties, LenProperties, EmptySeq
  <2>3. DOMAIN Tail(notify) = 1..(Len(notify) - 1)
    BY <2>2, LenProperties
  <2>4. /\ DOMAIN notified = 1..n /\ n \in Nat
        /\ DOMAIN Append(notified, Head(notify)) = 1..(n + 1)
        /\ \A i \in 1..n : Append(notified, Head(notify))[i] = notified[i]
        /\ Append(notified, Head(notify))[n + 1] = Head(notify)
    BY <2>1, <2>2, AppendProperties, LenProperties
  <2> HIDE DEF n
  <2> QED
    BY <1>1, <2>2, <2>3, <2>4
<1>3. DOMAIN notified = 1..n /\ DOMAIN notify = 1..Len(notify)
  BY CastTypes
<1> HIDE DEF n
<1>4. \A i, j \in DOMAIN notified' : Before(notified'[i].cast, notified'[j].cast) => i < j
  <2> SUFFICES ASSUME NEW i \in DOMAIN notified', NEW j \in DOMAIN notified',
                      Before(notified'[i].cast, notified'[j].cast)
               PROVE  i < j
    OBVIOUS
  <2>1. CASE i \in DOMAIN notified /\ j \in DOMAIN notified
    BY <1>2, <2>1 DEF OrderInv
  <2>2. CASE i \in DOMAIN notified /\ j = n + 1
    BY <1>2, <1>3, <2>2
  <2>3. CASE i = n + 1 /\ j \in DOMAIN notified
    BY <1>2, <2>3 DEF OrderInv
  <2>4. CASE i = n + 1 /\ j = n + 1
    <3>1. 1 < 1
      BY <1>2, <2>4 DEF OrderInv
    <3> QED
      BY <3>1
  <2> QED
    BY <1>2, <1>3, <2>1, <2>2, <2>3, <2>4
<1>5. \A i \in DOMAIN notify', j \in DOMAIN notified' : ~Before(notify'[i].cast, notified'[j].cast)
  <2> SUFFICES ASSUME NEW i \in DOMAIN notify', NEW j \in DOMAIN notified',
                      Before(notify'[i].cast, notified'[j].cast)
               PROVE  FALSE
    OBVIOUS
  <2>1. CASE j \in DOMAIN notified
    BY <1>2, <2>1 DEF OrderInv
  <2>2. CASE j = n + 1
    <3>1. i + 1 < 1
      BY <1>2, <2>2 DEF OrderInv
    <3> QED
      BY <1>2, <3>1
  <2> QED
    BY <1>2, <1>3, <2>1, <2>2
<1>6. \A i, j \in DOMAIN notify' : Before(notify'[i].cast, notify'[j].cast) => i < j
  <2> SUFFICES ASSUME NEW i \in DOMAIN notify', NEW j \in DOMAIN notify',
                      Before(notify'[i].cast, notify'[j].cast)
               PROVE  i < j
    OBVIOUS
  <2>1. i + 1 < j + 1
    BY <1>2 DEF OrderInv
  <2> QED
    BY <1>2, <2>1
<1>7. /\ \A i \in DOMAIN notify' : casting[notify'[i].cast] # "new"
      /\ \A i \in DOMAIN notified' : casting[notified'[i].cast] # "new"
  BY <1>2, <1>3 DEF OrderInv
<1> QED
  BY <1>1, <1>4, <1>5, <1>6, <1>7 DEF OrderInv, Before

\* Every step keeps the order.
LEMMA NextOrder ==
  ASSUME ServiceTypeOK, OrderInv, [Next]_vars
  PROVE  OrderInv'
<1>1. ASSUME NEW m \in Sends, HandleMessage(m) PROVE UNCHANGED statusVars
  BY <1>1 DEF HandleMessage, SaveOwn, SaveCommon, Forward
<1>2. ASSUME NEW r \in Requests, AddFriend(r) PROVE UNCHANGED statusVars
  BY <1>2 DEF AddFriend, CountFriends, InsertFriends
<1>3. CASE UNCHANGED statusVars
  BY <1>3 DEF statusVars, OrderInv, Before
<1>4. ASSUME NEW b \in Broadcasts, BroadcastStatus(b) PROVE OrderInv'
  BY <1>4, ReadKeepsOrder, EndKeepsOrder, PushKeepsOrder DEF BroadcastStatus
<1> QED
  BY <1>1, <1>2, <1>3, <1>4, ProcessKeepsOrder DEF Next, vars, statusVars

\* A friend is told of two broadcasts about a user in their order, if the later
\* began after the earlier had ended, whatever is dropped in between.
THEOREM ToldInOrder == Spec => []StatusInOrder
<1>1. OrderInv => StatusInOrder
  BY DEF OrderInv, StatusInOrder, Before
<1> QED
  BY <1>1, InitOrder, NextOrder, ServiceTyped, PTL DEF Spec
=============================================================================
