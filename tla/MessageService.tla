--------------------------- MODULE MessageService ---------------------------
(***************************************************************************)
(* What happens to a message of a client before the connection manager     *)
(* gets it: handleEnhancedMessage saves it in two tables, one insert after *)
(* the other, and then forwards it.  Beside it the status notifications:   *)
(* handlers broadcast them to the friends of a user through one bounded    *)
(* channel, while friendships are being made.                              *)
(***************************************************************************)
EXTENDS Naturals, Sequences, FiniteSets, Functions

CONSTANTS
  Users,
  Group,         \* a group's id
  Sends,         \* the times a client sends a message
  IdOf,          \* the id it gives to it: a client that sends again uses the same
  SenderOf,
  RecipientOf,   \* a user, or the group
  DbMayFail,     \* a query or an insert may fail
  Broadcasts,    \* the calls of BroadcastStatus
  UserOf,        \* whose status one of them is about
  Requests,      \* the calls of AddFriend
  Asker, Friend, \* who wants whom as a friend
  NotifyCap      \* capacity of notifyChannel (100 in the code)

ASSUME SendAssumption ==
  /\ Group \notin Users
  /\ IdOf \in [Sends -> Range(IdOf)]
  /\ SenderOf \in [Sends -> Users]
  /\ RecipientOf \in [Sends -> Users \cup {Group}]
  /\ DbMayFail \in BOOLEAN
ASSUME SocialAssumption ==
  /\ UserOf \in [Broadcasts -> Users]
  /\ Asker \in [Requests -> Users] /\ Friend \in [Requests -> Users]
  /\ NotifyCap \in Nat \ {0}

VARIABLES
  privateRows,  \* ids in the table private_messages
  groupRows,    \* ids in the table group_messages
  commonRows,   \* ids in the table messages, which the history is read from
  handling,     \* how far handleEnhancedMessage is with a message
  forwarded,    \* what the connection manager was asked to send: [send, to]
  friendRows,   \* rows of the table friendships for <<user, friend>>
  asking,       \* how far a call of AddFriend is
  casting,      \* how far a call of BroadcastStatus is
  toNotify,     \* the friends it has still to notify, with a count for every row
  notify,       \* notifyChannel: [cast, to]
  notified,     \* the notifications passed on to the connection manager
  dropped,      \* the notifications dropped because the channel was full
  earlier       \* history: the calls that had ended when a broadcast began

messageVars == <<privateRows, groupRows, commonRows, handling, forwarded>>
friendVars == <<friendRows, asking>>
statusVars == <<casting, toNotify, notify, notified, dropped, earlier>>
vars == <<privateRows, groupRows, commonRows, handling, forwarded, friendRows,
          asking, casting, toNotify, notify, notified, dropped, earlier>>

Nobody == [u \in Users |-> 0]

Init ==
  /\ privateRows = {} /\ groupRows = {} /\ commonRows = {}
  /\ handling = [m \in Sends |-> "new"]
  /\ forwarded = << >>
  /\ friendRows = [u \in Users |-> Nobody]
  /\ asking = [r \in Requests |-> "new"]
  /\ casting = [b \in Broadcasts |-> "new"]
  /\ toNotify = [b \in Broadcasts |-> Nobody]
  /\ notify = << >> /\ notified = << >> /\ dropped = {}
  /\ earlier = [b \in Broadcasts |-> {}]

-----------------------------------------------------------------------------
(* handleEnhancedMessage and SaveMessage.                                  *)

IsGroup(m) == RecipientOf[m] = Group

Handle(m, from, to) == handling[m] = from /\ handling' = [handling EXCEPT ![m] = to]

\* The first insert, into the table of private or of group messages.  The id is
\* the primary key: the insert of an id that is there already fails.
SaveOwn(m) ==
  /\ \/ /\ ~IsGroup(m) /\ IdOf[m] \notin privateRows
        /\ privateRows' = privateRows \cup {IdOf[m]}
        /\ Handle(m, "new", "common")
        /\ UNCHANGED groupRows
     \/ /\ IsGroup(m) /\ IdOf[m] \notin groupRows
        /\ groupRows' = groupRows \cup {IdOf[m]}
        /\ Handle(m, "new", "common")
        /\ UNCHANGED privateRows
     \/ /\ \/ DbMayFail
           \/ IdOf[m] \in (IF IsGroup(m) THEN groupRows ELSE privateRows)
        /\ Handle(m, "new", "failed")
        /\ UNCHANGED <<privateRows, groupRows>>
  /\ UNCHANGED <<commonRows, forwarded, friendVars, statusVars>>

\* Slip: an error of the second insert is only logged.
SaveCommonOrLog(m) ==
  /\ \/ commonRows' = commonRows \cup {IdOf[m]}
     \/ DbMayFail /\ UNCHANGED commonRows
  /\ Handle(m, "common", "forward")
  /\ UNCHANGED <<privateRows, groupRows, forwarded, friendVars, statusVars>>

\* The second insert; what the first one wrote stays if it fails.
SaveCommon(m) ==
  /\ \/ /\ IdOf[m] \notin commonRows
        /\ commonRows' = commonRows \cup {IdOf[m]}
        /\ Handle(m, "common", "forward")
     \/ /\ DbMayFail \/ IdOf[m] \in commonRows
        /\ Handle(m, "common", "failed")
        /\ UNCHANGED commonRows
  /\ UNCHANGED <<privateRows, groupRows, forwarded, friendVars, statusVars>>

\* connMgr.SendMessage, to whatever the message names as its recipient.
Forward(m) ==
  /\ Handle(m, "forward", "done")
  /\ forwarded' = Append(forwarded, [send |-> m, to |-> RecipientOf[m]])
  /\ UNCHANGED <<privateRows, groupRows, commonRows, friendVars, statusVars>>

\* Slip: a message is forwarded although it could not be saved.
HandleAnyway(m) ==
  \/ SaveOwn(m) \/ SaveCommon(m) \/ Forward(m)
  \/ /\ Handle(m, "failed", "done")
     /\ forwarded' = Append(forwarded, [send |-> m, to |-> RecipientOf[m]])
     /\ UNCHANGED <<privateRows, groupRows, commonRows, friendVars, statusVars>>

HandleMessage(m) == SaveOwn(m) \/ SaveCommon(m) \/ Forward(m)

-----------------------------------------------------------------------------
(* AddFriend.                                                              *)

\* The count of the rows there are already, ...
CountFriends(r) ==
  /\ asking[r] = "new"
  /\ \/ /\ friendRows[Asker[r]][Friend[r]] = 0
        /\ asking' = [asking EXCEPT ![r] = "insert"]
     \/ /\ DbMayFail \/ friendRows[Asker[r]][Friend[r]] > 0
        /\ asking' = [asking EXCEPT ![r] = "refused"]
  /\ UNCHANGED <<messageVars, friendRows, statusVars>>

\* Slip: the two inserts are no transaction.
InsertOneByOne(r) ==
  LET once == [friendRows EXCEPT ![Asker[r]][Friend[r]] = @ + 1]
  IN  /\ asking[r] = "insert"
      /\ asking' = [asking EXCEPT ![r] = "done"]
      /\ friendRows' \in {once, [once EXCEPT ![Friend[r]][Asker[r]] = @ + 1]}
      /\ UNCHANGED <<messageVars, statusVars>>

\* ... and a transaction of two inserts, which is rolled back if one fails.
InsertFriends(r) ==
  LET u == Asker[r]
      v == Friend[r]
      once == [friendRows EXCEPT ![u][v] = @ + 1]
  IN  /\ asking[r] = "insert"
      /\ \/ /\ friendRows' = [once EXCEPT ![v][u] = @ + 1]
            /\ asking' = [asking EXCEPT ![r] = "done"]
         \/ /\ DbMayFail
            /\ asking' = [asking EXCEPT ![r] = "refused"]
            /\ UNCHANGED friendRows
      /\ UNCHANGED <<messageVars, statusVars>>

AddFriend(r) == CountFriends(r) \/ InsertFriends(r)

-----------------------------------------------------------------------------
(* BroadcastStatus and processNotifications.                               *)

\* getUserFriends: one entry for every row; if it fails nobody is told.
ReadFriends(b) ==
  /\ casting[b] = "new"
  /\ \/ /\ casting' = [casting EXCEPT ![b] = "push"]
        /\ toNotify' = [toNotify EXCEPT ![b] = friendRows[UserOf[b]]]
     \/ /\ DbMayFail
        /\ casting' = [casting EXCEPT ![b] = "done"]
        /\ UNCHANGED toNotify
  /\ earlier' = [earlier EXCEPT ![b] = {c \in Broadcasts : casting[c] = "done"}]
  /\ UNCHANGED <<messageVars, friendVars, notify, notified, dropped>>

\* The next friend's notification enters the channel, or is dropped.
PushStatus(b, v) ==
  /\ casting[b] = "push"
  /\ toNotify[b][v] > 0
  /\ toNotify' = [toNotify EXCEPT ![b][v] = @ - 1]
  /\ IF Len(notify) < NotifyCap
       THEN notify' = Append(notify, [cast |-> b, to |-> v]) /\ UNCHANGED dropped
       ELSE dropped' = dropped \cup {<<b, v>>} /\ UNCHANGED notify
  /\ UNCHANGED <<messageVars, friendVars, casting, notified, earlier>>

\* Slip: the loop over the friends is left early.
BroadcastEndsEarly(b) ==
  /\ casting[b] = "push"
  /\ casting' = [casting EXCEPT ![b] = "done"]
  /\ UNCHANGED <<messageVars, friendVars, toNotify, notify, notified, dropped, earlier>>

BroadcastEnds(b) ==
  /\ casting[b] = "push"
  /\ toNotify[b] = Nobody
  /\ casting' = [casting EXCEPT ![b] = "done"]
  /\ UNCHANGED <<messageVars, friendVars, toNotify, notify, notified, dropped, earlier>>

BroadcastStatus(b) ==
  ReadFriends(b) \/ BroadcastEnds(b) \/ \E v \in Users : PushStatus(b, v)

\* Slip: every notification is sent by a goroutine of its own.
ProcessAny ==
  \E i \in DOMAIN notify :
    /\ notified' = Append(notified, notify[i])
    /\ notify' = SubSeq(notify, 1, i - 1) \o SubSeq(notify, i + 1, Len(notify))
    /\ UNCHANGED <<messageVars, friendVars, casting, toNotify, dropped, earlier>>

ProcessNotification ==
  /\ notify # << >>
  /\ notified' = Append(notified, Head(notify))
  /\ notify' = Tail(notify)
  /\ UNCHANGED <<messageVars, friendVars, casting, toNotify, dropped, earlier>>

-----------------------------------------------------------------------------
Next ==
  \/ \E m \in Sends : HandleMessage(m)
  \/ \E r \in Requests : AddFriend(r)
  \/ \E b \in Broadcasts : BroadcastStatus(b)
  \/ ProcessNotification

\* Calls that have begun run to their end, and so does the channel's goroutine.
Fairness ==
  /\ \A b \in Broadcasts : WF_vars(casting[b] # "new" /\ BroadcastStatus(b))
  /\ WF_vars(ProcessNotification)

Spec == Init /\ [][Next]_vars
FairSpec == Spec /\ Fairness

-----------------------------------------------------------------------------
(* Properties.                                                             *)

\* Every variable has its type; the channel holds no more than it can.
ServiceTypeOK ==
  /\ privateRows \subseteq Range(IdOf) /\ groupRows \subseteq Range(IdOf)
  /\ commonRows \subseteq Range(IdOf)
  /\ handling \in [Sends -> {"new", "common", "forward", "done", "failed"}]
  /\ forwarded \in Seq([send : Sends, to : Users \cup {Group}])
  /\ friendRows \in [Users -> [Users -> Nat]]
  /\ asking \in [Requests -> {"new", "insert", "done", "refused"}]
  /\ casting \in [Broadcasts -> {"new", "push", "done"}]
  /\ toNotify \in [Broadcasts -> [Users -> Nat]]
  /\ notify \in Seq([cast : Broadcasts, to : Users]) /\ Len(notify) <= NotifyCap
  /\ notified \in Seq([cast : Broadcasts, to : Users])
  /\ dropped \subseteq Broadcasts \X Users
  /\ earlier \in [Broadcasts -> SUBSET Broadcasts]

\* A message that was forwarded is in the history, and what is in the history is
\* in the table of its kind: no failure between the two inserts, and no second
\* attempt of the client, leaves the recipient with a message the history does
\* not know or the history with a message the other tables do not know.
ForwardedIsSaved ==
  /\ \A i \in DOMAIN forwarded : IdOf[forwarded[i].send] \in commonRows
  /\ commonRows \subseteq privateRows \cup groupRows

\* However often a client sends a message with the same id, at most one attempt
\* gets as far as the connection manager.
ForwardedOnce ==
  \A i, j \in DOMAIN forwarded :
    IdOf[forwarded[i].send] = IdOf[forwarded[j].send] => i = j

\* Friendship is mutual, row by row, even when two requests for the same friend
\* both find no row and both insert theirs.
FriendshipMutual == \A u, v \in Users : friendRows[u][v] = friendRows[v][u]

\* A friend who is told of two statuses of a user is told of them in order, if
\* the second broadcast began after the first had ended: one channel and one
\* goroutine keep what two handlers have put in one after the other.
StatusInOrder ==
  \A i, j \in DOMAIN notified :
    /\ notified[i].to = notified[j].to
    /\ notified[i].cast \in earlier[notified[j].cast]
    => i < j

\* Every friend a user had when a broadcast about the user had read the
\* friendships is told of it in the end, unless the channel was full.
FriendIsTold ==
  \A b \in Broadcasts, v \in Users :
    toNotify[b][v] > 0
      ~> <<b, v>> \in dropped \/ \E i \in DOMAIN notified : notified[i] = [cast |-> b, to |-> v]
=============================================================================
