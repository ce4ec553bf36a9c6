---------------------------- MODULE Conversations ----------------------------
(***************************************************************************)
(* Conversations of two users.  Opening one first looks for it and then    *)
(* makes it, in separate statements.  A message and a mark-as-read get     *)
(* their time before the statement that stores it is run; what is unread   *)
(* is decided by comparing the two times.                                  *)
(***************************************************************************)
EXTENDS Naturals, FiniteSets

CONSTANTS
  Users,
  Convs,        \* ids of conversations
  NoConv,
  Requests,     \* the calls of CreateConversation
  Caller, Peer, \* who opens a conversation with whom
  ForGroup,     \* the calls with isGroup set
  Msgs,         \* messages that are saved
  Sender,
  Marks,        \* the calls of MarkMessagesAsRead
  Reader,
  DbMayFail,    \* a query, a statement or a transaction may fail
  MaxTime       \* bound of the clock, in units of the database's resolution

ASSUME ConversationAssumption ==
  /\ Caller \in [Requests -> Users] /\ Peer \in [Requests -> Users]
  /\ Requests \cap Marks = {}
  /\ ForGroup \subseteq Requests
  /\ Sender \in [Msgs -> Users] /\ Reader \in [Marks -> Users]
  /\ DbMayFail \in BOOLEAN /\ NoConv \notin Convs
  /\ MaxTime \in Nat

VARIABLES
  kind,       \* of a conversation: "none" while there is none with this id
  rows,       \* the number of rows of a user in the table participants
  lastRead,   \* last_read_at of these rows
  opening,    \* how far a call of CreateConversation is
  answer,     \* the conversation it has found or made
  saving,     \* how far a message is
  inConv,     \* its conversation
  createdAt,
  marking,    \* how far a call of MarkMessagesAsRead is
  markConv,   \* its conversation
  markedAt,   \* the time it is going to write
  now,
  earlier,    \* history: the requests and marks that had ended when one began,
  maker,      \* the request that made a conversation,
  unseen      \* and the requests one of whose queries failed

convVars == <<kind, rows>>
openVars == <<opening, answer, maker, unseen>>
messageVars == <<saving, inConv, createdAt>>
markVars == <<marking, markConv, markedAt>>
vars == <<kind, rows, lastRead, opening, answer, saving, inConv, createdAt,
          marking, markConv, markedAt, now, earlier, maker, unseen>>

Init ==
  /\ kind = [c \in Convs |-> "none"]
  /\ rows = [c \in Convs |-> [u \in Users |-> 0]]
  /\ lastRead = [c \in Convs |-> [u \in Users |-> 0]]
  /\ opening = [r \in Requests |-> "new"] /\ answer = [r \in Requests |-> NoConv]
  /\ saving = [m \in Msgs |-> "new"] /\ inConv = [m \in Msgs |-> NoConv]
  /\ createdAt = [m \in Msgs |-> 0]
  /\ marking = [k \in Marks |-> "new"] /\ markConv = [k \in Marks |-> NoConv]
  /\ markedAt = [k \in Marks |-> 0]
  /\ now = 0
  /\ earlier = [x \in Requests \cup Marks |-> {}]
  /\ maker = [c \in Convs |-> {}] /\ unseen = {}

-----------------------------------------------------------------------------
(* CreateConversation.                                                     *)

Ended(calls) == {x \in DOMAIN calls : calls[x] \in {"done", "failed"}}
Begin(x, calls) == earlier' = [earlier EXCEPT ![x] = Ended(calls)]

Open(r, from, to) == opening[r] = from /\ opening' = [opening EXCEPT ![r] = to]

\* The single conversations both users take part in.  When a user asks for
\* itself these are all its single conversations.
Between(u, v) == {c \in Convs : kind[c] = "single" /\ rows[c][u] > 0 /\ rows[c][v] > 0}

\* Slip: only conversations that the caller has opened itself are searched.
FindOwn(r) ==
  LET found == {c \in Between(Caller[r], Peer[r]) :
                 \E q \in maker[c] : Caller[q] = Caller[r]}
  IN  /\ r \notin ForGroup
      /\ Open(r, "new", IF found = {} THEN "make" ELSE "describe")
      /\ IF found = {} THEN UNCHANGED answer
                       ELSE \E c \in found : answer' = [answer EXCEPT ![r] = c]
      /\ Begin(r, opening)
      /\ UNCHANGED <<convVars, lastRead, messageVars, markVars, now, maker, unseen>>

\* The search; one of several is taken, and if it fails, none is there.
Find(r) ==
  LET found == Between(Caller[r], Peer[r])
  IN  /\ r \notin ForGroup
      /\ \/ \E c \in found :
              /\ Open(r, "new", "describe")
              /\ answer' = [answer EXCEPT ![r] = c]
              /\ UNCHANGED unseen
         \/ /\ found = {}
            /\ Open(r, "new", "make")
            /\ UNCHANGED <<answer, unseen>>
         \/ /\ DbMayFail
            /\ Open(r, "new", "make")
            /\ unseen' = unseen \cup {r}
            /\ UNCHANGED answer
      /\ Begin(r, opening)
      /\ UNCHANGED <<convVars, lastRead, messageVars, markVars, now, maker>>

\* Nothing is searched for a group.
SkipFind(r) ==
  /\ r \in ForGroup
  /\ Open(r, "new", "make")
  /\ Begin(r, opening)
  /\ UNCHANGED <<convVars, lastRead, answer, messageVars, markVars, now, maker, unseen>>

\* What was found is read; if that fails a new one is made all the same.
Describe(r) ==
  /\ \/ Open(r, "describe", "done") /\ UNCHANGED unseen
     \/ /\ DbMayFail
        /\ Open(r, "describe", "make")
        /\ unseen' = unseen \cup {r}
  /\ UNCHANGED <<convVars, lastRead, answer, messageVars, markVars, now, earlier, maker>>

\* Slip: every insert is committed by itself.
MakeOneByOne(r) ==
  \E c \in Convs : \E there \in SUBSET {Caller[r], Peer[r]} :
    /\ kind[c] = "none"
    /\ Open(r, "make", "done")
    /\ kind' = [kind EXCEPT ![c] = IF r \in ForGroup THEN "group" ELSE "single"]
    /\ rows' = [rows EXCEPT ![c] = [u \in Users |-> IF u \in there THEN 1 ELSE 0]]
    /\ answer' = [answer EXCEPT ![r] = c]
    /\ maker' = [maker EXCEPT ![c] = {r}]
    /\ UNCHANGED <<lastRead, messageVars, markVars, now, earlier, unseen>>

\* A transaction inserts the conversation and two participants, also for a group,
\* or nothing.
Make(r) ==
  /\ \/ \E c \in Convs :
          LET u == Caller[r]
              once == [rows EXCEPT ![c][u] = @ + 1]
          IN  /\ kind[c] = "none"
              /\ Open(r, "make", "done")
              /\ kind' = [kind EXCEPT ![c] = IF r \in ForGroup THEN "group" ELSE "single"]
              /\ rows' = [once EXCEPT ![c][Peer[r]] = @ + 1]
              /\ lastRead' = [lastRead EXCEPT ![c] =
                   [v \in Users |-> IF v \in {u, Peer[r]} THEN now ELSE @[v]]]
              /\ answer' = [answer EXCEPT ![r] = c]
              /\ maker' = [maker EXCEPT ![c] = {r}]
     \/ /\ DbMayFail
        /\ Open(r, "make", "failed")
        /\ UNCHANGED <<convVars, lastRead, answer, maker>>
  /\ UNCHANGED <<messageVars, markVars, now, earlier, unseen>>

CreateConversation(r) == Find(r) \/ SkipFind(r) \/ Describe(r) \/ Make(r)

-----------------------------------------------------------------------------
(* Messages and marks.                                                     *)

\* The row of a message in a conversation of the sender gets its time, ...
StampMessage(m) ==
  /\ saving[m] = "new"
  /\ saving' = [saving EXCEPT ![m] = "insert"]
  /\ \E c \in Convs : rows[c][Sender[m]] > 0 /\ inConv' = [inConv EXCEPT ![m] = c]
  /\ createdAt' = [createdAt EXCEPT ![m] = now]
  /\ UNCHANGED <<convVars, lastRead, openVars, markVars, now, earlier>>

\* ... and is inserted.
InsertMessage(m) ==
  /\ saving[m] = "insert"
  /\ \/ saving' = [saving EXCEPT ![m] = "saved"]
     \/ DbMayFail /\ saving' = [saving EXCEPT ![m] = "failed"]
  /\ UNCHANGED <<convVars, lastRead, openVars, inConv, createdAt, markVars, now, earlier>>

\* MarkMessagesAsRead for a conversation of the reader takes the time, ...
StampMark(k) ==
  /\ marking[k] = "new"
  /\ marking' = [marking EXCEPT ![k] = "update"]
  /\ \E c \in Convs : rows[c][Reader[k]] > 0 /\ markConv' = [markConv EXCEPT ![k] = c]
  /\ markedAt' = [markedAt EXCEPT ![k] = now]
  /\ Begin(k, marking)
  /\ UNCHANGED <<convVars, lastRead, openVars, messageVars, now>>

\* Slip: the client says when it has read them.
ApplyMarkOfClient(k) ==
  /\ marking[k] = "update"
  /\ marking' = [marking EXCEPT ![k] = "done"]
  /\ \E t \in 0 .. now : lastRead' = [lastRead EXCEPT ![markConv[k]][Reader[k]] = t]
  /\ UNCHANGED <<convVars, openVars, messageVars, markConv, markedAt, now, earlier>>

\* ... and the rows of the reader in the conversation get it.
ApplyMark(k) ==
  /\ marking[k] = "update"
  /\ \/ /\ marking' = [marking EXCEPT ![k] = "done"]
        /\ lastRead' = [lastRead EXCEPT ![markConv[k]][Reader[k]] = markedAt[k]]
     \/ /\ DbMayFail
        /\ marking' = [marking EXCEPT ![k] = "failed"]
        /\ UNCHANGED lastRead
  /\ UNCHANGED <<convVars, openVars, messageVars, markConv, markedAt, now, earlier>>

Tick ==
  /\ now < MaxTime
  /\ now' = now + 1
  /\ UNCHANGED <<convVars, lastRead, openVars, messageVars, markVars, earlier>>

\* What GetConversations counts for u in c.
Unread(u, c) ==
  {m \in Msgs : saving[m] = "saved" /\ inConv[m] = c /\ Sender[m] # u
                  /\ createdAt[m] > lastRead[c][u]}

-----------------------------------------------------------------------------
Next ==
  \/ \E r \in Requests : CreateConversation(r)
  \/ \E m \in Msgs : StampMessage(m) \/ InsertMessage(m)
  \/ \E k \in Marks : StampMark(k) \/ ApplyMark(k)
  \/ Tick

Spec == Init /\ [][Next]_vars

-----------------------------------------------------------------------------
(* Properties.                                                             *)

\* Every variable has its type; a conversation has two rows of participants.
ConversationTypeOK ==
  /\ kind \in [Convs -> {"none", "single", "group"}]
  /\ rows \in [Convs -> [Users -> 0 .. 2]]
  /\ lastRead \in [Convs -> [Users -> 0 .. now]]
  /\ opening \in [Requests -> {"new", "describe", "make", "done", "failed"}]
  /\ answer \in [Requests -> Convs \cup {NoConv}]
  /\ saving \in [Msgs -> {"new", "insert", "saved", "failed"}]
  /\ inConv \in [Msgs -> Convs \cup {NoConv}]
  /\ createdAt \in [Msgs -> 0 .. now]
  /\ marking \in [Marks -> {"new", "update", "done", "failed"}]
  /\ markConv \in [Marks -> Convs \cup {NoConv}]
  /\ markedAt \in [Marks -> 0 .. now]
  /\ now \in 0 .. MaxTime
  /\ earlier \in [Requests \cup Marks -> SUBSET (Requests \cup Marks)]
  /\ maker \in [Convs -> SUBSET Requests]
  /\ unseen \subseteq Requests

\* Two requests, one after the other, do not make two single conversations of the
\* same users, whoever of the two asks first, unless a query of the later one
\* failed: a failed search counts as an empty one.
OneConversation ==
  \A c, d \in Convs : \A p \in maker[c], q \in maker[d] :
    /\ c # d /\ kind[c] = "single" /\ kind[d] = "single"
    /\ {Caller[p], Peer[p]} = {Caller[q], Peer[q]}
    /\ p \in earlier[q]
    => q \in unseen

\* The conversation a request answers with has its two users as participants,
\* with a row each, and nobody else, whatever failed on the way and however many
\* there are; a user that asked for itself may get one with somebody else.
AnswerIsOurs ==
  \A r \in Requests :
    opening[r] = "done" /\ Caller[r] # Peer[r]
      => \A u \in Users : rows[answer[r]][u] = IF u \in {Caller[r], Peer[r]} THEN 1 ELSE 0

\* Two marks of a user for one conversation overlap: neither had ended when the
\* other began.
Overlap(k, l) ==
  /\ Reader[k] = Reader[l] /\ markConv[k] = markConv[l]
  /\ k \notin earlier[l] /\ l \notin earlier[k]

\* What a mark has covered stays read: a message that had its time when the mark
\* took its own is not counted as unread afterwards, also if it is inserted later,
\* unless a mark that overlaps, with an older time, is applied after it.
ReadStaysRead ==
  \A k \in Marks : \A m \in Msgs :
    /\ marking[k] = "done"
    /\ inConv[m] = markConv[k] /\ createdAt[m] <= markedAt[k]
    /\ \A l \in Marks \ {k} : marking[l] = "done" => ~Overlap(k, l)
    => m \notin Unread(Reader[k], markConv[k])
=============================================================================
