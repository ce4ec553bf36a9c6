------------------------ MODULE Conversations_proofs ------------------------
(***************************************************************************)
(* Proofs about conversations of two users, for any users, requests,       *)
(* messages and marks, and whether or not the database may fail.           *)
(***************************************************************************)
EXTENDS Conversations, TLAPS

-----------------------------------------------------------------------------
(* Types.                                                                  *)

\* An id that is not taken has no rows of participants and nobody has made it.
FreeInv == \A c \in Convs : kind[c] = "none" => maker[c] = {} /\ \A u \in Users : rows[c][u] = 0

TypeInv == ConversationTypeOK /\ FreeInv

\* The rows of u in the conversation that request r makes.
RowsBy(r, u) == (IF u = Caller[r] THEN 1 ELSE 0) + (IF u = Peer[r] THEN 1 ELSE 0)

\* Request r makes conversation c.
Makes(r, c) ==
  /\ kind[c] = "none" /\ opening[r] = "make"
  /\ opening' = [opening EXCEPT ![r] = "done"]
  /\ kind' = [kind EXCEPT ![c] = IF r \in ForGroup THEN "group" ELSE "single"]
  /\ answer' = [answer EXCEPT ![r] = c]
  /\ maker' = [maker EXCEPT ![c] = {r}]
  /\ rows' \in [Convs -> [Users -> 0 .. 2]]
  /\ \A u \in Users : rows'[c][u] = RowsBy(r, u)
  /\ \A d \in Convs \ {c}, u \in Users : rows'[d][u] = rows[d][u]
  /\ lastRead' \in [Convs -> [Users -> 0 .. now]]
  /\ \A d \in Convs, u \in Users : lastRead'[d][u] >= lastRead[d][u]
  /\ UNCHANGED <<unseen, messageVars, markVars, now, earlier>>

\* A request fails to make one.
Fails(r) ==
  /\ opening[r] = "make"
  /\ opening' = [opening EXCEPT ![r] = "failed"]
  /\ UNCHANGED <<convVars, lastRead, answer, maker, unseen, messageVars, markVars, now, earlier>>

\* Make fails and changes no table, or makes one conversation that was not there.
LEMMA MakeMakes ==
  ASSUME TypeInv, NEW r \in Requests, Make(r)
  PROVE  Fails(r) \/ \E c \in Convs : Makes(r, c)
<1>1. CASE /\ DbMayFail /\ Open(r, "make", "failed")
           /\ UNCHANGED <<convVars, lastRead, answer, maker>>
  BY <1>1 DEF Make, Fails, Open
<1>2. ASSUME NEW c \in Convs, kind[c] = "none", Open(r, "make", "done"),
             kind' = [kind EXCEPT ![c] = IF r \in ForGroup THEN "group" ELSE "single"],
             rows' = [[rows EXCEPT ![c][Caller[r]] = @ + 1] EXCEPT ![c][Peer[r]] = @ + 1],
             lastRead' = [lastRead EXCEPT ![c] =
               [v \in Users |-> IF v \in {Caller[r], Peer[r]} THEN now ELSE @[v]]],
             answer' = [answer EXCEPT ![r] = c], maker' = [maker EXCEPT ![c] = {r}]
      PROVE  Makes(r, c)
  <2>1. PICK u \in Users, v \in Users : u = Caller[r] /\ v = Peer[r]
    BY ConversationAssumption
  <2>2. /\ rows \in [Convs -> [Users -> 0 .. 2]] /\ \A w \in Users : rows[c][w] = 0
        /\ rows[c] \in [Users -> 0 .. 2]
    BY <1>2 DEF TypeInv, ConversationTypeOK, FreeInv
  <2>3. rows' = [rows EXCEPT ![c] = [[rows[c] EXCEPT ![u] = 1] EXCEPT ![v] = @ + 1]]
    <3>1. rows' = [[rows EXCEPT ![c][u] = @ + 1] EXCEPT ![c][v] = @ + 1]
      BY <1>2, <2>1
    <3>2. rows[c][u] + 1 = 1
      BY <2>2
    <3> QED
      BY <2>2, <3>1, <3>2
  <2>4. /\ rows' \in [Convs -> [Users -> 0 .. 2]]
        /\ \A w \in Users : rows'[c][w] = RowsBy(r, w)
        /\ \A d \in Convs \ {c}, w \in Users : rows'[d][w] = rows[d][w]
    <3>1. PICK row : row = [[rows[c] EXCEPT ![u] = 1] EXCEPT ![v] = @ + 1]
      OBVIOUS
    <3>2. row \in [Users -> 0 .. 2] /\ \A w \in Users : row[w] = RowsBy(r, w)
      BY <2>1, <2>2, <3>1 DEF RowsBy
    <3>3. rows' = [rows EXCEPT ![c] = row]
      BY <2>3, <3>1
    <3> QED
      BY <2>2, <3>2, <3>3
  <2>5. /\ lastRead' \in [Convs -> [Users -> 0 .. now]]
        /\ \A d \in Convs, w \in Users : lastRead'[d][w] >= lastRead[d][w]
    <3>1. lastRead \in [Convs -> [Users -> 0 .. now]] /\ now \in Nat
      BY ConversationAssumption DEF TypeInv, ConversationTypeOK
    <3>2. \A d \in Convs, w \in Users : lastRead[d][w] \in 0 .. now
      BY <3>1
    <3>3. PICK row : row = [w \in Users |-> IF w \in {u, v} THEN now ELSE lastRead[c][w]]
      OBVIOUS
    <3>4. row \in [Users -> 0 .. now] /\ \A w \in Users : row[w] >= lastRead[c][w]
      BY <3>1, <3>2, <3>3
    <3>5. lastRead' = [lastRead EXCEPT ![c] = row]
      BY <1>2, <2>1, <3>3
    <3> QED
      BY <3>1, <3>2, <3>4, <3>5
  <2> QED
    BY <1>2, <2>4, <2>5 DEF Make, Makes, Open
<1> QED
  BY <1>1, <1>2 DEF Make

\* The initial values have their types.
LEMMA InitTypes == Init => TypeInv
BY ConversationAssumption DEF Init, TypeInv, FreeInv, ConversationTypeOK

\* The steps of a request keep the types,
LEMMA OpenTypes ==
  ASSUME TypeInv, NEW r \in Requests, CreateConversation(r)
  PROVE  TypeInv'
<1> USE DEF TypeInv, FreeInv, ConversationTypeOK, Open, Begin, Ended, convVars, messageVars, markVars
<1>1. CASE Find(r)
  <2>1. r \notin ForGroup /\ UNCHANGED <<convVars, lastRead, messageVars, markVars, now, maker>>
        /\ Begin(r, opening)
    BY <1>1 DEF Find
  <2>2. earlier' \in [Requests \cup Marks -> SUBSET (Requests \cup Marks)]
    BY <2>1
  <2>3. opening' \in [Requests -> {"new", "describe", "make", "done", "failed"}]
    BY <1>1 DEF Find
  <2>4. answer' \in [Requests -> Convs \cup {NoConv}] /\ unseen' \subseteq Requests
    BY <1>1 DEF Find, Between
  <2> QED
    BY <2>1, <2>2, <2>3, <2>4
<1>2. CASE SkipFind(r)
  BY <1>2 DEF SkipFind
<1>3. CASE Describe(r)
  BY <1>3 DEF Describe
<1>4. CASE Make(r)
  <2>1. CASE Fails(r)
    BY <2>1 DEF Fails
  <2>2. ASSUME NEW c \in Convs, Makes(r, c) PROVE TypeInv'
    BY <2>2 DEF Makes
  <2> QED
    BY <1>4, <2>1, <2>2, MakeMakes
<1> QED
  BY <1>1, <1>2, <1>3, <1>4 DEF CreateConversation

\* those of a message,
LEMMA MessageTypes ==
  ASSUME TypeInv, NEW m \in Msgs, StampMessage(m) \/ InsertMessage(m)
  PROVE  TypeInv'
<1> USE DEF TypeInv, FreeInv, ConversationTypeOK, convVars, openVars, markVars
<1>1. now \in 0 .. now
  BY ConversationAssumption
<1>2. CASE StampMessage(m)
  BY <1>1, <1>2 DEF StampMessage
<1>3. CASE InsertMessage(m)
  BY <1>3 DEF InsertMessage
<1> QED
  BY <1>2, <1>3

\* A mark that is applied sets the reader's time in its conversation, and no other.
LEMMA MarkedTimes ==
  ASSUME TypeInv, NEW k \in Marks,
         lastRead' = [lastRead EXCEPT ![markConv[k]][Reader[k]] = markedAt[k]]
  PROVE  /\ lastRead' \in [Convs -> [Users -> 0 .. now]]
         /\ \A c \in Convs, u \in Users :
              lastRead'[c][u] = IF c = markConv[k] /\ u = Reader[k] THEN markedAt[k]
                                                                   ELSE lastRead[c][u]
<1>1. PICK c : \E u \in Users, t \in 0 .. now :
        c = markConv[k] /\ u = Reader[k] /\ t = markedAt[k]
  <2>1. Reader[k] \in Users /\ markedAt[k] \in 0 .. now
    BY ConversationAssumption DEF TypeInv, ConversationTypeOK
  <2> QED
    BY <2>1
<1>2. PICK u \in Users, t \in 0 .. now : c = markConv[k] /\ u = Reader[k] /\ t = markedAt[k]
  BY <1>1
<1>3. lastRead \in [Convs -> [Users -> 0 .. now]]
  BY DEF TypeInv, ConversationTypeOK
<1>4. lastRead' = [lastRead EXCEPT ![c] = [lastRead[c] EXCEPT ![u] = t]]
  BY <1>2
<1>5. c \in Convs => [lastRead[c] EXCEPT ![u] = t] \in [Users -> 0 .. now]
  BY <1>3
<1>6. lastRead' \in [Convs -> [Users -> 0 .. now]]
  BY <1>3, <1>4, <1>5
<1>7. \A d \in Convs, v \in Users :
        lastRead'[d][v] = IF d = c /\ v = u THEN t ELSE lastRead[d][v]
  BY <1>3, <1>4
<1> QED
  BY <1>2, <1>6, <1>7

\* those of a mark,
LEMMA MarkTypes ==
  ASSUME TypeInv, NEW k \in Marks, StampMark(k) \/ ApplyMark(k)
  PROVE  TypeInv'
<1> USE DEF TypeInv, FreeInv, ConversationTypeOK, convVars, openVars, messageVars
<1>1. CASE StampMark(k)
  <2>1. now \in 0 .. now
    BY ConversationAssumption
  <2> QED
    BY <1>1, <2>1 DEF StampMark, Begin, Ended
<1>2. CASE ApplyMark(k)
  <2>1. lastRead' \in [Convs -> [Users -> 0 .. now]]
    BY <1>2, MarkedTimes DEF ApplyMark
  <2> QED
    BY <1>2, <2>1 DEF ApplyMark
<1> QED
  BY <1>1, <1>2

\* and so all steps do.
LEMMA NextTypes ==
  ASSUME TypeInv, [Next]_vars
  PROVE  TypeInv'
<1>1. CASE Tick
  <2>1. now' \in 0 .. MaxTime /\ 0 .. now \subseteq 0 .. now'
    BY <1>1, ConversationAssumption DEF Tick, TypeInv, ConversationTypeOK
  <2>2. lastRead' \in [Convs -> [Users -> 0 .. now']]
    <3>1. \A f \in [Users -> 0 .. now] : f \in [Users -> 0 .. now']
      BY <2>1
    <3> QED
      BY <1>1, <3>1 DEF Tick, TypeInv, ConversationTypeOK
  <2>3. createdAt' \in [Msgs -> 0 .. now'] /\ markedAt' \in [Marks -> 0 .. now']
    BY <1>1, <2>1 DEF Tick, TypeInv, ConversationTypeOK, messageVars, markVars
  <2> QED
    BY <1>1, <2>1, <2>2, <2>3 DEF Tick, TypeInv, FreeInv, ConversationTypeOK, convVars, openVars,
       messageVars, markVars
<1>2. CASE UNCHANGED vars
  BY <1>2 DEF vars, TypeInv, FreeInv, ConversationTypeOK
<1> QED
  BY <1>1, <1>2, OpenTypes, MessageTypes, MarkTypes DEF Next

\* The types and the histories that go with them, for the lemmas below.
LEMMA TypeInvariant == Spec => []TypeInv
BY InitTypes, NextTypes, PTL DEF Spec

\* Every variable keeps its type: no user ever has more than two rows in a
\* conversation, and no time lies in the future.
THEOREM ConversationsTyped == Spec => []ConversationTypeOK
<1>1. TypeInv => ConversationTypeOK
  BY DEF TypeInv
<1> QED
  BY <1>1, TypeInvariant, PTL

-----------------------------------------------------------------------------
(* Whose conversation a request answers with.                              *)

\* A conversation has been made by one request, and has its rows and its kind; a
\* request that has found or made one has both its users in it; and a request that
\* has made one answers with that.
MadeInv ==
  /\ \A c \in Convs : \A p \in maker[c] :
       /\ maker[c] = {p}
       /\ \A u \in Users : rows[c][u] = RowsBy(p, u)
       /\ p \in ForGroup => kind[c] = "group"
       /\ opening[p] = "done"
  /\ \A c \in Convs : kind[c] # "none" => maker[c] # {}
  /\ \A r \in Requests : opening[r] \in {"describe", "done"} =>
       answer[r] \in Convs /\ rows[answer[r]][Caller[r]] > 0 /\ rows[answer[r]][Peer[r]] > 0

\* There is no conversation in the beginning.
LEMMA InitMade == Init => MadeInv
BY DEF Init, MadeInv

\* A request that makes a conversation is its only maker and is in it.
LEMMA MakesKeepsMade ==
  ASSUME TypeInv, MadeInv, NEW r \in Requests, NEW c \in Convs, Makes(r, c)
  PROVE  MadeInv'
<1>1. Caller[r] \in Users /\ Peer[r] \in Users
  BY ConversationAssumption
<1>2. /\ \A u \in Users : rows'[c][u] = RowsBy(r, u)
      /\ maker'[c] = {r} /\ kind'[c] # "none" /\ (r \in ForGroup => kind'[c] = "group")
      /\ opening'[r] = "done" /\ answer'[r] = c
      /\ \A d \in Convs \ {c} : /\ maker'[d] = maker[d] /\ kind'[d] = kind[d]
                                /\ \A u \in Users : rows'[d][u] = rows[d][u]
      /\ \A p \in Requests \ {r} : opening'[p] = opening[p] /\ answer'[p] = answer[p]
      /\ maker[c] = {} /\ \A u \in Users : rows[c][u] = 0
      /\ opening[r] = "make"
  BY DEF Makes, TypeInv, ConversationTypeOK, FreeInv
<1>3. RowsBy(r, Caller[r]) > 0 /\ RowsBy(r, Peer[r]) > 0
  BY DEF RowsBy
<1>4. \A d \in Convs : \A p \in maker'[d] :
        /\ maker'[d] = {p}
        /\ \A u \in Users : rows'[d][u] = RowsBy(p, u)
        /\ p \in ForGroup => kind'[d] = "group"
        /\ opening'[p] = "done"
  <2> SUFFICES ASSUME NEW d \in Convs, NEW p \in maker'[d]
               PROVE  /\ maker'[d] = {p}
                      /\ \A u \in Users : rows'[d][u] = RowsBy(p, u)
                      /\ p \in ForGroup => kind'[d] = "group"
                      /\ opening'[p] = "done"
    OBVIOUS
  <2>1. CASE d = c
    BY <1>2, <2>1
  <2>2. CASE d # c
    <3>1. p \in maker[d] /\ p \in Requests
      BY <1>2, <2>2 DEF TypeInv, ConversationTypeOK
    <3>2. opening[p] = "done" /\ p # r
      BY <1>2, <3>1 DEF MadeInv
    <3> QED
      BY <1>2, <2>2, <3>1, <3>2 DEF MadeInv
  <2> QED
    BY <2>1, <2>2
<1>5. \A d \in Convs : kind'[d] # "none" => maker'[d] # {}
  BY <1>2 DEF MadeInv
<1>6. \A p \in Requests : opening'[p] \in {"describe", "done"} =>
        answer'[p] \in Convs /\ rows'[answer'[p]][Caller[p]] > 0 /\ rows'[answer'[p]][Peer[p]] > 0
  <2> SUFFICES ASSUME NEW p \in Requests, opening'[p] \in {"describe", "done"}
               PROVE  /\ answer'[p] \in Convs /\ rows'[answer'[p]][Caller[p]] > 0
                      /\ rows'[answer'[p]][Peer[p]] > 0
    OBVIOUS
  <2>1. CASE p = r
    BY <1>1, <1>2, <1>3, <2>1
  <2>2. CASE p # r
    <3>1. /\ answer[p] \in Convs /\ rows[answer[p]][Caller[p]] > 0 /\ rows[answer[p]][Peer[p]] > 0
          /\ answer'[p] = answer[p]
      BY <1>2, <2>2 DEF MadeInv
    <3>2. Caller[p] \in Users /\ Peer[p] \in Users
      BY ConversationAssumption
    <3>3. answer[p] # c
      BY <1>2, <3>1, <3>2
    <3> QED
      BY <1>2, <3>1, <3>2, <3>3
  <2> QED
    BY <2>1, <2>2
<1> QED
  BY <1>4, <1>5, <1>6 DEF MadeInv

\* The other steps of a request find conversations and make none.
LEMMA OpenKeepsMade ==
  ASSUME TypeInv, MadeInv, NEW r \in Requests, CreateConversation(r)
  PROVE  MadeInv'
<1>1. CASE Find(r)
  <2>1. /\ opening[r] = "new" /\ UNCHANGED <<kind, rows, maker>>
        /\ \A p \in Requests \ {r} : opening'[p] = opening[p] /\ answer'[p] = answer[p]
        /\ \/ answer'[r] \in Between(Caller[r], Peer[r]) /\ opening'[r] = "describe"
           \/ opening'[r] = "make"
    BY <1>1 DEF Find, Open, convVars, TypeInv, ConversationTypeOK
  <2>2. \A c \in Convs : \A p \in maker[c] : p \in Requests /\ p # r
    BY <2>1 DEF MadeInv, TypeInv, ConversationTypeOK
  <2>3. opening'[r] \in {"describe", "done"} =>
          answer'[r] \in Convs /\ rows[answer'[r]][Caller[r]] > 0 /\ rows[answer'[r]][Peer[r]] > 0
    BY <2>1 DEF Between
  <2> QED
    BY <2>1, <2>2, <2>3 DEF MadeInv
<1>2. ASSUME UNCHANGED <<kind, rows, maker, answer>>, opening[r] # "done",
             NEW to, opening' = [opening EXCEPT ![r] = to],
             to \in {"describe", "done"} => opening[r] = "describe"
      PROVE  MadeInv'
  <2>1. /\ \A p \in Requests \ {r} : opening'[p] = opening[p]
        /\ opening'[r] = to
    BY <1>2 DEF TypeInv, ConversationTypeOK
  <2>2. \A c \in Convs : \A p \in maker[c] : p \in Requests /\ p # r
    BY <1>2 DEF MadeInv, TypeInv, ConversationTypeOK
  <2> QED
    BY <1>2, <2>1, <2>2 DEF MadeInv
<1>3. CASE SkipFind(r)
  BY <1>2, <1>3 DEF SkipFind, Open, convVars
<1>4. CASE Describe(r)
  BY <1>2, <1>4 DEF Describe, Open, convVars
<1>5. CASE Fails(r)
  BY <1>2, <1>5 DEF Fails, convVars
<1> QED
  BY <1>1, <1>3, <1>4, <1>5, MakeMakes, MakesKeepsMade DEF CreateConversation

\* Only requests touch what they make.
LEMMA OthersLeaveConversations ==
  ASSUME [Next]_vars
  PROVE  (\E r \in Requests : CreateConversation(r)) \/ UNCHANGED <<convVars, openVars>>
BY DEF Next, StampMessage, InsertMessage, StampMark, ApplyMark, Tick, vars, convVars, openVars

\* A conversation stays as it was made.
LEMMA MadeInvariant == Spec => []MadeInv
<1>1. TypeInv /\ MadeInv /\ [Next]_vars => MadeInv'
  <2> SUFFICES ASSUME TypeInv, MadeInv, [Next]_vars PROVE MadeInv'
    OBVIOUS
  <2>1. CASE UNCHANGED <<convVars, openVars>>
    BY <2>1 DEF MadeInv, convVars, openVars
  <2> QED
    BY <2>1, OpenKeepsMade, OthersLeaveConversations
<1> QED
  BY <1>1, InitMade, TypeInvariant, PTL DEF Spec

\* Two users are given a conversation of exactly the two, with one row each, whatever
\* failed on the way.
THEOREM AnswersAreOurs == Spec => []AnswerIsOurs
<1>1. TypeInv /\ MadeInv => AnswerIsOurs
  <2> SUFFICES ASSUME TypeInv, MadeInv, NEW r \in Requests, opening[r] = "done",
                      Caller[r] # Peer[r], NEW u \in Users
               PROVE  rows[answer[r]][u] = IF u \in {Caller[r], Peer[r]} THEN 1 ELSE 0
    BY DEF AnswerIsOurs
  <2>1. answer[r] \in Convs /\ rows[answer[r]][Caller[r]] > 0 /\ rows[answer[r]][Peer[r]] > 0
    BY DEF MadeInv
  <2>2. Caller[r] \in Users /\ Peer[r] \in Users
    BY ConversationAssumption
  <2>3. PICK p : p \in maker[answer[r]]
    <3>1. kind[answer[r]] # "none"
      BY <2>1, <2>2 DEF TypeInv, FreeInv
    <3> QED
      BY <2>1, <3>1 DEF MadeInv
  <2>4. \A v \in Users : rows[answer[r]][v] = RowsBy(p, v)
    BY <2>1, <2>3 DEF MadeInv
  <2>5. RowsBy(p, Caller[r]) > 0 /\ RowsBy(p, Peer[r]) > 0
    BY <2>1, <2>2, <2>4
  <2>6. {Caller[p], Peer[p]} = {Caller[r], Peer[r]} /\ Caller[p] # Peer[p]
    BY <2>5 DEF RowsBy
  <2> QED
    BY <2>4, <2>6 DEF RowsBy
<1> QED
  BY <1>1, TypeInvariant, MadeInvariant, PTL

-----------------------------------------------------------------------------
(* One conversation of the same two users.                                 *)

Pair(r) == {Caller[r], Peer[r]}

\* The single conversations that two users open, one request after the other.
Earlier(p, q) == p \in Requests /\ p \in earlier[q]

\* A request whose searches all worked, and which is about to make a conversation,
\* follows no request that has made one for the same two users.
SearchInv ==
  /\ \A q \in Requests : \A p \in Requests :
       Earlier(p, q) => opening[p] \in {"done", "failed"} /\ opening[q] # "new"
  /\ \A q \in Requests \ (ForGroup \cup unseen) : opening[q] = "make" =>
       \A c \in Convs : \A p \in maker[c] :
         kind[c] = "single" /\ Earlier(p, q) => Pair(p) # Pair(q)
  /\ OneConversation

\* No request has begun.
LEMMA InitSearch == Init => SearchInv
BY DEF Init, SearchInv, OneConversation, Earlier

\* A request that made a second conversation of two users would have found the
\* first.
LEMMA MakesKeepsSearch ==
  ASSUME TypeInv, MadeInv, SearchInv, NEW r \in Requests, NEW c \in Convs, Makes(r, c)
  PROVE  SearchInv'
<1>1. /\ maker'[c] = {r} /\ (r \in ForGroup => kind'[c] = "group")
      /\ \A d \in Convs \ {c} : maker'[d] = maker[d] /\ kind'[d] = kind[d]
      /\ opening[r] = "make" /\ opening'[r] = "done"
      /\ \A p \in Requests \ {r} : opening'[p] = opening[p]
      /\ UNCHANGED <<earlier, unseen>>
  BY DEF Makes, TypeInv, ConversationTypeOK
<1>2. \A q \in Requests : ~Earlier(r, q)
  BY <1>1 DEF SearchInv
<1>3. \A d \in Convs : maker[d] \subseteq Requests
  BY DEF TypeInv, ConversationTypeOK
<1>4. \A q \in Requests : \A p \in Requests :
        Earlier(p, q)' => opening'[p] \in {"done", "failed"} /\ opening'[q] # "new"
  BY <1>1 DEF SearchInv, Earlier
<1>5. \A q \in Requests \ (ForGroup \cup unseen') : opening'[q] = "make" =>
        \A d \in Convs : \A p \in maker'[d] :
          kind'[d] = "single" /\ Earlier(p, q)' => Pair(p) # Pair(q)
  BY <1>1, <1>2 DEF SearchInv, Earlier
<1>6. OneConversation'
  <2> SUFFICES ASSUME NEW d \in Convs, NEW e \in Convs,
                      NEW p \in maker'[d], NEW q \in maker'[e],
                      d # e, kind'[d] = "single", kind'[e] = "single",
                      Pair(p) = Pair(q), p \in earlier'[q]
               PROVE  q \in unseen'
    BY DEF OneConversation, Pair
  <2>1. p \in Requests /\ q \in Requests /\ Earlier(p, q)
    BY <1>1, <1>3 DEF Earlier
  <2>2. p # r /\ d # c
    BY <1>1, <1>2, <2>1
  <2>3. CASE e = c
    BY <1>1, <2>1, <2>2, <2>3 DEF SearchInv
  <2>4. CASE e # c
    BY <1>1, <2>2, <2>4 DEF SearchInv, OneConversation, Pair
  <2> QED
    BY <2>3, <2>4
<1> QED
  BY <1>4, <1>5, <1>6 DEF SearchInv

\* A request that begins has, as its earlier ones, those that have ended.
LEMMA BeginKeepsSearch ==
  ASSUME TypeInv, MadeInv, SearchInv, NEW r \in Requests, opening[r] = "new",
         NEW to \in {"describe", "make"}, opening' = [opening EXCEPT ![r] = to],
         Begin(r, opening), UNCHANGED <<kind, maker>>, unseen \subseteq unseen',
         to = "make" => \/ r \in ForGroup \cup unseen'
                        \/ Between(Caller[r], Peer[r]) = {}
  PROVE  SearchInv'
<1>1. /\ \A p \in Requests \ {r} : opening'[p] = opening[p]
      /\ opening'[r] = to
      /\ \A q \in Requests \ {r} : earlier'[q] = earlier[q]
      /\ earlier'[r] = {p \in Requests : opening[p] \in {"done", "failed"}}
  BY DEF Begin, Ended, TypeInv, ConversationTypeOK
<1>2. /\ \A q \in Requests \ {r} : \A p : Earlier(p, q)' <=> Earlier(p, q)
      /\ \A p : Earlier(p, r)' <=> p \in Requests /\ opening[p] \in {"done", "failed"}
      /\ \A q \in Requests : ~Earlier(r, q)
  BY <1>1 DEF Earlier, SearchInv
<1>3. \A c \in Convs : \A p \in maker[c] : p \in Requests /\ p # r
  BY DEF MadeInv, TypeInv, ConversationTypeOK
<1>4. \A q \in Requests : \A p \in Requests :
        Earlier(p, q)' => opening'[p] \in {"done", "failed"} /\ opening'[q] # "new"
  BY <1>1, <1>2 DEF SearchInv
<1>5. \A q \in Requests \ (ForGroup \cup unseen') : opening'[q] = "make" =>
        \A c \in Convs : \A p \in maker[c] :
          kind[c] = "single" /\ Earlier(p, q)' => Pair(p) # Pair(q)
  <2> SUFFICES ASSUME NEW q \in Requests \ (ForGroup \cup unseen'), opening'[q] = "make",
                      NEW c \in Convs, NEW p \in maker[c],
                      kind[c] = "single", Earlier(p, q)', Pair(p) = Pair(q)
               PROVE  FALSE
    OBVIOUS
  <2>1. CASE q # r
    BY <1>1, <1>2, <2>1 DEF SearchInv
  <2>2. CASE q = r
    <3>1. Caller[r] \in Users /\ Peer[r] \in Users
      BY ConversationAssumption
    <3>2. RowsBy(p, Caller[r]) > 0 /\ RowsBy(p, Peer[r]) > 0
      BY <2>2 DEF Pair, RowsBy
    <3>3. rows[c][Caller[r]] > 0 /\ rows[c][Peer[r]] > 0
      BY <3>1, <3>2 DEF MadeInv
    <3>4. c \in Between(Caller[r], Peer[r])
      BY <3>3 DEF Between
    <3> QED
      BY <1>1, <2>2, <3>4
  <2> QED
    BY <2>1, <2>2
<1>6. OneConversation'
  BY <1>1, <1>3 DEF SearchInv, OneConversation
<1> QED
  BY <1>4, <1>5, <1>6 DEF SearchInv

\* A search that works, and that begins after a conversation was made, finds it.
LEMMA OpenKeepsSearch ==
  ASSUME TypeInv, MadeInv, SearchInv, NEW r \in Requests, CreateConversation(r)
  PROVE  SearchInv'
<1>1. CASE Find(r)
  <2>1. /\ opening[r] = "new" /\ Begin(r, opening) /\ UNCHANGED <<kind, maker>>
        /\ unseen \subseteq unseen' /\ r \notin ForGroup
    BY <1>1 DEF Find, Open, convVars
  <2>2. \/ opening' = [opening EXCEPT ![r] = "describe"]
        \/ /\ opening' = [opening EXCEPT ![r] = "make"]
           /\ r \in unseen' \/ Between(Caller[r], Peer[r]) = {}
    BY <1>1 DEF Find, Open
  <2> QED
    BY <2>1, <2>2, BeginKeepsSearch
<1>2. CASE SkipFind(r)
  BY <1>2, BeginKeepsSearch DEF SkipFind, Open, convVars
<1>3. ASSUME UNCHANGED <<kind, maker, earlier>>, unseen \subseteq unseen',
             opening[r] \in {"describe", "make"}, NEW to,
             opening' = [opening EXCEPT ![r] = to],
             to \in {"done", "failed"} \/ (to = "make" /\ r \in unseen')
      PROVE  SearchInv'
  <2>1. /\ \A p \in Requests \ {r} : opening'[p] = opening[p]
        /\ opening'[r] = to
        /\ \A p, q : Earlier(p, q)' <=> Earlier(p, q)
    BY <1>3 DEF TypeInv, ConversationTypeOK, Earlier
  <2>2. \A q \in Requests : \A p \in Requests :
          Earlier(p, q)' => opening'[p] \in {"done", "failed"} /\ opening'[q] # "new"
    BY <1>3, <2>1 DEF SearchInv
  <2>3. OneConversation'
    BY <1>3 DEF SearchInv, OneConversation
  <2> QED
    BY <1>3, <2>1, <2>2, <2>3 DEF SearchInv
<1>4. CASE Describe(r)
  BY <1>3, <1>4 DEF Describe, Open, convVars
<1>5. CASE Fails(r)
  BY <1>3, <1>5 DEF Fails, convVars
<1> QED
  BY <1>1, <1>2, <1>4, <1>5, MakeMakes, MakesKeepsSearch DEF CreateConversation

\* What else happens leaves the requests that came before a request as they are.
LEMMA MarksLeaveRequests ==
  ASSUME TypeInv, [Next]_vars, UNCHANGED <<convVars, openVars>>
  PROVE  (\E r \in Requests : CreateConversation(r)) \/ \A q \in Requests : earlier'[q] = earlier[q]
<1>1. ASSUME NEW k \in Marks, StampMark(k)
      PROVE  \A q \in Requests : earlier'[q] = earlier[q]
  <2>1. \A q \in Requests : q # k
    BY ConversationAssumption
  <2> QED
    BY <1>1, <2>1 DEF StampMark, Begin, TypeInv, ConversationTypeOK
<1> QED
  BY <1>1 DEF Next, StampMessage, InsertMessage, ApplyMark, Tick, vars

\* So later requests know what earlier ones made.
LEMMA SearchInvariant == Spec => []SearchInv
<1>1. TypeInv /\ MadeInv /\ SearchInv /\ [Next]_vars => SearchInv'
  <2> SUFFICES ASSUME TypeInv, MadeInv, SearchInv, [Next]_vars PROVE SearchInv'
    OBVIOUS
  <2>1. CASE UNCHANGED <<convVars, openVars>> /\ \A q \in Requests : earlier'[q] = earlier[q]
    <3>1. \A c \in Convs : maker[c] \subseteq Requests
      BY DEF TypeInv, ConversationTypeOK
    <3>2. \A p, q \in Requests : Earlier(p, q)' <=> Earlier(p, q)
      BY <2>1 DEF Earlier
    <3>3. UNCHANGED <<kind, opening, maker, unseen>>
      BY <2>1 DEF convVars, openVars
    <3>4. OneConversation'
      BY <2>1, <3>1, <3>3 DEF SearchInv, OneConversation
    <3> QED
      BY <3>1, <3>2, <3>3, <3>4 DEF SearchInv
  <2> QED
    BY <2>1, OpenKeepsSearch, OthersLeaveConversations, MarksLeaveRequests
<1> QED
  BY <1>1, InitSearch, MadeInvariant, TypeInvariant, PTL DEF Spec

\* Requests that follow each other do not make two single conversations of the same
\* users, whoever asks, unless a query of the later one failed.
THEOREM OnlyOneConversation == Spec => []OneConversation
<1>1. SearchInv => OneConversation
  BY DEF SearchInv
<1> QED
  BY <1>1, SearchInvariant, PTL

-----------------------------------------------------------------------------
(* What is read stays read.                                                *)

\* The calls that had ended before a mark began took their time no later than it.  The
\* reader's time in the conversation of an applied mark is at least the mark's own,
\* unless a mark that overlaps has been applied, too.
ReadInv ==
  /\ \A k, l \in Marks : k \in earlier[l] =>
       /\ marking[k] \in {"done", "failed"} /\ marking[l] # "new"
       /\ markedAt[k] <= markedAt[l]
  /\ \A k \in Marks : marking[k] # "new" => markConv[k] \in Convs
  /\ \A k \in Marks : marking[k] = "done" =>
       \/ lastRead[markConv[k]][Reader[k]] >= markedAt[k]
       \/ \E l \in Marks \ {k} : marking[l] = "done" /\ Overlap(k, l)

\* No mark has begun.
LEMMA InitRead == Init => ReadInv
BY DEF Init, ReadInv

\* A mark takes a time that is no earlier than that of the marks which have ended.
LEMMA StampKeepsRead ==
  ASSUME TypeInv, ReadInv, NEW k \in Marks, StampMark(k)
  PROVE  ReadInv'
<1>1. /\ marking[k] = "new" /\ marking'[k] = "update" /\ markedAt'[k] = now
      /\ markConv'[k] \in Convs /\ UNCHANGED lastRead
      /\ \A l \in Marks \ {k} : /\ marking'[l] = marking[l] /\ markedAt'[l] = markedAt[l]
                                /\ markConv'[l] = markConv[l] /\ earlier'[l] = earlier[l]
      /\ \A l \in Marks : l \in earlier'[k] <=> marking[l] \in {"done", "failed"}
  BY DEF StampMark, Begin, Ended, TypeInv, ConversationTypeOK
<1>2. \A l \in Marks : markedAt[l] <= now
  BY ConversationAssumption DEF TypeInv, ConversationTypeOK
<1>3. \A l \in Marks : k \notin earlier[l]
  BY <1>1 DEF ReadInv
<1>4. \A l, n \in Marks : l \in earlier'[n] =>
        /\ marking'[l] \in {"done", "failed"} /\ marking'[n] # "new"
        /\ markedAt'[l] <= markedAt'[n]
  BY <1>1, <1>2, <1>3 DEF ReadInv
<1>5. \A l, n \in Marks \ {k} : Overlap(l, n)' <=> Overlap(l, n)
  BY <1>1 DEF Overlap
<1>6. ASSUME NEW l \in Marks, marking'[l] = "done"
      PROVE  \/ lastRead'[markConv'[l]][Reader[l]] >= markedAt'[l]
             \/ \E n \in Marks \ {l} : marking'[n] = "done" /\ Overlap(l, n)'
  <2>1. l # k /\ marking[l] = "done"
    BY <1>1, <1>6
  <2>2. CASE lastRead[markConv[l]][Reader[l]] >= markedAt[l]
    BY <1>1, <2>1, <2>2
  <2>3. ASSUME NEW n \in Marks \ {l}, marking[n] = "done", Overlap(l, n)
        PROVE  marking'[n] = "done" /\ Overlap(l, n)'
    <3>1. n # k
      BY <1>1, <2>3
    <3> QED
      BY <1>1, <1>5, <2>1, <2>3, <3>1
  <2> QED
    BY <2>1, <2>2, <2>3 DEF ReadInv
<1> QED
  BY <1>1, <1>4, <1>6 DEF ReadInv

\* A mark moves the time back only over a mark that it overlaps.
LEMMA ApplyKeepsRead ==
  ASSUME TypeInv, ReadInv, NEW k \in Marks, ApplyMark(k)
  PROVE  ReadInv'
<1>1. /\ marking[k] = "update" /\ UNCHANGED <<markConv, markedAt, earlier>>
      /\ \A l \in Marks \ {k} : marking'[l] = marking[l]
      /\ marking'[k] \in {"done", "failed"}
      /\ marking'[k] = "done" =>
           lastRead' = [lastRead EXCEPT ![markConv[k]][Reader[k]] = markedAt[k]]
      /\ marking'[k] = "failed" => UNCHANGED lastRead
  BY DEF ApplyMark, TypeInv, ConversationTypeOK
<1>2. \A l, n : Overlap(l, n)' <=> Overlap(l, n)
  BY <1>1 DEF Overlap
<1>3. \A l, n \in Marks : l \in earlier'[n] =>
        /\ marking'[l] \in {"done", "failed"} /\ marking'[n] # "new"
        /\ markedAt'[l] <= markedAt'[n]
  BY <1>1 DEF ReadInv
<1>4. /\ \A l \in Marks : Reader[l] \in Users
      /\ \A l \in Marks : markedAt[l] \in Nat
  BY ConversationAssumption DEF TypeInv, ConversationTypeOK
<1>5. ASSUME NEW l \in Marks, marking'[l] = "done"
      PROVE  \/ lastRead'[markConv[l]][Reader[l]] >= markedAt[l]
             \/ \E n \in Marks \ {l} : marking'[n] = "done" /\ Overlap(l, n)
  <2>1. markConv[l] \in Convs
    BY <1>1, <1>5 DEF ReadInv
  <2>2. CASE marking'[k] = "failed"
    BY <1>1, <1>5, <2>2 DEF ReadInv
  <2>3. CASE marking'[k] = "done"
    <3>1. lastRead'[markConv[l]][Reader[l]] =
            IF markConv[l] = markConv[k] /\ Reader[l] = Reader[k]
              THEN markedAt[k] ELSE lastRead[markConv[l]][Reader[l]]
      BY <1>1, <1>4, <2>1, <2>3, MarkedTimes
    <3>2. CASE l = k
      BY <1>4, <3>1, <3>2
    <3>3. CASE l # k /\ markConv[l] = markConv[k] /\ Reader[l] = Reader[k]
      <4>1. l \notin earlier[k] => Overlap(l, k)
        BY <1>1, <3>3 DEF Overlap, ReadInv
      <4>2. l \in earlier[k] => markedAt[k] >= markedAt[l]
        BY <1>4 DEF ReadInv
      <4> QED
        BY <2>3, <3>1, <3>3, <4>1, <4>2
    <3>4. CASE l # k /\ ~(markConv[l] = markConv[k] /\ Reader[l] = Reader[k])
      <4>1. marking[l] = "done"
        BY <1>1, <1>5, <3>4
      <4> QED
        BY <1>1, <3>1, <3>4, <4>1 DEF ReadInv
    <3> QED
      BY <3>2, <3>3, <3>4
  <2> QED
    BY <1>1, <2>2, <2>3
<1>6. \A l \in Marks : marking'[l] # "new" => markConv'[l] \in Convs
  BY <1>1 DEF ReadInv
<1> QED
  BY <1>1, <1>2, <1>3, <1>5, <1>6 DEF ReadInv

\* Nothing else moves the time of a reader.
LEMMA NextRead ==
  ASSUME TypeInv, ReadInv, [Next]_vars
  PROVE  ReadInv'
<1>1. ASSUME UNCHANGED markVars, \A k \in Marks : earlier'[k] = earlier[k],
             \A c \in Convs, u \in Users : lastRead'[c][u] >= lastRead[c][u],
             lastRead' \in [Convs -> [Users -> Nat]]
      PROVE  ReadInv'
  <2>1. UNCHANGED <<marking, markConv, markedAt>>
    BY <1>1 DEF markVars
  <2>2. \A k, l \in Marks : Overlap(k, l)' <=> Overlap(k, l)
    BY <1>1, <2>1 DEF Overlap
  <2>3. ASSUME NEW k \in Marks, marking[k] = "done",
               lastRead[markConv[k]][Reader[k]] >= markedAt[k]
        PROVE  lastRead'[markConv[k]][Reader[k]] >= markedAt[k]
    <3>1. PICK c \in Convs, u \in Users, t \in Nat :
            c = markConv[k] /\ u = Reader[k] /\ t = markedAt[k]
      BY <2>3, ConversationAssumption DEF ReadInv, TypeInv, ConversationTypeOK
    <3>2. lastRead[c][u] \in Nat /\ lastRead'[c][u] \in Nat /\ lastRead'[c][u] >= lastRead[c][u]
      BY <1>1 DEF TypeInv, ConversationTypeOK
    <3> QED
      BY <2>3, <3>1, <3>2
  <2> QED
    BY <1>1, <2>1, <2>2, <2>3 DEF ReadInv
<1>2. /\ \A n \in Nat : \A f \in [Convs -> [Users -> 0 .. n]] : f \in [Convs -> [Users -> Nat]]
      /\ now \in Nat /\ lastRead \in [Convs -> [Users -> 0 .. now]]
      /\ \A c \in Convs, u \in Users : lastRead[c][u] >= lastRead[c][u]
  BY ConversationAssumption DEF TypeInv, ConversationTypeOK
<1>3. ASSUME NEW r \in Requests, CreateConversation(r) PROVE ReadInv'
  <2>1. \A k \in Marks : k # r
    BY ConversationAssumption
  <2>2. CASE Find(r) \/ SkipFind(r) \/ Describe(r) \/ Fails(r)
    <3>1. UNCHANGED <<markVars, lastRead>>
      BY <2>2 DEF Find, SkipFind, Describe, Fails
    <3>2. \A k \in Marks : earlier'[k] = earlier[k]
      BY <2>1, <2>2 DEF Find, SkipFind, Describe, Fails, Begin, TypeInv, ConversationTypeOK
    <3> QED
      BY <1>1, <1>2, <3>1, <3>2
  <2>3. ASSUME NEW c \in Convs, Makes(r, c) PROVE ReadInv'
    BY <1>1, <1>2, <2>3 DEF Makes
  <2> QED
    BY <1>3, <2>2, <2>3, MakeMakes DEF CreateConversation
<1>4. ASSUME NEW m \in Msgs, StampMessage(m) \/ InsertMessage(m) PROVE ReadInv'
  BY <1>1, <1>2, <1>4 DEF StampMessage, InsertMessage
<1>5. CASE Tick \/ UNCHANGED vars
  BY <1>1, <1>2, <1>5 DEF Tick, vars, markVars
<1> QED
  BY <1>3, <1>4, <1>5, StampKeepsRead, ApplyKeepsRead DEF Next

\* So the time of a reader is never behind an applied mark without an overlap.
LEMMA ReadInvariant == Spec => []ReadInv
BY InitRead, NextRead, TypeInvariant, PTL DEF Spec

\* What a mark has covered is never counted as unread again, also if it is inserted
\* later, as long as no overlapping mark of the same user has been applied.
THEOREM ReadIsKept == Spec => []ReadStaysRead
<1>1. TypeInv /\ ReadInv => ReadStaysRead
  <2> SUFFICES ASSUME TypeInv, ReadInv, NEW k \in Marks, NEW m \in Msgs,
                      marking[k] = "done", createdAt[m] <= markedAt[k],
                      \A l \in Marks \ {k} : marking[l] = "done" => ~Overlap(k, l)
               PROVE  m \notin Unread(Reader[k], markConv[k])
    BY DEF ReadStaysRead
  <2>1. PICK c \in Convs, u \in Users, t \in Nat :
          c = markConv[k] /\ u = Reader[k] /\ t = markedAt[k]
    <3>1. markConv[k] \in Convs
      BY DEF ReadInv
    <3>2. Reader[k] \in Users /\ markedAt[k] \in Nat
      BY ConversationAssumption DEF TypeInv, ConversationTypeOK
    <3> QED
      BY <3>1, <3>2
  <2>2. lastRead[c][u] \in Nat /\ createdAt[m] \in Nat
    BY ConversationAssumption DEF TypeInv, ConversationTypeOK
  <2>3. lastRead[c][u] >= t
    BY <2>1 DEF ReadInv
  <2>4. ~(createdAt[m] > lastRead[c][u])
    BY <2>1, <2>2, <2>3
  <2> QED
    BY <2>1, <2>4 DEF Unread
<1> QED
  BY <1>1, TypeInvariant, ReadInvariant, PTL
=============================================================================
