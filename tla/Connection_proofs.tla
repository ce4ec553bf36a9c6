-------------------------- MODULE Connection_proofs --------------------------
(***************************************************************************)
(* Proofs about one connection, for any messages, any answers and any      *)
(* capacity of the send channel: its types, what it takes for a goroutine  *)
(* to panic, and that the connection is a Mailbox for those who send       *)
(* through it.                                                             *)
(***************************************************************************)
EXTENDS Connection, SequenceTheorems, TLAPS

-----------------------------------------------------------------------------
(* Types.                                                                  *)

\* The initial values have their types.
LEMMA InitTypeOK == Init => ConnectionTypeOK
<1> SUFFICES ASSUME Init PROVE ConnectionTypeOK
  OBVIOUS
<1>1. << >> \in Seq(Messages) /\ Len(<< >>) = 0 /\ Capacity \in Nat
  BY EmptySeq, MessageAssumption
<1>2. /\ buffer \in Seq(Messages) /\ Len(buffer) <= Capacity
      /\ accepted \in Seq(Messages) /\ written \in Seq(Messages)
  BY <1>1, MessageAssumption DEF Init
<1>3. /\ closer \in [Closers -> {"out", "check", "done", "send", "net", "over"}]
      /\ sending \in [Senders -> Messages \cup {Nothing}]
      /\ checked \in [Senders -> BOOLEAN]
      /\ outcome \in [Messages -> {"none", "ok", "closed", "full"}]
  BY DEF Init
<1> QED
  BY <1>2, <1>3 DEF Init, ConnectionTypeOK

\* What a call of SendMessage does to its sender's variables keeps their types.
LEMMA ReturnTypes ==
  ASSUME ConnectionTypeOK, NEW p \in Senders, NEW result \in {"ok", "closed", "full"},
         sending[p] # Nothing, Return(p, result)
  PROVE  /\ outcome' \in [Messages -> {"none", "ok", "closed", "full"}]
         /\ sending' \in [Senders -> Messages \cup {Nothing}]
         /\ checked' \in [Senders -> BOOLEAN]
         /\ calledOpen' \subseteq Messages
BY DEF ConnectionTypeOK, Return

\* A call of SendMessage keeps the types,
LEMMA CallTypes ==
  ASSUME ConnectionTypeOK, NEW p \in Senders, NEW m \in Messages, Call(p, m),
         reader' \in {"top", "read", "ended"}
  PROVE  ConnectionTypeOK'
BY DEF ConnectionTypeOK, Call, channelVars, clientVars

\* so does its first select,
LEMMA CheckDoneTypes ==
  ASSUME ConnectionTypeOK, NEW p \in Senders, CheckDone(p)
  PROVE  ConnectionTypeOK'
<1>1. CASE doneClosed
  BY <1>1, ReturnTypes DEF ConnectionTypeOK, CheckDone, channelVars, clientVars, loopVars
<1>2. CASE ~doneClosed
  BY <1>2 DEF ConnectionTypeOK, CheckDone, channelVars, clientVars, loopVars
<1> QED
  BY <1>1, <1>2

\* and its second, which takes a message only if there is room;
LEMMA OfferTypes ==
  ASSUME ConnectionTypeOK, NEW p \in Senders, Offer(p)
  PROVE  ConnectionTypeOK'
<1>1. sending[p] \in Messages
  BY DEF ConnectionTypeOK, Offer
<1>2. /\ buffer' \in Seq(Messages) /\ Len(buffer') <= Capacity
      /\ accepted' \in Seq(Messages)
  <2>1. /\ Append(buffer, sending[p]) \in Seq(Messages)
        /\ Len(Append(buffer, sending[p])) = Len(buffer) + 1
        /\ Append(accepted, sending[p]) \in Seq(Messages)
    BY <1>1, AppendProperties DEF ConnectionTypeOK
  <2>2. CASE /\ Len(buffer) < Capacity
             /\ buffer' = Append(buffer, sending[p])
             /\ accepted' = Append(accepted, sending[p])
    BY <2>1, <2>2, LenProperties, MessageAssumption DEF ConnectionTypeOK
  <2>3. CASE UNCHANGED <<buffer, accepted>>
    BY <2>3 DEF ConnectionTypeOK
  <2> QED
    BY <2>2, <2>3 DEF Offer, sendVars
<1>3. /\ outcome' \in [Messages -> {"none", "ok", "closed", "full"}]
      /\ sending' \in [Senders -> Messages \cup {Nothing}]
      /\ checked' \in [Senders -> BOOLEAN]
      /\ calledOpen' \subseteq Messages
      /\ panicked' \in BOOLEAN
  BY ReturnTypes DEF ConnectionTypeOK, Offer, sendVars
<1> QED
  BY <1>2, <1>3 DEF ConnectionTypeOK, Offer, clientVars, loopVars

\* every step of Close does,
LEMMA CloseTypes ==
  ASSUME ConnectionTypeOK, NEW p \in Closers, CloseStep(p)
  PROVE  ConnectionTypeOK'
<1> USE DEF ConnectionTypeOK, Proceed, channelVars, clientVars, loopVars, sendVars
<1>1. CASE SeeDone(p)
  BY <1>1 DEF SeeDone
<1>2. CASE CloseDone(p)
  BY <1>2 DEF CloseDone
<1>3. CASE CloseSend(p)
  BY <1>3 DEF CloseSend
<1>4. CASE CloseNet(p)
  BY <1>4 DEF CloseNet
<1> QED
  BY <1>1, <1>2, <1>3, <1>4 DEF CloseStep

\* the writer, which takes from the front of the channel,
LEMMA WriterTypes ==
  ASSUME ConnectionTypeOK, WriterStep
  PROVE  ConnectionTypeOK'
<1>1. CASE WriteNext
  <2>1. Head(buffer) \in Messages /\ Tail(buffer) \in Seq(Messages) /\ Len(Tail(buffer)) <= Capacity
    <3>1. buffer \in Seq(Messages) /\ buffer # << >> /\ Len(buffer) <= Capacity
      BY <1>1 DEF ConnectionTypeOK, WriteNext
    <3> QED
      BY <3>1, HeadTailProperties, LenProperties, MessageAssumption
  <2>2. buffer' = Tail(buffer) /\ written' \in Seq(Messages)
    <3>1. Append(written, Head(buffer)) \in Seq(Messages)
      BY <2>1, AppendProperties DEF ConnectionTypeOK
    <3> QED
      BY <1>1, <3>1 DEF ConnectionTypeOK, WriteNext
  <2> QED
    BY <1>1, <2>1, <2>2 DEF ConnectionTypeOK, WriteNext, WriterStops, sendVars
<1>2. CASE WriterLeaves \/ WriterCloses
  BY <1>2 DEF ConnectionTypeOK, WriterLeaves, WriterCloses, WriterStops, channelVars,
              clientVars, sendVars
<1> QED
  BY <1>1, <1>2 DEF WriterStep

\* and so every step.
LEMMA NextTypeOK ==
  ASSUME ConnectionTypeOK, [Next]_vars
  PROVE  ConnectionTypeOK'
<1>1. ASSUME NEW m \in RunMsgs, RunSends(m) PROVE ConnectionTypeOK'
  BY <1>1, CallTypes DEF RunSends, Messages, Senders, ConnectionTypeOK
<1>2. ASSUME NEW m \in Answers, ReadAndAnswer(m) PROVE ConnectionTypeOK'
  BY <1>2, CallTypes DEF ReadAndAnswer, Messages, Senders
<1>3. CASE LoopTop \/ ReadFails \/ ReadTimesOut
  BY <1>3 DEF ConnectionTypeOK, LoopTop, ReadFails, ReadTimesOut, Proceed, Closers,
              channelVars, clientVars, sendVars
<1>4. CASE HandlerReturns \/ ManagerCloses
  BY <1>4 DEF ConnectionTypeOK, HandlerReturns, ManagerCloses, Proceed, Closers,
              channelVars, clientVars, loopVars, sendVars
<1>5. ASSUME NEW how \in {"gone", "silent"}, PeerLeaves(how) PROVE ConnectionTypeOK'
  BY <1>5 DEF ConnectionTypeOK, PeerLeaves, channelVars, loopVars, sendVars
<1>6. CASE UNCHANGED vars
  BY <1>6 DEF ConnectionTypeOK, vars
<1> QED
  BY <1>1, <1>2, <1>3, <1>4, <1>5, <1>6, CheckDoneTypes, OfferTypes, CloseTypes, WriterTypes
     DEF Next, ReaderStep, Senders, Closers

\* Every variable keeps its type, and the send channel its capacity, whoever sends,
\* reads, writes and closes.
THEOREM TypeCorrect == Spec => []ConnectionTypeOK
BY InitTypeOK, NextTypeOK, PTL DEF Spec

-----------------------------------------------------------------------------
(* What it takes to panic.                                                 *)

\* How far Close has come is what the two flags say; a sender between its two
\* selects has begun, and found the connection open; and so has any other that
\* began before done was closed.
RaceInv ==
  /\ \A p \in Closers : closer[p] \in {"send", "net", "over"} => doneClosed
  /\ doneClosed => \E p \in Closers : closer[p] \in {"send", "net", "over"}
  /\ sendClosed => doneClosed
  /\ \A p \in Senders :
       /\ sending[p] # Nothing /\ (checked[p] \/ ~doneClosed) => sending[p] \in calledOpen
       /\ checked[p] => sending[p] # Nothing
  /\ PanicNeedsRace

\* Nobody has called anything yet.
LEMMA InitRace == Init => RaceInv
BY DEF Init, RaceInv, PanicNeedsRace

\* SendMessage, and all that is no step of Close, leaves done and send open.
LEMMA SendersKeepRace ==
  ASSUME ConnectionTypeOK, RaceInv, ~panicked, NEW p \in Senders,
         (\E m \in Messages : Call(p, m)) \/ CheckDone(p) \/ Offer(p),
         UNCHANGED closer
  PROVE  RaceInv'
<1> USE DEF ConnectionTypeOK, RaceInv, PanicNeedsRace
<1>1. CASE \E m \in Messages : Call(p, m)
  BY <1>1 DEF Call, channelVars
<1>2. CASE CheckDone(p)
  BY <1>2 DEF CheckDone, Return, channelVars
<1>3. CASE Offer(p)
  <2>1. /\ sending[p] # Nothing /\ checked[p]
        /\ UNCHANGED <<doneClosed, sendClosed, calledOpen>>
    BY <1>3 DEF Offer, Return, sendVars
  <2>2. CASE UNCHANGED sendVars
    BY <1>3, <2>1, <2>2 DEF Offer, sendVars
  <2>3. ASSUME NEW result, Return(p, result), UNCHANGED panicked PROVE RaceInv'
    BY <2>1, <2>3 DEF Return
  <2> QED
    BY <1>3, <2>2, <2>3 DEF Offer
<1> QED
  BY <1>1, <1>2, <1>3

\* Only the first closer closes the two channels, and it closes done first.
LEMMA CloseKeepsRace ==
  ASSUME ConnectionTypeOK, RaceInv, ~panicked, NEW p \in Closers, CloseStep(p)
  PROVE  RaceInv'
<1> USE DEF ConnectionTypeOK, RaceInv, PanicNeedsRace, Proceed, channelVars, loopVars, sendVars
<1>1. CASE SeeDone(p)
  BY <1>1 DEF SeeDone
<1>2. CASE CloseDone(p)
  BY <1>2 DEF CloseDone, Closers
<1>3. CASE CloseSend(p)
  BY <1>3 DEF CloseSend
<1>4. CASE CloseNet(p)
  BY <1>4 DEF CloseNet
<1> QED
  BY <1>1, <1>2, <1>3, <1>4 DEF CloseStep

\* A step that does not call SendMessage and leaves the flags as they are may
\* begin a Close.
LEMMA OthersKeepRace ==
  ASSUME ConnectionTypeOK, RaceInv,
         UNCHANGED <<doneClosed, sendClosed, sending, checked, calledOpen, panicked>>,
         \/ UNCHANGED closer
         \/ \E p \in Closers : closer[p] = "out" /\ Proceed(p, "check")
  PROVE  RaceInv'
BY DEF ConnectionTypeOK, RaceInv, PanicNeedsRace, Proceed

\* The reader closes when it has ended, and has not begun before.
ReaderClosesLast == reader # "ended" => closer["reader"] = "out"

\* The reader closes the connection only after it has stopped reading.
LEMMA NextReader ==
  ASSUME ConnectionTypeOK, ReaderClosesLast, [Next]_vars
  PROVE  ReaderClosesLast'
BY DEF ConnectionTypeOK, ReaderClosesLast, Next, vars, ReaderStep, WriterStep, RunSends, Call,
       ReadAndAnswer, CheckDone, Return, Offer, LoopTop, AtRead, ReadFails, ReadTimesOut, CloseStep,
       SeeDone, CloseDone, CloseSend, CloseNet, Proceed, WriteNext, WriterLeaves, WriterCloses,
       HandlerReturns, ManagerCloses, PeerLeaves, channelVars, clientVars, loopVars, sendVars,
       Closers

\* No step breaks what the flags say about senders and closers.
LEMMA NextRace ==
  ASSUME ConnectionTypeOK, ReaderClosesLast, RaceInv, [Next]_vars
  PROVE  RaceInv'
<1>1. ASSUME ~panicked, NEW m \in RunMsgs, RunSends(m) PROVE RaceInv'
  BY <1>1, SendersKeepRace DEF RunSends, Call, Messages, Senders
<1>2. ASSUME ~panicked, NEW m \in Answers, ReadAndAnswer(m) PROVE RaceInv'
  BY <1>2, SendersKeepRace DEF ReadAndAnswer, Call, Messages, Senders
<1>3. ASSUME ~panicked, NEW p \in Senders, CheckDone(p) \/ Offer(p) PROVE RaceInv'
  BY <1>3, SendersKeepRace DEF CheckDone, Offer
<1>4. CASE LoopTop \/ ReadFails \/ ReadTimesOut
  BY <1>4, OthersKeepRace DEF LoopTop, ReadFails, AtRead, ReadTimesOut, ReaderClosesLast, Closers,
     channelVars, sendVars
<1>5. CASE WriterStep
  BY <1>5, OthersKeepRace DEF WriterStep, WriteNext, WriterLeaves, WriterCloses, channelVars,
     sendVars
<1>6. CASE HandlerReturns \/ ManagerCloses
  BY <1>6, OthersKeepRace DEF HandlerReturns, ManagerCloses, Closers, channelVars, sendVars
<1>7. ASSUME NEW how \in {"gone", "silent"}, PeerLeaves(how) PROVE RaceInv'
  BY <1>7, OthersKeepRace DEF PeerLeaves, channelVars, sendVars
<1>8. CASE UNCHANGED vars
  BY <1>8, OthersKeepRace DEF vars
<1> QED
  BY <1>1, <1>2, <1>3, <1>4, <1>5, <1>6, <1>7, <1>8, CloseKeepsRace
     DEF Next, ReaderStep, Senders, Closers

\* Neither a message that is sent to a connection that has been closed, nor a second
\* Close after the first, takes the process down: the two selects fail to protect
\* only a call that has begun before.
THEOREM PanicOnlyByRace == Spec => []PanicNeedsRace
<1>1. Init => ReaderClosesLast /\ RaceInv
  BY InitRace DEF Init, ReaderClosesLast, Closers
<1>2. RaceInv => PanicNeedsRace
  BY DEF RaceInv
<1>3. ConnectionTypeOK /\ ReaderClosesLast /\ RaceInv /\ [Next]_vars
        => (ReaderClosesLast /\ RaceInv)'
  BY NextReader, NextRace
<1> QED
  BY <1>1, <1>2, <1>3, TypeCorrect, PTL DEF Spec

-----------------------------------------------------------------------------
(* The connection implements the Mailbox.                                  *)

\* While the writer is at work the buffer holds what was accepted and is not yet
\* written, in order; when it stops it may have lost the message in its hand.
BufferInv ==
  /\ writer = "loop" =>
       /\ Len(accepted) = Len(written) + Len(buffer)
       /\ \A i \in 1..Len(buffer) : accepted[Len(written) + i] = buffer[i]
  /\ writer # "loop" => Len(accepted) <= Len(written) + Len(buffer) + 1

\* What the abstract box sees, apart from whether it is open.
boxContents == <<accepted, written, writer>>

\* The buffer and the two histories are empty in the beginning.
LEMMA InitBuffer == Init => BufferInv
<1>1. Len(<< >>) = 0
  BY EmptySeq
<1> QED
  BY <1>1 DEF Init, BufferInv

\* A message that is accepted is the last of the buffer.
LEMMA AcceptKeepsBuffer ==
  ASSUME ConnectionTypeOK, BufferInv, NEW m \in Messages,
         buffer' = Append(buffer, m), accepted' = Append(accepted, m),
         UNCHANGED <<written, writer>>
  PROVE  BufferInv'
<1>1. /\ Len(buffer) \in Nat /\ Len(accepted) \in Nat /\ Len(written) \in Nat
      /\ Len(buffer') = Len(buffer) + 1 /\ Len(accepted') = Len(accepted) + 1
      /\ \A i \in 1..Len(buffer) : buffer'[i] = buffer[i]
      /\ buffer'[Len(buffer) + 1] = m
      /\ \A i \in 1..Len(accepted) : accepted'[i] = accepted[i]
      /\ accepted'[Len(accepted) + 1] = m
  BY AppendProperties, LenProperties DEF ConnectionTypeOK
<1>2. CASE writer = "loop"
  <2>1. ASSUME NEW i \in 1..Len(buffer') PROVE accepted'[Len(written) + i] = buffer'[i]
    <3>1. Len(accepted) = Len(written) + Len(buffer)
      BY <1>2 DEF BufferInv
    <3>2. CASE i = Len(buffer) + 1
      <4>1. Len(written) + i = Len(accepted) + 1
        BY <1>1, <3>1, <3>2
      <4> QED
        BY <1>1, <3>2, <4>1
    <3>3. CASE i \in 1..Len(buffer)
      <4>1. Len(written) + i \in 1..Len(accepted)
        BY <1>1, <3>1, <3>3
      <4>2. accepted[Len(written) + i] = buffer[i]
        BY <1>2, <3>3 DEF BufferInv
      <4> QED
        BY <1>1, <3>3, <4>1, <4>2
    <3>4. i \in 1..Len(buffer) \/ i = Len(buffer) + 1
      <4>1. i \in 1..(Len(buffer) + 1)
        BY <1>1
      <4> QED
        BY <1>1, <4>1
    <3> QED
      BY <3>2, <3>3, <3>4
  <2>2. Len(accepted') = Len(written') + Len(buffer')
    BY <1>1, <1>2 DEF BufferInv
  <2>3. written' = written /\ writer' = "loop"
    BY <1>2
  <2> QED
    BY <2>1, <2>2, <2>3 DEF BufferInv
<1>3. CASE writer # "loop"
  BY <1>1, <1>3 DEF BufferInv
<1> QED
  BY <1>2, <1>3

\* What the writer takes is the oldest message that is not yet written.
LEMMA TakenIsNext ==
  ASSUME ConnectionTypeOK, BufferInv, WriteNext
  PROVE  /\ Len(written) < Len(accepted)
         /\ Head(buffer) = accepted[Len(written) + 1]
         /\ Len(Tail(buffer)) = Len(buffer) - 1
         /\ \A i \in 1..Len(Tail(buffer)) : Tail(buffer)[i] = buffer[i + 1]
<1>1. buffer \in Seq(Messages) /\ buffer # << >>
  BY DEF ConnectionTypeOK, WriteNext
<1>2. /\ Head(buffer) = buffer[1] /\ Len(buffer) \in Nat \ {0}
      /\ Len(Tail(buffer)) = Len(buffer) - 1
      /\ \A i \in 1..Len(Tail(buffer)) : Tail(buffer)[i] = buffer[i + 1]
  BY <1>1, HeadTailProperties, LenProperties, EmptySeq
<1>3. Len(written) \in Nat
  BY LenProperties DEF ConnectionTypeOK
<1> QED
  BY <1>2, <1>3 DEF WriteNext, BufferInv

\* The writer moves the first message of the buffer to the end of what is written.
LEMMA WriteKeepsBuffer ==
  ASSUME ConnectionTypeOK, BufferInv, WriteNext
  PROVE  BufferInv'
<1>1. /\ buffer' = Tail(buffer) /\ UNCHANGED accepted /\ writer = "loop"
      /\ Len(written) \in Nat /\ Len(buffer) \in Nat
  BY LenProperties DEF ConnectionTypeOK, WriteNext, sendVars
<1>2. CASE written' = Append(written, Head(buffer)) /\ UNCHANGED writer
  <2>1. Len(written') = Len(written) + 1
    BY <1>2, AppendProperties, TakenIsNext, HeadTailProperties DEF ConnectionTypeOK, WriteNext
  <2>2. ASSUME NEW i \in 1..Len(buffer') PROVE accepted'[Len(written') + i] = buffer'[i]
    BY <1>1, <2>1, TakenIsNext DEF BufferInv
  <2>3. Len(accepted') = Len(written') + Len(buffer')
    <3>1. Len(accepted) = Len(written) + Len(buffer) /\ accepted' = accepted
      BY <1>1 DEF BufferInv
    <3>2. Len(buffer') = Len(buffer) - 1
      BY <1>1, TakenIsNext
    <3>3. Len(written) \in Nat /\ Len(buffer) \in Nat
      BY <1>1
    <3> QED
      BY <2>1, <3>1, <3>2, <3>3
  <2>4. writer' = "loop"
    BY <1>1, <1>2
  <2> QED
    BY <2>2, <2>3, <2>4 DEF BufferInv
<1>3. CASE WriterStops /\ UNCHANGED written
  BY <1>1, <1>3, TakenIsNext DEF BufferInv, WriterStops
<1> QED
  BY <1>2, <1>3 DEF WriteNext

\* Either a sender's message is accepted, or the writer moves, or the contents of
\* the box do not change.
LEMMA NextContents ==
  ASSUME Next
  PROVE  \/ /\ \E p \in Senders : Offer(p) /\ accepted' = Append(accepted, sending[p])
                                  /\ buffer' = Append(buffer, sending[p]) /\ ~sendClosed
                                  /\ Len(buffer) < Capacity /\ sending[p] # Nothing
            /\ UNCHANGED <<written, writer, doneClosed, sendClosed>>
         \/ WriteNext
         \/ /\ WriterLeaves
            /\ UNCHANGED <<buffer, accepted, written, doneClosed, sendClosed>>
         \/ WriterCloses /\ UNCHANGED <<buffer, accepted, written, doneClosed, sendClosed>>
         \/ (\E p \in Closers : CloseStep(p)) /\ UNCHANGED <<buffer, boxContents>>
         \/ UNCHANGED <<buffer, boxContents, doneClosed, sendClosed>>
<1> USE DEF boxContents, channelVars, clientVars, loopVars, sendVars
<1>1. ASSUME NEW p \in Senders, NEW m \in Messages, Call(p, m)
      PROVE  UNCHANGED <<buffer, boxContents, doneClosed, sendClosed>>
  BY <1>1 DEF Call
<1>2. ASSUME NEW p \in Senders, CheckDone(p)
      PROVE  UNCHANGED <<buffer, boxContents, doneClosed, sendClosed>>
  BY <1>2 DEF CheckDone
<1>3. ASSUME NEW p \in Senders, Offer(p)
      PROVE  \/ /\ accepted' = Append(accepted, sending[p])
                /\ buffer' = Append(buffer, sending[p]) /\ ~sendClosed
                /\ Len(buffer) < Capacity /\ sending[p] # Nothing
                /\ UNCHANGED <<written, writer, doneClosed, sendClosed>>
             \/ UNCHANGED <<buffer, boxContents, doneClosed, sendClosed>>
  BY <1>3 DEF Offer
<1>4. ASSUME LoopTop \/ ReadFails \/ ReadTimesOut \/ HandlerReturns \/ ManagerCloses
               \/ \E how \in {"gone", "silent"} : PeerLeaves(how)
      PROVE  UNCHANGED <<buffer, boxContents, doneClosed, sendClosed>>
  BY <1>4 DEF LoopTop, ReadFails, ReadTimesOut, HandlerReturns, ManagerCloses, PeerLeaves
<1>5. ASSUME NEW p \in Closers, CloseStep(p)
      PROVE  UNCHANGED <<buffer, boxContents>>
  BY <1>5 DEF CloseStep, SeeDone, CloseDone, CloseSend, CloseNet
<1>6. ASSUME WriterStep
      PROVE  \/ WriteNext
             \/ WriterLeaves /\ UNCHANGED <<buffer, accepted, written, doneClosed, sendClosed>>
             \/ WriterCloses /\ UNCHANGED <<buffer, accepted, written, doneClosed, sendClosed>>
  BY <1>6 DEF WriterStep, WriterLeaves, WriterCloses
<1>7. ASSUME NEW m, (m \in RunMsgs /\ RunSends(m)) \/ (m \in Answers /\ ReadAndAnswer(m))
      PROVE  \E p \in Senders, n \in Messages : Call(p, n)
  BY <1>7 DEF RunSends, ReadAndAnswer, Senders, Messages
<1> QED
  BY <1>1, <1>2, <1>3, <1>4, <1>5, <1>6, <1>7 DEF Next, ReaderStep, Senders, Closers

\* A message is added to the buffer and to what is accepted in one step, and no
\* other step but the writer's end changes what they say.
LEMMA NextBuffer ==
  ASSUME ConnectionTypeOK, BufferInv, [Next]_vars
  PROVE  BufferInv'
<1>1. ASSUME NEW p \in Senders, accepted' = Append(accepted, sending[p]), sending[p] # Nothing,
             buffer' = Append(buffer, sending[p]), UNCHANGED <<written, writer>>
      PROVE  BufferInv'
  BY <1>1, AcceptKeepsBuffer DEF ConnectionTypeOK
<1>2. CASE WriteNext
  BY <1>2, WriteKeepsBuffer
<1>3. CASE \/ WriterLeaves /\ UNCHANGED <<buffer, accepted, written>>
           \/ WriterCloses /\ UNCHANGED <<buffer, accepted, written>>
  <2>1. Len(buffer) \in Nat /\ Len(accepted) \in Nat /\ Len(written) \in Nat
    BY LenProperties DEF ConnectionTypeOK
  <2> QED
    BY <1>3, <2>1 DEF BufferInv, WriterLeaves, WriterCloses, WriterStops
<1>4. CASE UNCHANGED <<buffer, boxContents>>
  BY <1>4 DEF BufferInv, boxContents
<1>5. CASE UNCHANGED vars
  BY <1>5 DEF BufferInv, vars
<1> QED
  BY <1>1, <1>2, <1>3, <1>4, <1>5, NextContents

\* Each step of the connection is one of the Mailbox, or changes nothing that the
\* Mailbox shows.
LEMMA StepIsBoxStep ==
  ASSUME ConnectionTypeOK, RaceInv, BufferInv, [Next]_vars
  PROVE  [Box!Next]_(Box!mailboxVars)
<1> USE DEF Box!mailboxVars
<1> /\ Len(buffer) \in Nat /\ Len(accepted) \in Nat /\ Len(written) \in Nat /\ Capacity \in Nat
  BY LenProperties, MessageAssumption DEF ConnectionTypeOK
<1>1. ASSUME NEW p \in Senders, accepted' = Append(accepted, sending[p]), sending[p] # Nothing,
             ~sendClosed, Len(buffer) < Capacity,
             UNCHANGED <<written, writer, doneClosed, sendClosed>>
      PROVE  Box!Next
  <2>1. sending[p] \in Messages
    BY <1>1 DEF ConnectionTypeOK
  <2>2. Len(accepted) - Len(written) < Capacity + (IF writer # "loop" THEN 1 ELSE 0)
    BY <1>1 DEF BufferInv
  <2>3. Box!Put(sending[p])
    BY <1>1, <2>2 DEF Box!Put
  <2> QED
    BY <2>1, <2>3 DEF Box!Next
<1>2. CASE WriteNext
  <2>1. UNCHANGED <<accepted, doneClosed, sendClosed>> /\ writer = "loop"
    BY <1>2 DEF WriteNext, sendVars
  <2>2. CASE written' = Append(written, Head(buffer)) /\ UNCHANGED writer
    <3>1. Box!Give
      BY <1>2, <2>1, <2>2, TakenIsNext DEF Box!Give
    <3> QED
      BY <3>1 DEF Box!Next
  <2>3. CASE WriterStops /\ UNCHANGED written
    <3>1. Box!End
      BY <2>1, <2>3 DEF Box!End, WriterStops
    <3> QED
      BY <3>1 DEF Box!Next
  <2> QED
    BY <1>2, <2>2, <2>3 DEF WriteNext
<1>3. CASE WriterLeaves /\ UNCHANGED <<accepted, written, doneClosed, sendClosed>>
  <2>1. Box!End
    BY <1>3 DEF Box!End, WriterLeaves, WriterStops
  <2> QED
    BY <2>1 DEF Box!Next
<1>4. CASE WriterCloses /\ UNCHANGED <<accepted, written, doneClosed, sendClosed>>
  BY <1>4 DEF WriterCloses
<1>5. ASSUME NEW p \in Closers, CloseStep(p), UNCHANGED boxContents
      PROVE  [Box!Next]_(Box!mailboxVars)
  <2>1. CASE CloseDone(p) /\ ~doneClosed
    <3>1. Box!StartClosing
      BY <1>5, <2>1 DEF Box!StartClosing, CloseDone, RaceInv, boxContents
    <3> QED
      BY <3>1 DEF Box!Next
  <2>2. CASE CloseSend(p) /\ ~sendClosed
    <3>1. doneClosed
      BY <2>2 DEF RaceInv, ConnectionTypeOK, CloseSend
    <3>2. Box!Shut
      BY <1>5, <2>2, <3>1 DEF Box!Shut, CloseSend, boxContents
    <3> QED
      BY <3>2 DEF Box!Next
  <2>3. CASE UNCHANGED <<doneClosed, sendClosed>>
    BY <1>5, <2>3 DEF boxContents
  <2> QED
    BY <1>5, <2>1, <2>2, <2>3 DEF ConnectionTypeOK, CloseStep, SeeDone, CloseDone, CloseSend, CloseNet,
       channelVars
<1>6. CASE UNCHANGED <<boxContents, doneClosed, sendClosed>>
  BY <1>6 DEF boxContents
<1>7. CASE UNCHANGED vars
  BY <1>7 DEF vars
<1> QED
  BY <1>1, <1>2, <1>3, <1>4, <1>5, <1>6, <1>7, NextContents

\* For those who send through it the connection is a Mailbox, whatever its two senders,
\* its two closers, its reader and its writer do: a message is accepted only while
\* the send channel is open and holds less than its capacity; the client is given
\* what was accepted, in that order and without a gap, until the writer stops; and the box
\* closes once.
THEOREM IsMailbox == Spec => ImplementsMailbox
<1>1. Init => Box!Init
  BY DEF Init, Box!Init
<1>2. Init => ReaderClosesLast /\ RaceInv /\ BufferInv
  BY InitRace, InitBuffer DEF Init, ReaderClosesLast, Closers
<1>3. ConnectionTypeOK /\ ReaderClosesLast /\ RaceInv /\ BufferInv /\ [Next]_vars
        => (ReaderClosesLast /\ RaceInv /\ BufferInv)'
  BY NextReader, NextRace, NextBuffer
<1>4. ConnectionTypeOK /\ RaceInv /\ BufferInv /\ [Next]_vars
        => [Box!Next]_(Box!mailboxVars)
  BY StepIsBoxStep
<1> QED
  BY <1>1, <1>2, <1>3, <1>4, TypeCorrect, PTL DEF Spec, ImplementsMailbox, Box!Spec
=============================================================================
