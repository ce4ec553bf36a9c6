----------------------------- MODULE Connection -----------------------------
(***************************************************************************)
(* One enhanced connection, WebSocket or TCP, and the goroutines around    *)
(* it: the reader, the writer, the handler that waits for the done         *)
(* channel, the goroutine of Run that sends messages through it, and the   *)
(* goroutine that has taken it out of the manager's map and closes it.     *)
(*                                                                         *)
(* Neither SendMessage nor Close holds a lock: what they read in their     *)
(* first select may have changed by the next statement.  An unrecovered    *)
(* panic of one goroutine ends the process.                                *)
(***************************************************************************)
EXTENDS Naturals, Sequences, FiniteSets

CONSTANTS
  Kinds,     \* the kinds of connection: "ws", "tcp"
  RunMsgs,   \* messages the goroutine of Run sends through the connection
  Answers,   \* pongs and errors the reader sends back
  Nothing,   \* a sender is not sending
  Capacity   \* capacity of the send channel (256 in the code)

ASSUME KindAssumption == Kinds \subseteq {"ws", "tcp"}
ASSUME MessageAssumption ==
  /\ RunMsgs \cap Answers = {}
  /\ Nothing \notin RunMsgs \cup Answers
  /\ Capacity \in Nat \ {0}

VARIABLES
  kind,        \* which of the two types the connection has
  doneClosed,  \* close(done) was executed
  sendClosed,  \* close(send) was executed
  netClosed,   \* the socket was closed on this side
  peer,        \* the client: "there", "gone" (it closed), "silent" (unreachable)
  buffer,      \* the send channel
  accepted,    \* the messages SendMessage returned nil for
  written,     \* the messages written to the client
  reader,      \* the goroutine of StartReading
  writer,      \* the goroutine of StartWriting
  handler,     \* handleEnhancedAuthenticatedConnection
  closer,      \* how far each of the two callers of Close is
  sending,     \* the message each of the two callers of SendMessage has in hand
  checked,     \* whether its call has passed the first select
  outcome,     \* what SendMessage returned for a message
  calledOpen,  \* history: the messages whose SendMessage began before close(done)
  panicked     \* a goroutine panicked and the process is gone

channelVars == <<doneClosed, sendClosed, netClosed, buffer>>
clientVars == <<kind, peer, written>>
loopVars == <<reader, writer, handler>>
sendVars == <<sending, checked, outcome, accepted, calledOpen>>
vars == <<kind, doneClosed, sendClosed, netClosed, peer, buffer, accepted, written,
          reader, writer, handler, closer, sending, checked, outcome, calledOpen,
          panicked>>

Messages == RunMsgs \cup Answers

\* SendMessage is called by the goroutine of Run and by the reader; Close by the
\* reader, and by the goroutine that took the connection out of the map: the map
\* gives it to one only.
Senders == {"run", "reader"}
Closers == {"reader", "manager"}

Init ==
  /\ kind \in Kinds
  /\ doneClosed = FALSE /\ sendClosed = FALSE /\ netClosed = FALSE
  /\ peer = "there"
  /\ buffer = << >> /\ accepted = << >> /\ written = << >>
  /\ reader = (IF kind = "tcp" THEN "top" ELSE "read")
  /\ writer = "loop" /\ handler = "wait"
  /\ closer = [p \in Closers |-> "out"]
  /\ sending = [p \in Senders |-> Nothing]
  /\ checked = [p \in Senders |-> FALSE]
  /\ outcome = [m \in Messages |-> "none"]
  /\ calledOpen = {}
  /\ panicked = FALSE

-----------------------------------------------------------------------------
(* SendMessage.                                                            *)

Call(p, m) ==
  /\ sending[p] = Nothing
  /\ outcome[m] = "none"
  /\ sending' = [sending EXCEPT ![p] = m]
  /\ calledOpen' = IF doneClosed THEN calledOpen ELSE calledOpen \cup {m}
  /\ UNCHANGED <<channelVars, clientVars, writer, handler, closer, checked, outcome, accepted, panicked>>

\* Slip: the next call relies on the check of this one.
ReturnChecked(p, result) ==
  /\ outcome' = [outcome EXCEPT ![sending[p]] = result]
  /\ sending' = [sending EXCEPT ![p] = Nothing]
  /\ UNCHANGED <<checked, calledOpen>>

Return(p, result) ==
  /\ outcome' = [outcome EXCEPT ![sending[p]] = result]
  /\ sending' = [sending EXCEPT ![p] = Nothing]
  /\ checked' = [checked EXCEPT ![p] = FALSE]
  /\ UNCHANGED calledOpen

\* The first select: is the connection closed?
CheckDone(p) ==
  /\ sending[p] # Nothing /\ ~checked[p]
  /\ \/ /\ doneClosed
        /\ Return(p, "closed")
     \/ /\ ~doneClosed
        /\ checked' = [checked EXCEPT ![p] = TRUE]
        /\ UNCHANGED <<sending, outcome, calledOpen>>
  /\ UNCHANGED <<channelVars, clientVars, loopVars, closer, accepted, panicked>>

\* The second select takes any case that is ready, and default only if none is.
\* A send on the closed channel is ready: it panics.
Offer(p) ==
  /\ sending[p] # Nothing /\ checked[p]
  /\ \/ /\ ~sendClosed /\ Len(buffer) < Capacity
        /\ buffer' = Append(buffer, sending[p])
        /\ accepted' = Append(accepted, sending[p])
        /\ Return(p, "ok")
        /\ UNCHANGED panicked
     \/ /\ sendClosed
        /\ panicked' = TRUE
        /\ UNCHANGED <<buffer, sendVars>>
     \/ /\ doneClosed
        /\ Return(p, "closed")
        /\ UNCHANGED <<buffer, accepted, panicked>>
     \/ /\ ~doneClosed /\ Len(buffer) >= Capacity
        /\ Return(p, "full")
        /\ UNCHANGED <<buffer, accepted, panicked>>
  /\ UNCHANGED <<doneClosed, sendClosed, netClosed, clientVars, loopVars, closer>>

RunSends(m) == Call("run", m) /\ UNCHANGED reader

-----------------------------------------------------------------------------
(* Close.                                                                  *)

Proceed(p, step) == closer' = [closer EXCEPT ![p] = step]

\* Slip: whoever comes second waits.
SeeDoneOrWait(p) ==
  /\ closer[p] = "check" /\ ~doneClosed
  /\ Proceed(p, "done")
  /\ UNCHANGED <<channelVars, clientVars, loopVars, sendVars, panicked>>

SeeDone(p) ==
  /\ closer[p] = "check"
  /\ Proceed(p, IF doneClosed THEN "over" ELSE "done")
  /\ UNCHANGED <<channelVars, clientVars, loopVars, sendVars, panicked>>

\* close(done) panics if the other caller was faster.
CloseDone(p) ==
  /\ closer[p] = "done"
  /\ doneClosed' = TRUE
  /\ panicked' = doneClosed
  /\ Proceed(p, "send")
  /\ UNCHANGED <<sendClosed, netClosed, buffer, clientVars, loopVars, sendVars>>

CloseSend(p) ==
  /\ closer[p] = "send"
  /\ sendClosed' = TRUE
  /\ Proceed(p, "net")
  /\ UNCHANGED <<doneClosed, netClosed, buffer, clientVars, loopVars, sendVars, panicked>>

CloseNet(p) ==
  /\ closer[p] = "net"
  /\ netClosed' = TRUE
  /\ Proceed(p, "over")
  /\ UNCHANGED <<doneClosed, sendClosed, buffer, clientVars, loopVars, sendVars, panicked>>

CloseStep(p) == SeeDone(p) \/ CloseDone(p) \/ CloseSend(p) \/ CloseNet(p)

\* UnregisterConnection or the manager's Close has taken the connection out of
\* the map: the handler's own deferred call at the latest, maybe another one.
ManagerCloses ==
  /\ closer["manager"] = "out"
  /\ Proceed("manager", "check")
  /\ UNCHANGED <<channelVars, clientVars, loopVars, sendVars, panicked>>

HandlerReturns ==
  /\ handler = "wait"
  /\ doneClosed
  /\ handler' = "gone"
  /\ UNCHANGED <<channelVars, clientVars, reader, writer, closer, sendVars, panicked>>

-----------------------------------------------------------------------------
(* StartReading.                                                           *)

\* The loop of a TCP connection looks at done before every read.
LoopTop ==
  /\ reader = "top"
  /\ sending["reader"] = Nothing
  /\ \/ /\ doneClosed
        /\ reader' = "ended"
        /\ Proceed("reader", "check")
     \/ /\ ~doneClosed
        /\ reader' = "read"
        /\ UNCHANGED closer
  /\ UNCHANGED <<channelVars, clientVars, writer, handler, sendVars, panicked>>

AtRead == reader = "read" /\ sending["reader"] = Nothing

\* A message that needs an answer, a ping or one without a recipient, maybe one
\* that had arrived before the socket was closed.
ReadAndAnswer(m) ==
  /\ AtRead
  /\ Call("reader", m)
  /\ reader' = IF kind = "tcp" THEN "top" ELSE "read"

\* The read fails, and the deferred Close begins: surely so when either side has
\* closed the socket, and otherwise when the deadline of a WebSocket connection
\* passes, or that of a TCP connection within a frame.
ReadFails ==
  /\ AtRead
  /\ reader' = "ended"
  /\ Proceed("reader", "check")
  /\ UNCHANGED <<channelVars, clientVars, writer, handler, sendVars, panicked>>

\* A TCP reader goes on after a timeout between two frames.
ReadTimesOut ==
  /\ AtRead
  /\ kind = "tcp" /\ ~netClosed /\ peer # "gone"
  /\ reader' = "top"
  /\ UNCHANGED <<channelVars, clientVars, writer, handler, closer, sendVars, panicked>>

-----------------------------------------------------------------------------
(* StartWriting.                                                           *)

\* A write fails on a closed socket or an absent client, and may fail at any
\* other time: the client may not read within the write deadline.
WriteWorks == ~netClosed /\ peer = "there"

WriterStops == writer' = "stopping"

\* Slip: the newest message is written first.
WriteNewest ==
  /\ writer = "loop"
  /\ buffer # << >>
  /\ WriteWorks
  /\ buffer' = SubSeq(buffer, 1, Len(buffer) - 1)
  /\ written' = Append(written, buffer[Len(buffer)])
  /\ UNCHANGED <<doneClosed, sendClosed, netClosed, kind, peer, loopVars, closer,
                 sendVars, panicked>>

\* The select takes the next message, and it is written or lost.
WriteNext ==
  /\ writer = "loop"
  /\ buffer # << >>
  /\ buffer' = Tail(buffer)
  /\ \/ /\ WriteWorks
        /\ written' = Append(written, Head(buffer))
        /\ UNCHANGED writer
     \/ /\ WriterStops
        /\ UNCHANGED written
  /\ UNCHANGED <<doneClosed, sendClosed, netClosed, kind, peer, reader, handler,
                 closer, sendVars, panicked>>

\* The select sees that done, or the emptied send channel, is closed; or the
\* ticker fires, and the ping fails.  A ping that is written changes nothing.
WriterLeaves ==
  /\ writer = "loop"
  /\ WriterStops
  /\ UNCHANGED <<channelVars, clientVars, reader, handler, closer, sendVars, panicked>>

MustLeave == doneClosed \/ sendClosed \/ ~WriteWorks

\* Slip: the socket is left open.
WriterJustEnds ==
  /\ writer = "stopping"
  /\ writer' = "ended"
  /\ UNCHANGED <<channelVars, clientVars, reader, handler, closer, sendVars, panicked>>

\* Its deferred call closes the socket, and leaves done as it is.
WriterCloses ==
  /\ writer = "stopping"
  /\ writer' = "ended"
  /\ netClosed' = TRUE
  /\ UNCHANGED <<doneClosed, sendClosed, buffer, clientVars, reader, handler,
                 closer, sendVars, panicked>>

-----------------------------------------------------------------------------
\* The client closes its side, or becomes unreachable without a word.
PeerLeaves(how) ==
  /\ peer = "there"
  /\ peer' = how
  /\ UNCHANGED <<kind, written, channelVars, loopVars, closer, sendVars, panicked>>

ReaderStep ==
  \/ LoopTop \/ ReadFails \/ ReadTimesOut
  \/ CheckDone("reader") \/ Offer("reader") \/ CloseStep("reader")
WriterStep == WriteNext \/ WriterLeaves \/ WriterCloses

Next ==
  /\ ~panicked
  /\ \/ \E m \in RunMsgs : RunSends(m)
     \/ CheckDone("run") \/ Offer("run")
     \/ \E m \in Answers : ReadAndAnswer(m)
     \/ ReaderStep
     \/ WriterStep
     \/ HandlerReturns
     \/ ManagerCloses
     \/ CloseStep("manager")
     \/ \E how \in {"gone", "silent"} : PeerLeaves(how)

\* Goroutines run on: a read of a closed socket fails, a TCP read times out, the
\* ticker fires every PingPeriod, and a handler that has returned takes the
\* connection out of the map if nobody has.  Nothing obliges anybody to send or
\* to close, a read deadline to pass, or a write to a client that is there
\* to fail.
Running(A) == ~panicked /\ A

Fairness ==
  /\ WF_vars(Running(LoopTop))
  /\ WF_vars(Running((netClosed \/ peer = "gone") /\ ReadFails))
  /\ WF_vars(Running(ReadTimesOut))
  /\ WF_vars(Running(WriteNext \/ (MustLeave /\ WriterLeaves) \/ WriterCloses))
  /\ WF_vars(Running(HandlerReturns))
  /\ WF_vars(Running(handler = "gone" /\ ManagerCloses))
  /\ \A p \in Closers : WF_vars(Running(CloseStep(p)))
  /\ \A p \in Senders : WF_vars(Running(CheckDone(p) \/ Offer(p)))

Spec == Init /\ [][Next]_vars
FairSpec == Spec /\ Fairness

-----------------------------------------------------------------------------
(* Properties.                                                             *)

\* Every variable has its type; the buffer never outgrows its capacity.
ConnectionTypeOK ==
  /\ kind \in Kinds
  /\ doneClosed \in BOOLEAN /\ sendClosed \in BOOLEAN /\ netClosed \in BOOLEAN
  /\ peer \in {"there", "gone", "silent"}
  /\ buffer \in Seq(Messages) /\ Len(buffer) <= Capacity
  /\ accepted \in Seq(Messages) /\ written \in Seq(Messages)
  /\ reader \in {"top", "read", "ended"}
  /\ writer \in {"loop", "stopping", "ended"}
  /\ handler \in {"wait", "gone"}
  /\ closer \in [Closers -> {"out", "check", "done", "send", "net", "over"}]
  /\ sending \in [Senders -> Messages \cup {Nothing}]
  /\ checked \in [Senders -> BOOLEAN]
  /\ outcome \in [Messages -> {"none", "ok", "closed", "full"}]
  /\ calledOpen \subseteq Messages
  /\ panicked \in BOOLEAN

\* Only a race takes the process down: the two callers of Close overtake each
\* other between its first select and close(done), or a send that began while
\* the connection was open meets close(send) between its two selects.
PanicNeedsRace ==
  panicked =>
    \/ \A p \in Closers : closer[p] \in {"send", "net", "over"}
    \/ \E p \in Senders : checked[p] /\ sending[p] \in calledOpen

\* A client that has gone or become unreachable, and a writer that has given up,
\* are noticed: the done channel gets closed, and with it everything else ends.
DeadEndNoticed ==
  peer # "there" \/ writer # "loop" ~> doneClosed \/ panicked

\* Once done is closed, the socket is closed and every goroutine of the
\* connection ends: none is left waiting for another.
EverybodyEnds ==
  doneClosed ~>
    \/ panicked
    \/ /\ netClosed
       /\ reader = "ended" /\ writer = "ended" /\ handler = "gone"
       /\ \A p \in Closers : closer[p] = "over"
       /\ sending["reader"] = Nothing

\* Towards the manager the connection is a bounded first-in first-out box that
\* closes once.
Box == INSTANCE Mailbox WITH
  state <- IF sendClosed THEN "closed" ELSE IF doneClosed THEN "closing" ELSE "open",
  box <- accepted,
  given <- written,
  ended <- writer # "loop"

ImplementsMailbox == Box!Spec

\* The comment in SendMessage says that the send is tried "safely": it does not
\* take the process down.
SendIsSafe == [][\A p \in Senders : Offer(p) => ~panicked']_vars
=============================================================================
