------------------------------ MODULE Mailbox ------------------------------
(***************************************************************************)
(* What a connection promises to those who send messages through it: a     *)
(* bounded first-in first-out box that closes once.  What was put in comes *)
(* out at the client in the same order, without gaps, until the box ends   *)
(* and drops the rest.                                                     *)
(***************************************************************************)
EXTENDS Naturals, Sequences

CONSTANTS Messages, Capacity

VARIABLES
  state,  \* "open", "closing": on the way to "closed", which takes nothing
  box,    \* every message that was put in
  given,  \* the messages the client has been given
  ended   \* nothing will be given to the client any more

mailboxVars == <<state, box, given, ended>>

Init == state = "open" /\ box = << >> /\ given = << >> /\ ended = FALSE

\* When the box has ended, one message may have been lost on the way out.
Put(m) ==
  /\ state # "closed"
  /\ Len(box) - Len(given) < Capacity + (IF ended THEN 1 ELSE 0)
  /\ box' = Append(box, m)
  /\ UNCHANGED <<state, given, ended>>

Give ==
  /\ ~ended
  /\ Len(given) < Len(box)
  /\ given' = Append(given, box[Len(given) + 1])
  /\ UNCHANGED <<state, box, ended>>

StartClosing == state = "open" /\ state' = "closing" /\ UNCHANGED <<box, given, ended>>

Shut == state = "closing" /\ state' = "closed" /\ UNCHANGED <<box, given, ended>>

\* The client's side fails, or the writer stops.
End == ~ended /\ ended' = TRUE /\ UNCHANGED <<state, box, given>>

Next ==
  \/ \E m \in Messages : Put(m)
  \/ Give \/ StartClosing \/ Shut \/ End

Spec == Init /\ [][Next]_mailboxVars
=============================================================================
