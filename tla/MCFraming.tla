----------------------------- MODULE MCFraming ------------------------------
(* Small instances of Framing for TLC.                                     *)
EXTENDS Framing

CONSTANTS object

MCNames == TypeNames \cup StatusNames \cup {"text", "Text", "typing", "unknown", ""}
MCLower == [n \in MCNames |-> IF n = "Text" THEN "text" ELSE n]
MCJsonText == [d \in Texts \cup Objects |-> IF d = "quoted" THEN "requoted" ELSE "quoted"]

Plain == [Empty EXCEPT !.type = "message", !.status = Blank, !.recipient = "bob"]
Ping == [Plain EXCEPT !.type = "ping", !.recipient = Blank]
Group == [Plain EXCEPT !.recipient = Blank]
Failure == [Plain EXCEPT !.type = "Text", !.code = 5, !.metadata = NoEntries,
                         !.error = [message |-> Blank, details |-> object]]
Status == [Plain EXCEPT !.type = "status", !.recipient = Blank, !.error.details = "reason"]

F(proto, body, msg) == [proto |-> proto, body |-> body, msg |-> msg]

\* Among the bytes of the bodies there are flags and small sizes; a body of four
\* is longer than the limit.
FewFrames == {F("json", <<5>>, Ping), F("protobuf", <<2, 1>>, Plain), F("json", <<9, 1, 1>>, Failure),
           F("protobuf", <<1>>, Group), F("protobuf", <<1, 9>>, Status),
           F("protobuf", << >>, Plain), F("json", <<1, 1, 5, 5>>, Plain)}
Noise == F("none", <<7>>, Plain)
Contents == UNION {[1 .. n -> {Open, Close, 120}] : n \in 0 .. 3}
Texts2 == {F("json", content, Plain) : content \in Contents}

C(kind, eager, frames) == [kind |-> kind, eager |-> eager, frames |-> frames]
MCClients ==
  {C("tcp", TRUE, frames) : frames \in [1 .. 2 -> FewFrames]}
  \cup {C("tcp", FALSE, frames) : frames \in [1 .. 3 -> FewFrames \cup {Noise}]}
  \cup {C(kind, FALSE, frames) : kind \in {"ws", "old_ws"}, frames \in [1 .. 3 -> FewFrames]}
  \cup {C("old_tcp", FALSE, <<f, F("none", <<Space>>, Plain), g>>) : f \in Texts2, g \in Texts2}
=============================================================================
