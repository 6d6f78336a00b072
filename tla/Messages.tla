------------------------------ MODULE Messages ------------------------------
(***************************************************************************)
(* The frames of p2p/messages.ts.  A frame is a header, which has the      *)
(* command, the length of the payload and its checksum, and the payload.   *)
(* Here a header is one symbol, and so is each part of a payload: a chunk  *)
(* of data may end within a frame, at any of them.                         *)
(***************************************************************************)
EXTENDS Integers, Sequences

(* A message: what it is, the request it answers, if any, and whether its  *)
(* payload arrives as it was sent.                                         *)
Message == [command : {"version", "verack", "pong", "headers", "addr"}, to : Nat, sound : BOOLEAN]

Length(m) == IF m.command = "verack" THEN 0 ELSE 1

IsHeader(symbol) == symbol.part = "header"

buildMessage(m) ==
    <<[part |-> "header", message |-> m]>> \o [i \in 1..Length(m) |-> [part |-> "payload", message |-> m]]

(* The checksum of a header fits what follows it. *)
IsSound(frame) ==
    LET m == Head(frame).message
    IN  m.sound /\ frame = buildMessage(m)

(* Symbols are skipped up to a header; a frame that is not complete stays  *)
(* for the next time, and one with a bad checksum is an error.             *)
parseMessages(buffer) ==
    LET parse[i \in 1..Len(buffer) + 1] ==
          IF i > Len(buffer)
          THEN [messages |-> <<>>, errors |-> <<>>, remaining |-> <<>>]
          ELSE IF ~ IsHeader(buffer[i]) THEN parse[i + 1]
          ELSE LET m == buffer[i].message
                   end == i + Length(m)
               IN  CASE end > Len(buffer) ->
                          [messages |-> <<>>, errors |-> <<>>,
                           remaining |-> SubSeq(buffer, i, Len(buffer))]
                     [] end <= Len(buffer) /\ IsSound(SubSeq(buffer, i, end)) ->
                          [parse[end + 1] EXCEPT !.messages = <<m>> \o @]
                     [] OTHER -> [parse[end + 1] EXCEPT !.errors = <<m>> \o @]
    IN  parse[1]

=============================================================================
