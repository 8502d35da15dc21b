------------------------------- MODULE Frames -------------------------------
(***************************************************************************)
(* The wire protocol: crates/terminald-protocol/src/message.rs and         *)
(* resize.rs, and frontend/src/terminal/protocol.ts.                       *)
(*                                                                         *)
(* A frame is a sequence: a prefix, then its payload.  The payload is the  *)
(* bytes themselves; or, for a size, one element that stands for the JSON; *)
(* or, for an exit code, its decimal digits.                               *)
(***************************************************************************)
EXTENDS Integers, Sequences, SequencesExt

CONSTANTS U16Max, \* the largest u16
          I32Max  \* the largest i32; the smallest is its negative less one

ASSUME FrameAssumption == {U16Max, I32Max} \subseteq Nat

Prefix == [resize |-> 0, input |-> 1, output |-> 2, error |-> 3, exited |-> 4]
Minus  == 10 \* the digit that is the sign

Input(data)   == [kind |-> "input", value |-> data]
Size(c, r)    == [kind |-> "resize", value |-> <<[cols |-> c, rows |-> r]>>]
OutputOf(data) == [kind |-> "output", value |-> data]
ErrorOf(text) == [kind |-> "error", value |-> text]
ExitedWith(n) == [kind |-> "exited", value |-> n]
Undecodable   == [kind |-> "undecodable", value |-> <<>>]

-----------------------------------------------------------------------------
\* to_string and parse::<i32>; and Number, of which this is the part that the
\* texts written by to_string reach, and which has no width to overflow.
Digits[n \in Nat] == IF n < 10 THEN <<n>> ELSE Append(Digits[n \div 10], n % 10)

ToText(n) == IF n < 0 THEN <<Minus>> \o Digits[-n] ELSE Digits[n]

Magnitude(ds) ==
  LET upTo[n \in 0 .. Len(ds)] == IF n = 0 THEN 0 ELSE 10 * upTo[n - 1] + ds[n]
  IN  upTo[Len(ds)]

Number(text) ==
  IF text # <<>> /\ text[1] = Minus THEN -Magnitude(Tail(text)) ELSE Magnitude(text)

-----------------------------------------------------------------------------
\* ServerMessage::encode
ServerEncode(m) ==
  <<Prefix[m.kind]>> \o (IF m.kind = "exited" THEN ToText(m.value) ELSE m.value)

\* encodeInput and encodeResize, and ClientMessage::encode, whose sizes are u16.
ClientEncode(m) == <<Prefix[m.kind]>> \o m.value

\* ClientMessage::decode, with Resize::from_payload.
IsSize(payload) == /\ Len(payload) = 1
                   /\ {payload[1].cols, payload[1].rows} \subseteq 0 .. U16Max

ClientDecode(frame) ==
  CASE frame = <<>>                       -> Undecodable
    [] frame # <<>> /\ frame[1] = Prefix.input  -> Input(Tail(frame))
    [] frame # <<>> /\ frame[1] = Prefix.resize ->
         IF IsSize(Tail(frame)) THEN [kind |-> "resize", value |-> Tail(frame)] ELSE Undecodable
    [] OTHER                              -> Undecodable

\* ServerMessage::decode and decodeServerFrame, for the frames a server writes;
\* only the Rust one insists on the width of an exit code.
ServerDecode(frame, program) ==
  LET payload == Tail(frame)
      kind    == CHOOSE k \in DOMAIN Prefix : Prefix[k] = frame[1]
      code    == Number(payload)
  IN  IF kind # "exited" THEN [kind |-> kind, value |-> payload]
      ELSE IF program = "cli" /\ code \notin -(I32Max + 1) .. I32Max THEN Undecodable
      ELSE ExitedWith(code)
=============================================================================
