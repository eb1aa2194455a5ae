---------------------------- MODULE Communicator ----------------------------
(***************************************************************************)
(* One direction of a connection between two communicators: messages are   *)
(* framed by protocol::encode_message(), written by send_msg(), cut by TCP *)
(* and recv() wherever they please, gathered in a buffer and taken out of  *)
(* it by protocol::try_decode_message().                                   *)
(*                                                                         *)
(* The three marks of the protocol, which in the code share the stem       *)
(* "tmsocket_", are two characters here, a shared "t" and one of their own,*)
(* so that a message and a chunk may end, begin and break in the middle of *)
(* a mark.                                                                 *)
(***************************************************************************)
EXTENDS Naturals, Sequences, FiniteSets

CONSTANTS
  Messages,   (* the messages that may be sent                               *)
  BufSize,    (* buf_size(): how much one recv() takes                       *)
  MaxSent     (* bound: messages sent                                        *)

ASSUME SizesAssumption == BufSize \in Nat \ {0} /\ MaxSent \in Nat

VARIABLES
  sent,       (* the messages given to send_to_one_client()                  *)
  finished,   (* m_is_finished of the sender                                 *)
  wire,       (* external: characters written and not yet received           *)
  buffer,     (* m_buffer, or m_buffers[fd], of the receiver                 *)
  received    (* the messages on_receive was called with                     *)

vars == <<sent, finished, wire, buffer, received>>

-----------------------------------------------------------------------------
prefix  == <<"t", "p">>
postfix == <<"t", "q">>
endmsg  == <<"t", "e">>

Chars == {"t", "p", "q", "e", "x"}   \* "x" is any character of no mark

ASSUME MessagesAssumption == Messages \subseteq Seq(Chars)

From(s, i) == SubSeq(s, i, Len(s))

(* mark stands at position i of s.                                         *)
At(s, i, mark) ==
  i + Len(mark) - 1 <= Len(s) /\ SubSeq(s, i, i + Len(mark) - 1) = mark

(* encode_message(): every postfix inside the message is written twice.    *)
Encode(msg) ==
  LET Doubled[i \in 1 .. Len(msg) + 2] ==
        IF i > Len(msg) THEN <<>>
        ELSE IF At(msg, i, postfix) THEN postfix \o postfix \o Doubled[i + 2]
        ELSE <<msg[i]>> \o Doubled[i + 1]
  IN  prefix \o Doubled[1] \o postfix \o endmsg

(* The loop of try_decode_message() from position i on: a doubled postfix  *)
(* stands for one, one before an endmsg ends the message, any other is     *)
(* passed over.  next is where the rest begins, or 0 if there is no end.   *)
Scan(buf, start) ==
  LET S[i \in 1 .. Len(buf) + 4] ==
        IF i > Len(buf) THEN [msg |-> <<>>, next |-> 0]
        ELSE IF At(buf, i, postfix) /\ At(buf, i + 2, endmsg)
        THEN [msg |-> <<>>, next |-> i + 4]
        ELSE LET step == IF ~At(buf, i, postfix) THEN 1
                         ELSE IF At(buf, i + 2, postfix) THEN 4 ELSE 2
                 tail == S[i + step]
             IN  [tail EXCEPT !.msg = SubSeq(buf, i, i + (IF step = 1 THEN 0 ELSE 1)) \o @]
  IN  S[start]

(* Where the first prefix is; 0 is npos.                                   *)
FindPrefix(buf) ==
  LET found == {i \in 1 .. Len(buf) : At(buf, i, prefix)}
  IN  IF found = {} THEN 0 ELSE CHOOSE i \in found : \A j \in found : i <= j

(* Mutant: when no end is found, the doubled postfixes that were erased on *)
(* the way stay erased.                                                    *)
DecodeInPlace(buf) ==
  LET pos  == FindPrefix(buf)
      scan == Scan(buf, pos + 2)
  IN  IF pos = 0 THEN [ok |-> FALSE, msg |-> <<>>, rest |-> buf]
      ELSE IF scan.next = 0
      THEN [ok |-> FALSE, msg |-> <<>>, rest |-> prefix \o scan.msg]
      ELSE [ok |-> TRUE, msg |-> scan.msg, rest |-> From(buf, scan.next)]

(* try_decode_message(): what is before the first prefix is dropped.       *)
Decode(buf) ==
  LET pos  == FindPrefix(buf)
      scan == Scan(buf, pos + 2)
  IN  IF pos = 0 THEN [ok |-> FALSE, msg |-> <<>>, rest |-> buf]
      ELSE IF scan.next = 0
      THEN [ok |-> FALSE, msg |-> <<>>, rest |-> From(buf, pos)]
      ELSE [ok |-> TRUE, msg |-> scan.msg, rest |-> From(buf, scan.next)]

(* Mutant: one message is taken out of the buffer for every chunk.         *)
DrainOnce(buf) ==
  LET d == Decode(buf)
  IN  [msgs |-> IF d.ok THEN <<d.msg>> ELSE <<>>, rest |-> d.rest]

(* while (try_decode_message(...)) on_receive(...).                        *)
Drain(buf) ==
  LET D[n \in 0 .. (Len(buf) \div 6) + 1] ==
        IF n = 0 THEN [msgs |-> <<>>, rest |-> buf]
        ELSE LET before == D[n - 1]
                 d      == Decode(before.rest)
             IN  [msgs |-> IF d.ok THEN Append(before.msgs, d.msg) ELSE before.msgs,
                  rest |-> d.rest]
  IN  D[(Len(buf) \div 6) + 1]       \* no frame is shorter than 6

-----------------------------------------------------------------------------
Init ==
  /\ sent = <<>> /\ received = <<>>
  /\ finished = FALSE
  /\ wire = <<>> /\ buffer = <<>>

(* send_msg() writes the whole frame ...                                   *)
Send(m) ==
  /\ ~finished /\ Len(sent) < MaxSent
  /\ sent' = Append(sent, m)
  /\ wire' = wire \o Encode(m)
  /\ UNCHANGED <<finished, buffer, received>>

(* ... unless m_is_finished is set between two calls of send(): it stops   *)
(* there and tells nobody.                                                 *)
SendCutShort(m) ==
  /\ ~finished /\ Len(sent) < MaxSent
  /\ finished' = TRUE
  /\ sent' = Append(sent, m)
  /\ \E n \in 0 .. Len(Encode(m)) - 1 : wire' = wire \o SubSeq(Encode(m), 1, n)
  /\ UNCHANGED <<buffer, received>>

(* recv() returns n characters and the stream hands them over.             *)
Receive(n) ==
  /\ n <= Len(wire)
  /\ wire' = From(wire, n + 1)
  /\ LET drained == Drain(buffer \o SubSeq(wire, 1, n))
     IN  /\ buffer' = drained.rest
         /\ received' = received \o drained.msgs
  /\ UNCHANGED <<sent, finished>>

Next ==
  \/ \E m \in Messages : Send(m) \/ SendCutShort(m)
  \/ \E n \in 1 .. BufSize : Receive(n)

Spec == Init /\ [][Next]_vars

-----------------------------------------------------------------------------
(* However the characters are cut into chunks, and whatever marks or       *)
(* pieces of marks the messages hold, the messages come out as they went   *)
(* in.  A message that is cut short is not delivered.                      *)
Channel == INSTANCE MsgChannel
ImplementsChannel == Channel!Spec

(* No message waits in the buffer for the next chunk, and nothing of a     *)
(* message stays behind it: when all was received, all was delivered.      *)
NothingStuck ==
  wire = <<>> /\ ~finished => received = sent /\ buffer = <<>>
=============================================================================
