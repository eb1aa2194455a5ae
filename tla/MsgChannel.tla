----------------------------- MODULE MsgChannel -----------------------------
(***************************************************************************)
(* What a communicator promises over the byte stream below it: messages    *)
(* come out whole, unchanged and in the order they were sent in.           *)
(***************************************************************************)
EXTENDS Naturals, Sequences

CONSTANT Messages

VARIABLES sent, received

vars == <<sent, received>>

Init == sent = <<>> /\ received = <<>>

Send(m) == sent' = Append(sent, m) /\ UNCHANGED received

(* Up to n messages are handed over at once: on_receive runs for each.     *)
Deliver(n) ==
  /\ Len(received) < n /\ n <= Len(sent)
  /\ received' = SubSeq(sent, 1, n)
  /\ UNCHANGED sent

Next == (\E m \in Messages : Send(m)) \/ (\E n \in 1 .. Len(sent) : Deliver(n))

Spec == Init /\ [][Next]_vars
=============================================================================
