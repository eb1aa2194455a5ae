--------------------------- MODULE MCCommunicator ---------------------------
(* Every message of up to two characters, and longer ones in which marks    *)
(* are repeated, adjacent, or hidden behind a stray stem.                   *)
EXTENDS Communicator

ShortMessages == UNION {[1 .. n -> {"t", "q", "e", "x"}] : n \in 0 .. 2}

MarkedMessages ==
  {postfix \o endmsg, postfix \o postfix, prefix, prefix \o postfix,
   <<"t">> \o postfix, postfix \o <<"t">>, postfix \o <<"t">> \o endmsg,
   postfix \o postfix \o endmsg, endmsg \o postfix, postfix \o <<"x">> \o postfix,
   prefix \o postfix \o endmsg \o prefix}

AllMessages == ShortMessages \cup MarkedMessages
=============================================================================
