--------------------------- MODULE MCServerStream ---------------------------
(* Instances of ServerStream for TLC.  Connections are interchangeable, and *)
(* so are the threads other than Owner that end the communication.          *)
EXTENDS ServerStream, TLC

Symmetry == Permutations(Conns) \cup Permutations(Others)
=============================================================================
