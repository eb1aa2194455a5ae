------------------------- MODULE MCConcurrentQueue -------------------------
(* An instance of ConcurrentQueue for TLC.                                 *)
EXTENDS ConcurrentQueue
=============================================================================
