---------------------------- MODULE StreamEvents ----------------------------
(***************************************************************************)
(* What a server_stream promises to the code that uses it, with nothing of *)
(* its threads, semaphores and system calls: which callbacks a connection  *)
(* gets, in which order, and when the connection can be sent to.           *)
(*                                                                         *)
(* A connection is announced once.  From then on it is among the           *)
(* descriptors that can be sent to, until its peer hangs up.  Its chunks   *)
(* reach on_receive in the order they arrived, none lost, none twice; then *)
(* on_disconnect runs, once and last.  No callback runs after the stop.    *)
(***************************************************************************)
EXTENDS Naturals, Sequences

CONSTANTS
  Conns,      (* the connections                                             *)
  MaxChunks   (* bound: chunks that arrive on one connection                 *)

VARIABLES
  phase,      (* how far each connection is in its life                      *)
  arrived,    (* how many chunks of it arrived                               *)
  pipe,       (* its events that no callback has seen: chunk numbers, Eof    *)
  stopped     (* no callback runs any more                                   *)

vars == <<phase, arrived, pipe, stopped>>

Eof == 0

Phases == {"new", "open", "hung_up", "over"}

TypeOK ==
  /\ phase \in [Conns -> Phases]
  /\ arrived \in [Conns -> 0 .. MaxChunks]
  /\ pipe \in [Conns -> Seq(0 .. MaxChunks)]
  /\ stopped \in BOOLEAN

Init ==
  /\ phase = [f \in Conns |-> "new"]
  /\ arrived = [f \in Conns |-> 0]
  /\ pipe = [f \in Conns |-> <<>>]
  /\ stopped = FALSE

Connect(f) ==
  /\ phase[f] = "new"
  /\ phase' = [phase EXCEPT ![f] = "open"]
  /\ UNCHANGED <<arrived, pipe, stopped>>

Arrive(f) ==
  /\ phase[f] = "open" /\ arrived[f] < MaxChunks
  /\ arrived' = [arrived EXCEPT ![f] = @ + 1]
  /\ pipe' = [pipe EXCEPT ![f] = Append(@, arrived[f] + 1)]
  /\ UNCHANGED <<phase, stopped>>

(* The connection can no longer be sent to; on_disconnect is yet to come.  *)
HangUp(f) ==
  /\ phase[f] = "open"
  /\ phase' = [phase EXCEPT ![f] = "hung_up"]
  /\ UNCHANGED <<arrived, pipe, stopped>>

QueueEof(f) ==
  /\ phase[f] = "hung_up"
  /\ phase' = [phase EXCEPT ![f] = "over"]
  /\ pipe' = [pipe EXCEPT ![f] = Append(@, Eof)]
  /\ UNCHANGED <<arrived, stopped>>

Handle(f) ==
  /\ ~stopped
  /\ pipe[f] # <<>>
  /\ pipe' = [pipe EXCEPT ![f] = Tail(@)]
  /\ UNCHANGED <<phase, arrived, stopped>>

Stop ==
  /\ ~stopped
  /\ stopped' = TRUE
  /\ UNCHANGED <<phase, arrived, pipe>>

Next ==
  \/ \E f \in Conns : Connect(f) \/ Arrive(f) \/ HangUp(f) \/ QueueEof(f) \/ Handle(f)
  \/ Stop

Spec == Init /\ [][Next]_vars
=============================================================================
