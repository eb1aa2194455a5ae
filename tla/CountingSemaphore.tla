------------------------- MODULE CountingSemaphore -------------------------
(***************************************************************************)
(* What the users of prep::concurrent::semaphore count on: a number of     *)
(* permits, threads that wait for one, and a waiting thread that is not    *)
(* left waiting while permits are free.  ServerStream and ClientStream use *)
(* semaphores of this kind, with one permit.                               *)
(***************************************************************************)
EXTENDS Naturals

CONSTANTS
  Threads,   (* the threads that use the semaphore                           *)
  InitVal,   (* permits at the start                                         *)
  MaxVal     (* permits there can be                                         *)

VARIABLES
  cnt,       (* free permits                                                 *)
  waiting,   (* threads inside acquire()                                     *)
  ret        (* what a thread's last call told it                            *)

vars == <<cnt, waiting, ret>>

Results == {"none", "taken", "refused", "released", "overflow"}

Init ==
  /\ cnt = InitVal
  /\ waiting = {}
  /\ ret = [t \in Threads |-> "none"]

Ends(t, r) == ret' = [ret EXCEPT ![t] = r]

Ask(t) ==
  /\ t \notin waiting
  /\ waiting' = waiting \cup {t}
  /\ Ends(t, "none")
  /\ UNCHANGED cnt

Take(t) ==
  /\ t \in waiting /\ cnt > 0
  /\ cnt' = cnt - 1
  /\ waiting' = waiting \ {t}
  /\ Ends(t, "taken")

TryTake(t) ==
  /\ t \notin waiting
  /\ \/ cnt > 0 /\ cnt' = cnt - 1 /\ Ends(t, "taken")
     \/ cnt = 0 /\ cnt' = cnt /\ Ends(t, "refused")
  /\ UNCHANGED waiting

Give(t) ==
  /\ t \notin waiting
  /\ \/ cnt < MaxVal /\ cnt' = cnt + 1 /\ Ends(t, "released")
     \/ cnt = MaxVal /\ cnt' = cnt /\ Ends(t, "overflow")
  /\ UNCHANGED waiting

Next == \E t \in Threads : Ask(t) \/ Take(t) \/ TryTake(t) \/ Give(t)

Spec == Init /\ [][Next]_vars

(* Free permits do not lie about while threads wait for one.               *)
FairSpec == Spec /\ WF_vars(\E t \in Threads : Take(t))
=============================================================================
