----------------------------- MODULE Semaphore -----------------------------
(***************************************************************************)
(* prep::concurrent::semaphore: a counter, a mutex and a condition         *)
(* variable.  What a thread does between locking the mutex and unlocking   *)
(* it, or going to sleep on the condition variable, is one step; between   *)
(* the notification of a sleeper and the moment it has the mutex again any *)
(* other thread may come in.                                               *)
(***************************************************************************)
EXTENDS Naturals, FiniteSets

CONSTANTS
  Threads,   (* the threads that use the semaphore                           *)
  InitVal,   (* init_val                                                     *)
  MaxVal     (* max_val                                                      *)

ASSUME ThreadsAssumption == IsFiniteSet(Threads)
ASSUME ValuesAssumption ==      \* or the constructor throws
  InitVal \in Nat /\ MaxVal \in Nat /\ InitVal <= MaxVal

VARIABLES
  cnt,       (* m_cnt                                                        *)
  pc,        (* where each thread is in acquire(); "out" of it, it may call  *)
             (* any operation                                                *)
  ret        (* what each thread's last operation told it                    *)

vars == <<cnt, pc, ret>>

(* "locking": in acquire(), on its way to the mutex for the first time;    *)
(* "asleep" on m_cond; "woken", on its way to the mutex again.             *)
Places == {"out", "locking", "asleep", "woken"}

Asleep == {t \in Threads : pc[t] = "asleep"}
Woken  == {t \in Threads : pc[t] = "woken"}

Results == {"none", "taken", "refused", "released", "overflow"}

TypeOK ==
  /\ cnt \in 0 .. MaxVal
  /\ pc \in [Threads -> Places]
  /\ ret \in [Threads -> Results]

Init ==
  /\ cnt = InitVal
  /\ pc = [t \in Threads |-> "out"]
  /\ ret = [t \in Threads |-> "none"]

CallAcquire(t) ==
  /\ pc[t] = "out"
  /\ pc' = [pc EXCEPT ![t] = "locking"]
  /\ ret' = [ret EXCEPT ![t] = "none"]
  /\ UNCHANGED cnt

(* Mutant: a thread that was woken does not look at m_cnt again.           *)
TestOnce(t) ==
  /\ pc[t] \in {"locking", "woken"}
  /\ IF cnt > 0 \/ pc[t] = "woken"
     THEN /\ cnt' = cnt - 1
          /\ pc' = [pc EXCEPT ![t] = "out"]
          /\ ret' = [ret EXCEPT ![t] = "taken"]
     ELSE /\ pc' = [pc EXCEPT ![t] = "asleep"]
          /\ UNCHANGED <<cnt, ret>>

(* With the mutex: the predicate of m_cond.wait(), and what follows it.    *)
Test(t) ==
  /\ pc[t] \in {"locking", "woken"}
  /\ IF cnt > 0
     THEN /\ cnt' = cnt - 1
          /\ pc' = [pc EXCEPT ![t] = "out"]
          /\ ret' = [ret EXCEPT ![t] = "taken"]
     ELSE /\ pc' = [pc EXCEPT ![t] = "asleep"]
          /\ UNCHANGED <<cnt, ret>>

(* A condition variable may wake a thread for no reason.                   *)
WakeSpuriously(t) ==
  /\ pc[t] = "asleep"
  /\ pc' = [pc EXCEPT ![t] = "woken"]
  /\ UNCHANGED <<cnt, ret>>

TryAcquire(t) ==
  /\ pc[t] = "out"
  /\ cnt' = IF cnt > 0 THEN cnt - 1 ELSE cnt
  /\ ret' = [ret EXCEPT ![t] = IF cnt > 0 THEN "taken" ELSE "refused"]
  /\ UNCHANGED pc

(* Mutant: only the release that finds no permit notifies.                 *)
NotifyFromZero ==
  IF Asleep = {} \/ cnt > 0 THEN UNCHANGED pc
  ELSE \E t \in Asleep : pc' = [pc EXCEPT ![t] = "woken"]

(* m_cond.notify_one()                                                     *)
NotifyOne ==
  IF Asleep = {} THEN UNCHANGED pc
  ELSE \E t \in Asleep : pc' = [pc EXCEPT ![t] = "woken"]

Release(t) ==
  /\ pc[t] = "out"
  /\ IF cnt = MaxVal
     THEN /\ ret' = [ret EXCEPT ![t] = "overflow"]
          /\ UNCHANGED <<cnt, pc>>
     ELSE /\ cnt' = cnt + 1
          /\ ret' = [ret EXCEPT ![t] = "released"]
          /\ NotifyOne

Next ==
  \E t \in Threads :
    \/ CallAcquire(t) \/ Test(t) \/ WakeSpuriously(t)
    \/ TryAcquire(t) \/ Release(t)

Spec == Init /\ [][Next]_vars

(* A thread that can have the mutex gets it; nobody has to call anything,  *)
(* and nothing but a notification has to wake a sleeper.                   *)
FairSpec == Spec /\ \A t \in Threads : WF_vars(Test(t))

-----------------------------------------------------------------------------
(* No wake-up is lost: while threads sleep, every free permit has a thread *)
(* on its way to it.  It is what notify_one() instead of notify_all(), and *)
(* a notification for each release, have to be enough for.                 *)
NoLostWakeup == Asleep # {} => cnt <= Cardinality(Woken)

(* The semaphore with its mutex and its condition variable is the counting *)
(* semaphore its users think of, fairness included.                        *)
Counting == INSTANCE CountingSemaphore WITH
  waiting <- {t \in Threads : pc[t] # "out"}

ImplementsCounting == Counting!FairSpec
=============================================================================
