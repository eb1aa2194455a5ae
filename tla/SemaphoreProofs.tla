-------------------------- MODULE SemaphoreProofs --------------------------
(***************************************************************************)
(* For any finite set of threads and any number of permits: the types of   *)
(* Semaphore, its wake-ups, and that each of its steps is a step of the    *)
(* counting semaphore.                                                     *)
(***************************************************************************)
EXTENDS Semaphore, FiniteSetTheorems, TLAPS

Inv == TypeOK /\ NoLostWakeup

(* The sets of woken threads before and after a step are finite.           *)
LEMMA WokenFinite ==
  /\ IsFiniteSet(Woken) /\ Cardinality(Woken) \in Nat
  /\ IsFiniteSet(Woken') /\ Cardinality(Woken') \in Nat
<1>1. Woken \in SUBSET Threads /\ Woken' \in SUBSET Threads
  BY DEF Woken
<1>2. IsFiniteSet(Woken) /\ IsFiniteSet(Woken')
  BY <1>1, ThreadsAssumption, FS_Subset
<1> QED
  BY <1>2, FS_CardinalityType

(* What waking one sleeper does to the two sets.                           *)
LEMMA WakingOne ==
  ASSUME TypeOK, NEW t \in Asleep, pc' = [pc EXCEPT ![t] = "woken"]
  PROVE  Cardinality(Woken') = Cardinality(Woken) + 1
<1>1. Woken' = Woken \cup {t} /\ t \notin Woken
  BY DEF TypeOK, Asleep, Woken
<1> QED
  BY <1>1, WokenFinite, FS_AddElement

LEMMA InitInv == Init => Inv
<1> SUFFICES ASSUME Init PROVE Inv
  OBVIOUS
<1>1. TypeOK
  BY ValuesAssumption DEF Init, TypeOK, Places, Results
<1>2. Asleep = {}
  BY DEF Init, Asleep
<1> QED
  BY <1>1, <1>2 DEF Inv, NoLostWakeup

LEMMA NextType == TypeOK /\ [Next]_vars => TypeOK'
<1> SUFFICES ASSUME TypeOK, [Next]_vars PROVE TypeOK'
  OBVIOUS
<1> USE ValuesAssumption DEF TypeOK, Places, Results
<1>1. ASSUME NEW t \in Threads, CallAcquire(t) PROVE TypeOK'
  BY <1>1 DEF CallAcquire
<1>2. ASSUME NEW t \in Threads, Test(t) PROVE TypeOK'
  BY <1>2 DEF Test
<1>3. ASSUME NEW t \in Threads, WakeSpuriously(t) PROVE TypeOK'
  BY <1>3 DEF WakeSpuriously
<1>4. ASSUME NEW t \in Threads, TryAcquire(t) PROVE TypeOK'
  BY <1>4 DEF TryAcquire
<1>5. ASSUME NEW t \in Threads, Release(t) PROVE TypeOK'
  <2>1. CASE cnt = MaxVal
    BY <1>5, <2>1 DEF Release
  <2>2. CASE cnt # MaxVal
    <3>1. pc' \in [Threads -> Places]
      BY <1>5, <2>2 DEF Release, NotifyOne, Asleep
    <3>2. cnt' \in 0 .. MaxVal
      BY <1>5, <2>2 DEF Release
    <3>3. ret' \in [Threads -> Results]
      BY <1>5, <2>2 DEF Release
    <3> QED
      BY <3>1, <3>2, <3>3
  <2> QED
    BY <2>1, <2>2
<1>6. CASE UNCHANGED vars
  BY <1>6 DEF vars
<1> QED
  BY <1>1, <1>2, <1>3, <1>4, <1>5, <1>6 DEF Next

(* A permit that becomes free wakes one thread; a thread that leaves the   *)
(* woken ones takes a permit, or has seen that there is none.              *)
LEMMA NextWakeups == Inv /\ [Next]_vars => NoLostWakeup'
<1> SUFFICES ASSUME Inv, [Next]_vars PROVE NoLostWakeup'
  OBVIOUS
<1> USE WokenFinite, ValuesAssumption DEF Inv, NoLostWakeup
<1>1. ASSUME NEW t \in Threads, CallAcquire(t) PROVE NoLostWakeup'
  <2>1. Asleep' = Asleep /\ Woken' = Woken /\ cnt' = cnt
    BY <1>1 DEF CallAcquire, TypeOK, Asleep, Woken
  <2> QED
    BY <2>1
<1>2. ASSUME NEW t \in Threads, Test(t) PROVE NoLostWakeup'
  <2>1. CASE cnt > 0 /\ pc[t] = "woken"
    <3>1. Asleep' = Asleep /\ Woken' = Woken \ {t} /\ t \in Woken /\ cnt' = cnt - 1
      BY <1>2, <2>1 DEF Test, TypeOK, Asleep, Woken
    <3>2. Cardinality(Woken') = Cardinality(Woken) - 1
      BY <3>1, FS_RemoveElement
    <3> QED
      BY <3>1, <3>2 DEF TypeOK
  <2>2. CASE cnt > 0 /\ pc[t] = "locking"
    <3>1. Asleep' = Asleep /\ Woken' = Woken /\ cnt' = cnt - 1
      BY <1>2, <2>2 DEF Test, TypeOK, Asleep, Woken
    <3> QED
      BY <3>1 DEF TypeOK
  <2>3. CASE ~(cnt > 0)
    <3>1. cnt' = 0
      BY <1>2, <2>3 DEF Test, TypeOK
    <3> QED
      BY <3>1
  <2> QED
    BY <1>2, <2>1, <2>2, <2>3 DEF Test
<1>3. ASSUME NEW t \in Threads, WakeSpuriously(t) PROVE NoLostWakeup'
  <2>1. t \in Asleep /\ cnt' = cnt
    BY <1>3 DEF WakeSpuriously, Asleep
  <2>2. Cardinality(Woken') = Cardinality(Woken) + 1
    BY <1>3, <2>1, WakingOne DEF WakeSpuriously
  <2> QED
    BY <2>1, <2>2 DEF TypeOK
<1>4. ASSUME NEW t \in Threads, TryAcquire(t) PROVE NoLostWakeup'
  <2>1. Asleep' = Asleep /\ Woken' = Woken
    BY <1>4 DEF TryAcquire, Asleep, Woken
  <2>2. cnt' <= cnt /\ cnt' \in Nat
    BY <1>4 DEF TryAcquire, TypeOK
  <2> QED
    BY <2>1, <2>2 DEF TypeOK
<1>5. ASSUME NEW t \in Threads, Release(t) PROVE NoLostWakeup'
  <2>1. CASE cnt = MaxVal
    BY <1>5, <2>1 DEF Release, Asleep, Woken
  <2>2. CASE cnt # MaxVal /\ Asleep = {}
    <3>1. Asleep' = {}
      BY <1>5, <2>2 DEF Release, NotifyOne, Asleep
    <3> QED
      BY <3>1
  <2>3. CASE cnt # MaxVal /\ Asleep # {}
    <3>1. PICK s \in Asleep : pc' = [pc EXCEPT ![s] = "woken"]
      BY <1>5, <2>3 DEF Release, NotifyOne
    <3>2. Cardinality(Woken') = Cardinality(Woken) + 1
      BY <3>1, WakingOne
    <3>3. cnt' = cnt + 1
      BY <1>5, <2>3 DEF Release
    <3> QED
      BY <2>3, <3>2, <3>3 DEF TypeOK
  <2> QED
    BY <2>1, <2>2, <2>3
<1>6. CASE UNCHANGED vars
  BY <1>6 DEF vars, Asleep, Woken
<1> QED
  BY <1>1, <1>2, <1>3, <1>4, <1>5, <1>6 DEF Next

LEMMA NextInv == Inv /\ [Next]_vars => Inv'
  BY NextType, NextWakeups DEF Inv

(* Every variable of the semaphore keeps its type: the count stays between *)
(* 0 and the maximum, because acquire() tests it again after each wake-up. *)
THEOREM CountInRange == Spec => []TypeOK
<1>1. Inv => TypeOK
  BY DEF Inv
<1> QED
  BY InitInv, NextInv, <1>1, PTL DEF Spec

(* notify_one(), once per release(), is enough: while threads sleep, every *)
(* free permit has a woken thread on its way to it.                        *)
THEOREM WakeupsSuffice == Spec => []NoLostWakeup
<1>1. Inv => NoLostWakeup
  BY DEF Inv
<1> QED
  BY InitInv, NextInv, <1>1, PTL DEF Spec

(* Each step maps to a step of the counting semaphore, or to none.         *)
LEMMA StepRefines == TypeOK /\ [Next]_vars => [Counting!Next]_(Counting!vars)
<1> SUFFICES ASSUME TypeOK, [Next]_vars PROVE [Counting!Next]_(Counting!vars)
  OBVIOUS
<1> DEFINE Waiting == {t \in Threads : pc[t] # "out"}
<1> USE DEF Counting!Next, Counting!vars, Counting!Ends
<1>1. ASSUME NEW t \in Threads, CallAcquire(t) PROVE Counting!Ask(t)
  <2>1. t \notin Waiting /\ Waiting' = Waiting \cup {t}
    BY <1>1 DEF CallAcquire, TypeOK
  <2> QED
    BY <1>1, <2>1 DEF CallAcquire, Counting!Ask
<1>2. ASSUME NEW t \in Threads, Test(t) PROVE [Counting!Next]_(Counting!vars)
  <2>1. CASE cnt > 0
    <3>1. t \in Waiting /\ Waiting' = Waiting \ {t}
      BY <1>2, <2>1 DEF Test, TypeOK
    <3>2. Counting!Take(t)
      BY <1>2, <2>1, <3>1 DEF Test, Counting!Take
    <3> QED
      BY <3>2
  <2>2. CASE ~(cnt > 0)
    <3>1. Waiting' = Waiting
      BY <1>2, <2>2 DEF Test, TypeOK
    <3> QED
      BY <1>2, <2>2, <3>1 DEF Test
  <2> QED
    BY <2>1, <2>2
<1>3. ASSUME NEW t \in Threads, WakeSpuriously(t) PROVE UNCHANGED Counting!vars
  <2>1. Waiting' = Waiting
    BY <1>3 DEF WakeSpuriously, TypeOK
  <2> QED
    BY <1>3, <2>1 DEF WakeSpuriously
<1>4. ASSUME NEW t \in Threads, TryAcquire(t) PROVE Counting!TryTake(t)
  <2>1. t \notin Waiting /\ Waiting' = Waiting
    BY <1>4 DEF TryAcquire
  <2>2. CASE cnt > 0
    BY <1>4, <2>1, <2>2 DEF TryAcquire, Counting!TryTake
  <2>3. CASE cnt = 0
    BY <1>4, <2>1, <2>3 DEF TryAcquire, Counting!TryTake
  <2> QED
    BY <2>2, <2>3, ValuesAssumption DEF TypeOK
<1>5. ASSUME NEW t \in Threads, Release(t) PROVE Counting!Give(t)
  <2>1. t \notin Waiting
    BY <1>5 DEF Release
  <2>2. Waiting' = Waiting
    BY <1>5 DEF Release, NotifyOne, Asleep, TypeOK
  <2>3. CASE cnt = MaxVal
    BY <1>5, <2>1, <2>2, <2>3 DEF Release, Counting!Give
  <2>4. CASE cnt # MaxVal
    <3>1. cnt < MaxVal
      BY <2>4, ValuesAssumption DEF TypeOK
    <3> QED
      BY <1>5, <2>1, <2>2, <2>4, <3>1 DEF Release, Counting!Give
  <2> QED
    BY <2>3, <2>4
<1>6. CASE UNCHANGED vars
  BY <1>6 DEF vars
<1> QED
  BY <1>1, <1>2, <1>3, <1>4, <1>5, <1>6 DEF Next

(* The semaphore with its mutex and its condition variable does nothing    *)
(* that the counting semaphore, which the streams count on, does not.      *)
THEOREM IsCountingSemaphore == Spec => Counting!Spec
<1>1. Init => Counting!Init
  BY DEF Init, Counting!Init
<1> QED
  BY <1>1, StepRefines, CountInRange, PTL DEF Spec, Counting!Spec
=============================================================================
