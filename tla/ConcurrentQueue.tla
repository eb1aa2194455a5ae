-------------------------- MODULE ConcurrentQueue --------------------------
(***************************************************************************)
(* prep::concurrent::concurrent_queue: a queue, a mutex and a condition    *)
(* variable.  As in Semaphore, what happens with the mutex is one step.    *)
(*                                                                         *)
(* ServerStream and ClientStream take the queue for a sequence: emplace()  *)
(* appends, wait_for_pop() takes the head when there is one.  Here is why  *)
(* they may, for any number of threads that pop.                           *)
(***************************************************************************)
EXTENDS Naturals, Sequences, FiniteSets

CONSTANTS
  Producers,   (* the threads that call emplace()                            *)
  Consumers,   (* the threads that call wait_for_pop()                       *)
  MaxElems     (* bound: elements one producer puts in                       *)

ASSUME ThreadsAssumption == IsFiniteSet(Consumers)
ASSUME ElemsAssumption == MaxElems \in Nat

VARIABLES
  m_q,         (* the elements inside: a producer and a number               *)
  pc,          (* where each consumer is in wait_for_pop()                   *)
  put,         (* how many elements each producer has put in                 *)
  popped,      (* the elements that came out, in that order                  *)
  cleared      (* the elements that clear() threw away                       *)

vars == <<m_q, pc, put, popped, cleared>>

Elems  == Producers \X (1 .. MaxElems)
Places == {"out", "locking", "asleep", "woken"}

Asleep == {t \in Consumers : pc[t] = "asleep"}
Woken  == {t \in Consumers : pc[t] = "woken"}

TypeOK ==
  /\ m_q \in Seq(Elems)
  /\ pc \in [Consumers -> Places]
  /\ put \in [Producers -> 0 .. MaxElems]
  /\ popped \in Seq(Elems)
  /\ cleared \in SUBSET Elems

Init ==
  /\ m_q = <<>>
  /\ pc = [t \in Consumers |-> "out"]
  /\ put = [p \in Producers |-> 0]
  /\ popped = <<>>
  /\ cleared = {}

(* Mutant: an element that is not the only one wakes nobody.               *)
NotifyIfFirst ==
  IF Asleep = {} \/ m_q # <<>> THEN UNCHANGED pc
  ELSE \E t \in Asleep : pc' = [pc EXCEPT ![t] = "woken"]

(* m_cond.notify_one()                                                     *)
NotifyOne ==
  IF Asleep = {} THEN UNCHANGED pc
  ELSE \E t \in Asleep : pc' = [pc EXCEPT ![t] = "woken"]

Emplace(p) ==
  /\ put[p] < MaxElems
  /\ put' = [put EXCEPT ![p] = @ + 1]
  /\ m_q' = Append(m_q, <<p, put[p] + 1>>)
  /\ NotifyOne
  /\ UNCHANGED <<popped, cleared>>

CallWaitForPop(t) ==
  /\ pc[t] = "out"
  /\ pc' = [pc EXCEPT ![t] = "locking"]
  /\ UNCHANGED <<m_q, put, popped, cleared>>

(* Mutant: front() is read, and the element stays where it is.             *)
TestPeeks(t) ==
  /\ pc[t] \in {"locking", "woken"}
  /\ IF m_q # <<>>
     THEN /\ popped' = Append(popped, Head(m_q))
          /\ pc' = [pc EXCEPT ![t] = "out"]
          /\ Len(popped) < MaxElems * Cardinality(Producers)
          /\ UNCHANGED m_q
     ELSE /\ pc' = [pc EXCEPT ![t] = "asleep"]
          /\ UNCHANGED <<m_q, popped>>
  /\ UNCHANGED <<put, cleared>>

(* Mutant: a consumer that was woken does not look at size() again; what   *)
(* front() gives it of an empty queue is no element.                       *)
TestOnce(t) ==
  /\ pc[t] \in {"locking", "woken"}
  /\ IF m_q # <<>>
     THEN /\ popped' = Append(popped, Head(m_q))
          /\ m_q' = Tail(m_q)
          /\ pc' = [pc EXCEPT ![t] = "out"]
     ELSE /\ UNCHANGED m_q
          /\ IF pc[t] = "woken"
             THEN popped' = Append(popped, <<>>) /\ pc' = [pc EXCEPT ![t] = "out"]
             ELSE UNCHANGED popped /\ pc' = [pc EXCEPT ![t] = "asleep"]
  /\ UNCHANGED <<put, cleared>>

(* With the mutex: the predicate of m_cond.wait(), and what follows it.    *)
Test(t) ==
  /\ pc[t] \in {"locking", "woken"}
  /\ IF m_q # <<>>
     THEN /\ popped' = Append(popped, Head(m_q))
          /\ m_q' = Tail(m_q)
          /\ pc' = [pc EXCEPT ![t] = "out"]
     ELSE /\ pc' = [pc EXCEPT ![t] = "asleep"]
          /\ UNCHANGED <<m_q, popped>>
  /\ UNCHANGED <<put, cleared>>

WakeSpuriously(t) ==
  /\ pc[t] = "asleep"
  /\ pc' = [pc EXCEPT ![t] = "woken"]
  /\ UNCHANGED <<m_q, put, popped, cleared>>

Clear ==
  /\ cleared' = cleared \cup {m_q[i] : i \in 1 .. Len(m_q)}
  /\ m_q' = <<>>
  /\ UNCHANGED <<pc, put, popped>>

Next ==
  \/ \E p \in Producers : Emplace(p)
  \/ \E t \in Consumers : CallWaitForPop(t) \/ Test(t) \/ WakeSpuriously(t)
  \/ Clear

Spec == Init /\ [][Next]_vars

FairSpec == Spec /\ \A t \in Consumers : WF_vars(Test(t))

-----------------------------------------------------------------------------
(* No notification is lost: while consumers sleep, every element has a    *)
(* consumer on its way to it.                                              *)
NoLostNotification == Asleep # {} => Len(m_q) <= Cardinality(Woken)

(* Every element that was put in comes out once, or is in the queue, or    *)
(* was cleared; and those of one producer come out in their order.         *)
OnceInOrder ==
  LET passed == popped \o m_q
      At(s, e) == {i \in 1 .. Len(s) : s[i] = e}
  IN  /\ \A p \in Producers : \A n \in 1 .. put[p] :
           Cardinality(At(passed, <<p, n>>)) = IF <<p, n>> \in cleared THEN 0 ELSE 1
      /\ \A i, j \in 1 .. Len(passed) :
           i < j /\ passed[i][1] = passed[j][1] => passed[i][2] < passed[j][2]

(* An element does not stay in the queue while a consumer waits for one.   *)
ElementsAreTaken ==
  m_q # <<>> /\ (\E t \in Consumers : pc[t] # "out")
    ~> m_q = <<>> \/ \A t \in Consumers : pc[t] = "out"
=============================================================================
