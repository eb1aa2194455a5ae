------------------------ MODULE ConcurrentQueueProofs ------------------------
(***************************************************************************)
(* Proofs about ConcurrentQueue, for any number of producers, consumers    *)
(* and elements.                                                           *)
(***************************************************************************)
EXTENDS ConcurrentQueue, FiniteSetTheorems, SequenceTheorems, TLAPS

LEMMA InitTypeOK == Init => TypeOK
<1> SUFFICES ASSUME Init PROVE TypeOK
  OBVIOUS
<1>1. m_q \in Seq(Elems) /\ popped \in Seq(Elems) /\ cleared \in SUBSET Elems
  BY DEF Init
<1>2. pc \in [Consumers -> Places] /\ put \in [Producers -> 0 .. MaxElems]
  BY ElemsAssumption DEF Init, Places
<1> QED
  BY <1>1, <1>2 DEF TypeOK

LEMMA NextTypeOK == TypeOK /\ [Next]_vars => TypeOK'
<1> SUFFICES ASSUME TypeOK, [Next]_vars PROVE TypeOK'
  OBVIOUS
<1> USE DEF TypeOK, Places
<1>1. ASSUME NEW p \in Producers, Emplace(p) PROVE TypeOK'
  <2>1. put[p] + 1 \in 1 .. MaxElems
    BY <1>1, ElemsAssumption DEF Emplace
  <2>2. put' \in [Producers -> 0 .. MaxElems] /\ m_q' \in Seq(Elems)
    BY <1>1, <2>1 DEF Emplace, Elems
  <2>3. pc' \in [Consumers -> Places]
    BY <1>1 DEF Emplace, NotifyOne, Asleep
  <2> QED
    BY <1>1, <2>2, <2>3 DEF Emplace
<1>2. ASSUME NEW t \in Consumers, CallWaitForPop(t) \/ WakeSpuriously(t) PROVE TypeOK'
  BY <1>2 DEF CallWaitForPop, WakeSpuriously
<1>3. ASSUME NEW t \in Consumers, Test(t) PROVE TypeOK'
  <2>1. m_q' \in Seq(Elems) /\ popped' \in Seq(Elems)
    <3>1. CASE m_q # <<>>
      <4>1. Head(m_q) \in Elems /\ Tail(m_q) \in Seq(Elems)
        BY <3>1, HeadTailProperties, Zenon
      <4>2. m_q' = Tail(m_q) /\ popped' = Append(popped, Head(m_q))
        BY <1>3, <3>1, Zenon DEF Test
      <4> QED
        BY <4>1, <4>2
    <3>2. CASE m_q = <<>>
      BY <1>3, <3>2 DEF Test
    <3> QED
      BY <3>1, <3>2
  <2>2. pc' \in [Consumers -> Places]
    BY <1>3 DEF Test
  <2> QED
    BY <1>3, <2>1, <2>2 DEF Test
<1>4. CASE Clear
  <2>1. \A i \in 1 .. Len(m_q) : m_q[i] \in Elems
    OBVIOUS
  <2>2. m_q' \in Seq(Elems) /\ cleared' \in SUBSET Elems
    BY <1>4, <2>1 DEF Clear
  <2> QED
    BY <1>4, <2>2 DEF Clear
<1>5. CASE UNCHANGED vars
  BY <1>5 DEF vars
<1> QED
  BY <1>1, <1>2, <1>3, <1>4, <1>5 DEF Next

(* What is inside the queue, and what comes out, are elements that the     *)
(* producers have put in.                                                  *)
THEOREM TypeCorrect == Spec => []TypeOK
  BY InitTypeOK, NextTypeOK, PTL DEF Spec

-----------------------------------------------------------------------------
(* Notifications.                                                          *)

LEMMA WokenIsFinite == IsFiniteSet(Woken) /\ Cardinality(Woken) \in Nat
  BY ThreadsAssumption, FS_Subset, FS_CardinalityType DEF Woken

LEMMA NextNotified == TypeOK /\ NoLostNotification /\ [Next]_vars => NoLostNotification'
<1> SUFFICES ASSUME TypeOK, NoLostNotification, [Next]_vars, Asleep' # {}
             PROVE  Len(m_q') <= Cardinality(Woken')
  BY DEF NoLostNotification
<1>1. /\ IsFiniteSet(Woken) /\ Cardinality(Woken) \in Nat /\ Len(m_q) \in Nat
      /\ IsFiniteSet(Woken') /\ Cardinality(Woken') \in Nat
  <2>1. IsFiniteSet(Woken') /\ Cardinality(Woken') \in Nat
    BY ThreadsAssumption, FS_Subset, FS_CardinalityType DEF Woken
  <2> QED
    BY <2>1, WokenIsFinite DEF TypeOK
<1>2. CASE m_q' = <<>>
  BY <1>1, <1>2
<1>3. CASE m_q' # <<>>
  <2>1. ASSUME NEW p \in Producers, Emplace(p) PROVE Len(m_q') <= Cardinality(Woken')
    <3>1. Asleep # {}
      BY <2>1 DEF Emplace, NotifyOne, Asleep
    <3>2. PICK t \in Asleep : pc' = [pc EXCEPT ![t] = "woken"]
      BY <2>1, <3>1 DEF Emplace, NotifyOne
    <3>3. Woken' = Woken \cup {t} /\ t \notin Woken
      BY <3>2 DEF Woken, Asleep, TypeOK
    <3>4. Cardinality(Woken') = Cardinality(Woken) + 1
      BY <1>1, <3>3, FS_AddElement
    <3>5. Len(m_q') = Len(m_q) + 1
      BY <2>1 DEF Emplace, TypeOK
    <3> QED
      BY <1>1, <3>1, <3>4, <3>5 DEF NoLostNotification
  <2>2. ASSUME NEW t \in Consumers, CallWaitForPop(t) PROVE Len(m_q') <= Cardinality(Woken')
    <3>1. Asleep' = Asleep /\ Woken' = Woken
      BY <2>2 DEF CallWaitForPop, Asleep, Woken, TypeOK
    <3> QED
      BY <2>2, <3>1 DEF CallWaitForPop, NoLostNotification
  <2>3. ASSUME NEW t \in Consumers, WakeSpuriously(t) PROVE Len(m_q') <= Cardinality(Woken')
    <3>1. t \in Asleep /\ Woken' = Woken \cup {t} /\ t \notin Woken
      BY <2>3 DEF WakeSpuriously, Woken, Asleep, TypeOK
    <3>2. Cardinality(Woken') = Cardinality(Woken) + 1
      BY <1>1, <3>1, FS_AddElement
    <3>3. m_q' = m_q
      BY <2>3 DEF WakeSpuriously
    <3> QED
      BY <1>1, <3>1, <3>2, <3>3 DEF NoLostNotification
  <2>4. ASSUME NEW t \in Consumers, Test(t) PROVE Len(m_q') <= Cardinality(Woken')
    <3>1. m_q # <<>> /\ m_q' = Tail(m_q) /\ pc' = [pc EXCEPT ![t] = "out"]
      BY <1>3, <2>4 DEF Test
    <3>2. Len(m_q') = Len(m_q) - 1
      BY <3>1 DEF TypeOK
    <3>3. Asleep # {} /\ Woken' = Woken \ {t}
      BY <2>4, <3>1 DEF Test, Asleep, Woken, TypeOK
    <3>4. Cardinality(Woken') >= Cardinality(Woken) - 1
      BY <1>1, <3>3, FS_RemoveElement
    <3> QED
      BY <1>1, <3>2, <3>3, <3>4 DEF NoLostNotification
  <2>5. CASE UNCHANGED vars
    BY <2>5 DEF vars, Asleep, Woken, NoLostNotification
  <2> QED
    BY <1>3, <2>1, <2>2, <2>3, <2>4, <2>5 DEF Next, Clear
<1> QED
  BY <1>2, <1>3

(* emplace() wakes a sleeping consumer for every element: as long as one   *)
(* sleeps, each element in the queue has a consumer that was woken for it. *)
THEOREM NotificationsArrive == Spec => []NoLostNotification
<1>1. Init => NoLostNotification
  BY DEF Init, NoLostNotification, Asleep
<1> QED
  BY <1>1, NextNotified, TypeCorrect, PTL DEF Spec

-----------------------------------------------------------------------------
(* Order.  The elements that came out and those inside are one sequence;   *)
(* emplace() extends it, a pop moves its boundary, clear() cuts it there.  *)

Passed == popped \o m_q

Issued       == \A i \in 1 .. Len(Passed) : Passed[i][2] <= put[Passed[i][1]]
ClearedGone  == \A i \in 1 .. Len(Passed) : Passed[i] \notin cleared
ClearedKnown == \A e \in cleared : e[2] <= put[e[1]]
Ascending    == \A i, j \in 1 .. Len(Passed) :
                  i < j /\ Passed[i][1] = Passed[j][1] => Passed[i][2] < Passed[j][2]
NoneMissing  == \A p \in Producers : \A n \in 1 .. put[p] :
                  <<p, n>> \in cleared \/ \E i \in 1 .. Len(Passed) : Passed[i] = <<p, n>>

OrderInv == Issued /\ ClearedGone /\ ClearedKnown /\ Ascending /\ NoneMissing

PassedShape ==
  /\ Len(popped) \in Nat /\ Len(m_q) \in Nat
  /\ Passed \in Seq(Elems)
  /\ Len(Passed) = Len(popped) + Len(m_q)
  /\ \A i \in 1 .. Len(Passed) :
       /\ Passed[i] \in Elems
       /\ Passed[i] = IF i <= Len(popped) THEN popped[i] ELSE m_q[i - Len(popped)]

LEMMA PassedIsSeq == TypeOK => PassedShape
<1> SUFFICES ASSUME TypeOK PROVE PassedShape
  OBVIOUS
<1>1. popped \in Seq(Elems) /\ m_q \in Seq(Elems)
  BY DEF TypeOK
<1>2. Len(popped) \in Nat /\ Len(m_q) \in Nat
  BY <1>1
<1>3. /\ Passed \in Seq(Elems)
      /\ Len(Passed) = Len(popped) + Len(m_q)
      /\ \A i \in 1 .. Len(popped) + Len(m_q) :
           Passed[i] = IF i <= Len(popped) THEN popped[i] ELSE m_q[i - Len(popped)]
  BY <1>1, ConcatProperties, Zenon DEF Passed
<1>4. \A i \in 1 .. Len(Passed) : Passed[i] \in Elems
  BY <1>3, ElementOfSeq
<1> QED
  BY <1>2, <1>3, <1>4 DEF PassedShape

(* A pop moves the first element of the queue behind the last that came    *)
(* out: the sequence of the two is as it was.                              *)
LEMMA TestKeepsPassed ==
  ASSUME NEW t \in Consumers, TypeOK, TypeOK', Test(t)
  PROVE  Passed' = Passed
<1>0. PassedShape /\ PassedShape'
  BY PassedIsSeq, PTL
<1>1. CASE m_q = <<>>
  BY <1>1 DEF Test, Passed
<1>2. CASE m_q # <<>>
  <2>1. popped' = Append(popped, Head(m_q)) /\ m_q' = Tail(m_q)
    BY <1>2 DEF Test
  <2>2. /\ Len(m_q') = Len(m_q) - 1 /\ Len(m_q) \in Nat
        /\ \A i \in 1 .. Len(m_q') : m_q'[i] = m_q[i + 1]
    BY <1>2, <2>1, HeadTailProperties DEF TypeOK
  <2>3. Head(m_q) = m_q[1] /\ Head(m_q) \in Elems /\ 1 <= Len(m_q)
    BY <1>2, HeadTailProperties DEF TypeOK
  <2>4. /\ Len(popped') = Len(popped) + 1
        /\ \A i \in 1 .. Len(popped) : popped'[i] = popped[i]
        /\ popped'[Len(popped) + 1] = m_q[1]
    BY <2>1, <2>3 DEF TypeOK
  <2>5. /\ Passed' \in Seq(Elems) /\ Len(Passed') = Len(popped') + Len(m_q')
        /\ \A i \in 1 .. Len(Passed') :
             Passed'[i] = IF i <= Len(popped') THEN popped'[i] ELSE m_q'[i - Len(popped')]
    BY <1>0 DEF PassedShape
  <2>6. Len(Passed') = Len(Passed)
    BY <1>0, <2>2, <2>4, <2>5 DEF PassedShape
  <2>7. ASSUME NEW i \in 1 .. Len(Passed') PROVE Passed'[i] = Passed[i]
    <3>1. CASE i <= Len(popped)
      BY <1>0, <2>4, <2>5, <2>6, <2>7, <3>1 DEF PassedShape
    <3>2. CASE i = Len(popped) + 1
      <4>1. Passed'[i] = m_q[1]
        BY <1>0, <2>4, <2>5, <2>7, <3>2 DEF PassedShape
      <4>2. Passed[i] = m_q[i - Len(popped)] /\ i - Len(popped) = 1
        BY <1>0, <2>6, <2>7, <3>2 DEF PassedShape
      <4> QED
        BY <4>1, <4>2
    <3>3. CASE i > Len(popped) + 1
      <4>1. i - Len(popped') \in 1 .. Len(m_q') /\ i - Len(popped') + 1 = i - Len(popped)
        BY <1>0, <2>2, <2>4, <2>5, <2>7, <3>3 DEF PassedShape
      <4>2. Passed'[i] = m_q'[i - Len(popped')]
        BY <1>0, <2>4, <2>5, <2>7, <3>3 DEF PassedShape
      <4>3. m_q'[i - Len(popped')] = m_q[i - Len(popped)]
        BY <2>2, <4>1
      <4>4. Passed[i] = m_q[i - Len(popped)]
        BY <1>0, <2>6, <2>7, <3>3 DEF PassedShape
      <4> QED
        BY <4>2, <4>3, <4>4
    <3> QED
      BY <1>0, <3>1, <3>2, <3>3 DEF PassedShape
  <2> QED
    BY <1>0, <2>5, <2>6, <2>7, SeqEqual, Zenon DEF PassedShape
<1> QED
  BY <1>1, <1>2

(* emplace() puts an element behind all the others, the producer's next.   *)
LEMMA EmplaceOrder ==
  ASSUME NEW p \in Producers, TypeOK, TypeOK', OrderInv, Emplace(p)
  PROVE  OrderInv'
<1> DEFINE e == <<p, put[p] + 1>>
<1>0. PassedShape /\ PassedShape'
  BY PassedIsSeq, PTL
<1>1. /\ m_q' = Append(m_q, e) /\ popped' = popped /\ cleared' = cleared
      /\ put' = [put EXCEPT ![p] = @ + 1] /\ put[p] \in Nat
  BY ElemsAssumption DEF Emplace, TypeOK
<1>2. Len(Passed') = Len(Passed) + 1 /\ Len(Passed) \in Nat
  BY <1>0, <1>1 DEF PassedShape, TypeOK
<1>3. /\ \A i \in 1 .. Len(m_q) : m_q'[i] = m_q[i]
      /\ m_q'[Len(m_q) + 1] = e
  BY <1>1 DEF TypeOK
<1>4. Passed'[Len(Passed')] = e
  <2>1. /\ Len(Passed') \in 1 .. Len(Passed') /\ ~ (Len(Passed') <= Len(popped'))
        /\ Len(Passed') - Len(popped') = Len(m_q) + 1
    BY <1>0, <1>1, <1>2 DEF PassedShape
  <2>2. Passed'[Len(Passed')] = m_q'[Len(Passed') - Len(popped')]
    BY <1>0, <2>1 DEF PassedShape
  <2> QED
    BY <1>3, <2>1, <2>2
<1>5. ASSUME NEW i \in 1 .. Len(Passed) PROVE i \in 1 .. Len(Passed') /\ Passed'[i] = Passed[i]
  <2>1. i \in 1 .. Len(Passed')
    BY <1>2
  <2>2. CASE i <= Len(popped)
    BY <1>0, <1>1, <2>1, <2>2 DEF PassedShape
  <2>3. CASE ~ (i <= Len(popped))
    <3>1. i - Len(popped) \in 1 .. Len(m_q)
      BY <1>0, <2>3 DEF PassedShape
    <3> QED
      BY <1>0, <1>1, <1>3, <2>1, <2>3, <3>1 DEF PassedShape
  <2> QED
    BY <2>1, <2>2, <2>3
<1>6. \A i \in 1 .. Len(Passed) : Passed[i] \in Elems
  BY <1>0 DEF PassedShape
<1>7. \A i \in 1 .. Len(Passed') : i \in 1 .. Len(Passed) \/ i = Len(Passed')
  BY <1>2
<1>8. \A q \in Producers : put[q] \in Nat /\ put'[q] = IF q = p THEN put[p] + 1 ELSE put[q]
  BY <1>1, ElemsAssumption DEF TypeOK
<1>9. \A x \in Elems : x[1] \in Producers /\ x[2] \in Nat /\ x = <<x[1], x[2]>>
  BY ElemsAssumption DEF Elems
<1>10. \A i \in 1 .. Len(Passed) : Passed[i][2] <= put[Passed[i][1]]
  BY DEF OrderInv, Issued
<1>11. Issued'
  <2>1. ASSUME NEW i \in 1 .. Len(Passed) PROVE Passed'[i][2] <= put'[Passed'[i][1]]
    <3>1. Passed[i][1] \in Producers /\ Passed[i][2] \in Nat /\ Passed[i][2] <= put[Passed[i][1]]
      BY <1>6, <1>9, <1>10
    <3>2. put'[Passed[i][1]] >= put[Passed[i][1]] /\ put'[Passed[i][1]] \in Nat /\ put[Passed[i][1]] \in Nat
      BY <1>8, <3>1
    <3> QED
      BY <1>5, <3>1, <3>2
  <2>2. e[2] <= put'[e[1]]
    BY <1>8
  <2> QED
    BY <1>4, <1>7, <2>1, <2>2 DEF Issued
<1>12. ClearedKnown'
  <2>1. ASSUME NEW x \in cleared PROVE x[2] <= put'[x[1]]
    <3>1. x[1] \in Producers /\ x[2] \in Nat /\ x[2] <= put[x[1]]
      BY <1>9 DEF OrderInv, ClearedKnown, TypeOK
    <3> QED
      BY <1>8, <3>1
  <2> QED
    BY <1>1, <2>1 DEF ClearedKnown
<1>13. ClearedGone'
  <2>1. e \notin cleared
    BY <1>8 DEF OrderInv, ClearedKnown
  <2> QED
    BY <1>1, <1>4, <1>5, <1>7, <2>1 DEF OrderInv, ClearedGone
<1>14. Ascending'
  <2> SUFFICES ASSUME NEW i \in 1 .. Len(Passed'), NEW j \in 1 .. Len(Passed'),
                      i < j, Passed'[i][1] = Passed'[j][1]
               PROVE  Passed'[i][2] < Passed'[j][2]
    BY DEF Ascending
  <2>1. i \in 1 .. Len(Passed)
    BY <1>2
  <2>2. CASE j \in 1 .. Len(Passed)
    BY <1>5, <2>1, <2>2 DEF OrderInv, Ascending
  <2>3. CASE j = Len(Passed')
    <3>1. Passed[i][1] = p /\ Passed[i][2] \in Nat
      BY <1>4, <1>5, <1>6, <1>9, <2>1, <2>3
    <3>2. Passed[i][2] <= put[p]
      BY <1>10, <2>1, <3>1
    <3> QED
      BY <1>4, <1>5, <1>8, <2>1, <2>3, <3>1, <3>2
  <2> QED
    BY <1>7, <2>2, <2>3
<1>15. NoneMissing'
  <2> SUFFICES ASSUME NEW q \in Producers, NEW n \in 1 .. put'[q]
               PROVE  <<q, n>> \in cleared' \/ \E i \in 1 .. Len(Passed') : Passed'[i] = <<q, n>>
    BY DEF NoneMissing
  <2>1. CASE n \in 1 .. put[q]
    BY <1>1, <1>5, <2>1 DEF OrderInv, NoneMissing
  <2>2. CASE q = p /\ n = put[p] + 1
    <3>1. Len(Passed') \in 1 .. Len(Passed')
      BY <1>2
    <3> QED
      BY <1>4, <2>2, <3>1
  <2> QED
    BY <1>8, <2>1, <2>2
<1> QED
  BY <1>11, <1>12, <1>13, <1>14, <1>15 DEF OrderInv

(* clear() throws away the end of the sequence, and nothing before it: no  *)
(* element is there twice.                                                 *)
LEMMA ClearOrder ==
  ASSUME TypeOK, TypeOK', OrderInv, Clear
  PROVE  OrderInv'
<1>0. PassedShape /\ PassedShape'
  BY PassedIsSeq, PTL
<1>1. /\ cleared' = cleared \cup {m_q[i] : i \in 1 .. Len(m_q)}
      /\ m_q' = <<>> /\ popped' = popped /\ put' = put
  BY DEF Clear
<1>2. Len(Passed') = Len(popped) /\ Len(Passed') <= Len(Passed)
  BY <1>0, <1>1 DEF PassedShape
<1>3. ASSUME NEW i \in 1 .. Len(Passed') PROVE i \in 1 .. Len(Passed) /\ Passed'[i] = Passed[i]
  BY <1>0, <1>1, <1>2 DEF PassedShape
<1>4. ASSUME NEW k \in 1 .. Len(m_q)
      PROVE  LET i == Len(popped) + k IN i \in 1 .. Len(Passed) /\ Passed[i] = m_q[k] /\ i > Len(Passed')
  BY <1>0, <1>2 DEF PassedShape
<1>5. ASSUME NEW x \in cleared', x \notin cleared
      PROVE  \E i \in 1 .. Len(Passed) : Passed[i] = x /\ i > Len(Passed')
  BY <1>1, <1>4, <1>5
<1>6. \A i \in 1 .. Len(Passed) : Passed[i] \in Elems
  BY <1>0 DEF PassedShape
<1>7. \A x \in Elems : x[1] \in Producers /\ x[2] \in Nat
  BY ElemsAssumption DEF Elems
<1>8. Issued'
  BY <1>1, <1>3 DEF OrderInv, Issued
<1>9. ClearedKnown'
  BY <1>1, <1>5 DEF OrderInv, Issued, ClearedKnown
<1>10. ClearedGone'
  <2> SUFFICES ASSUME NEW j \in 1 .. Len(Passed'), Passed'[j] \in cleared' PROVE FALSE
    BY DEF ClearedGone
  <2>1. j \in 1 .. Len(Passed) /\ Passed'[j] = Passed[j] /\ Passed[j] \notin cleared
    BY <1>3 DEF OrderInv, ClearedGone
  <2>2. PICK i \in 1 .. Len(Passed) : Passed[i] = Passed[j] /\ i > Len(Passed')
    BY <1>5, <2>1
  <2>3. j < i
    BY <1>0, <1>2, <2>2 DEF PassedShape
  <2>4. Passed[j][2] < Passed[i][2]
    BY <2>1, <2>2, <2>3 DEF OrderInv, Ascending
  <2> QED
    BY <1>6, <1>7, <2>1, <2>2, <2>4
<1>11. Ascending'
  BY <1>3 DEF OrderInv, Ascending
<1>12. NoneMissing'
  <2> SUFFICES ASSUME NEW q \in Producers, NEW n \in 1 .. put[q], <<q, n>> \notin cleared'
               PROVE  \E i \in 1 .. Len(Passed') : Passed'[i] = <<q, n>>
    BY <1>1 DEF NoneMissing
  <2>1. PICK i \in 1 .. Len(Passed) : Passed[i] = <<q, n>>
    BY <1>1 DEF OrderInv, NoneMissing
  <2>2. i <= Len(popped)
    <3>1. CASE ~ (i <= Len(popped))
      <4>1. i - Len(popped) \in 1 .. Len(m_q) /\ Passed[i] = m_q[i - Len(popped)]
        BY <1>0, <3>1 DEF PassedShape
      <4> QED
        BY <1>1, <2>1, <4>1
    <3> QED
      BY <3>1
  <2>3. i \in 1 .. Len(Passed')
    BY <1>2, <2>2
  <2> QED
    BY <1>3, <2>1, <2>3
<1> QED
  BY <1>8, <1>9, <1>10, <1>11, <1>12 DEF OrderInv

LEMMA InitOrder == Init => OrderInv
<1> SUFFICES ASSUME Init PROVE OrderInv
  OBVIOUS
<1>1. PassedShape /\ Len(popped) = 0 /\ Len(m_q) = 0
  BY InitTypeOK, PassedIsSeq DEF Init
<1>2. 1 .. Len(Passed) = {}
  BY <1>1 DEF PassedShape
<1>3. cleared = {} /\ \A p \in Producers : 1 .. put[p] = {}
  BY DEF Init
<1> QED
  BY <1>2, <1>3 DEF OrderInv, Issued, ClearedGone, ClearedKnown, Ascending, NoneMissing

LEMMA NextOrder == TypeOK /\ TypeOK' /\ OrderInv /\ [Next]_vars => OrderInv'
<1> SUFFICES ASSUME TypeOK, TypeOK', OrderInv, [Next]_vars PROVE OrderInv'
  OBVIOUS
<1> USE DEF OrderInv, Issued, ClearedGone, ClearedKnown, Ascending, NoneMissing
<1>1. ASSUME NEW t \in Consumers, Test(t) PROVE OrderInv'
  <2>1. Passed' = Passed /\ put' = put /\ cleared' = cleared
    BY <1>1, TestKeepsPassed DEF Test
  <2> QED
    BY <2>1
<1>2. ASSUME NEW t \in Consumers, CallWaitForPop(t) \/ WakeSpuriously(t) PROVE OrderInv'
  BY <1>2 DEF CallWaitForPop, WakeSpuriously, Passed
<1>3. CASE UNCHANGED vars
  BY <1>3 DEF vars, Passed
<1> QED
  BY EmplaceOrder, ClearOrder, <1>1, <1>2, <1>3 DEF Next

LEMMA OrderIsOnce == TypeOK /\ OrderInv => OnceInOrder
<1> SUFFICES ASSUME TypeOK, OrderInv PROVE OnceInOrder
  OBVIOUS
<1> DEFINE At(s, x) == {i \in 1 .. Len(s) : s[i] = x}
<1>0. PassedShape
  BY PassedIsSeq
<1>1. ASSUME NEW p \in Producers, NEW n \in 1 .. put[p]
      PROVE  Cardinality(At(Passed, <<p, n>>)) = IF <<p, n>> \in cleared THEN 0 ELSE 1
  <2>1. CASE <<p, n>> \in cleared
    <3>1. At(Passed, <<p, n>>) = {}
      BY <2>1 DEF OrderInv, ClearedGone
    <3> QED
      BY <2>1, <3>1, FS_EmptySet
  <2>2. CASE <<p, n>> \notin cleared
    <3>1. PICK i \in 1 .. Len(Passed) : Passed[i] = <<p, n>>
      BY <2>2 DEF OrderInv, NoneMissing
    <3>2. ASSUME NEW j \in 1 .. Len(Passed), Passed[j] = <<p, n>> PROVE j = i
      <4>1. ~ (i < j) /\ ~ (j < i)
        <5>1. n \in Nat
          BY ElemsAssumption DEF TypeOK
        <5>2. Passed[i][1] = p /\ Passed[j][1] = p /\ Passed[i][2] = n /\ Passed[j][2] = n
          BY <3>1, <3>2
        <5> QED
          BY <5>1, <5>2 DEF OrderInv, Ascending
      <4> QED
        BY <1>0, <4>1 DEF PassedShape
    <3>3. At(Passed, <<p, n>>) = {i}
      BY <3>1, <3>2
    <3> QED
      BY <2>2, <3>3, FS_Singleton
  <2> QED
    BY <2>1, <2>2
<1> HIDE DEF At
<1>2. \A i, j \in 1 .. Len(Passed) :
        i < j /\ Passed[i][1] = Passed[j][1] => Passed[i][2] < Passed[j][2]
  BY DEF OrderInv, Ascending
<1> QED
  BY <1>1, <1>2 DEF OnceInOrder, Passed, At

(* Every element that was put in and not cleared is inside the queue or    *)
(* has come out, once; and those of one producer keep their order, however *)
(* many threads put in, take out and clear.                                *)
THEOREM ElementsPassOnceInOrder == Spec => []OnceInOrder
<1>1. Spec => []OrderInv
  BY InitOrder, NextOrder, TypeCorrect, PTL DEF Spec
<1> QED
  BY <1>1, OrderIsOnce, TypeCorrect, PTL
=============================================================================
