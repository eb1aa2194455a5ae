------------------------- MODULE CommunicatorProofs -------------------------
(***************************************************************************)
(* Proofs about Communicator, for messages of any length, with any marks   *)
(* and pieces of marks in them, and for any way to cut what was written    *)
(* into chunks.                                                            *)
(*                                                                         *)
(* The recursive functions of encode_message(), of the loop of             *)
(* try_decode_message() and of the loop around it are first shown to exist *)
(* (RecursionHasSolution); then a frame is shown to be decoded to what was *)
(* encoded, and a part of one to nothing; then what the receiver's buffer  *)
(* and the connection hold is shown to be frames of the messages that were *)
(* not received.                                                           *)
(***************************************************************************)
EXTENDS Communicator, SequenceTheorems, WellFoundedInduction, TLAPS

-----------------------------------------------------------------------------
(* Induction.                                                              *)

(* A non-empty set of naturals has a least member.                         *)
LEMMA LeastNatural ==
  ASSUME NEW T \in SUBSET Nat, T # {}
  PROVE  \E k \in T : \A j \in T : k <= j
<1>1. PICK k \in T : \A j \in T : ~(<<j, k>> \in OpToRel(<, Nat))
  BY NatLessThanWellFounded, WFMin
<1>2. \A j \in T : ~(j < k)
  BY <1>1 DEF OpToRel
<1> QED
  BY <1>2

(* Induction over the naturals, said of a set.                             *)
LEMMA SetInduction ==
  ASSUME NEW T \in SUBSET Nat, 0 \in T, \A n \in T : n + 1 \in T
  PROVE  T = Nat
<1> DEFINE Missing == Nat \ T
<1> SUFFICES ASSUME Missing # {} PROVE FALSE
  OBVIOUS
<1>1. PICK k \in Missing : \A j \in Missing : k <= j
  BY LeastNatural
<1>2. k # 0 /\ k - 1 \in Nat
  BY <1>1
<1>3. k - 1 \in T
  BY <1>1, <1>2
<1>4. k - 1 + 1 = k
  BY <1>1
<1> QED
  BY <1>1, <1>3, <1>4

(* A recursion that goes down along a measure has a solution: F maps an    *)
(* argument and a function to the value that the function should have      *)
(* there, which depends on what it has at smaller arguments.               *)
Descends(X, V, mu, bound, F) ==
  /\ V # {}
  /\ bound \in Nat
  /\ mu \in [X -> Nat]
  /\ \A x \in X : mu[x] < bound
  /\ F \in [X -> [[X -> V] -> V]]
  /\ \A x \in X : \A f, g \in [X -> V] :
       (\A y \in X : mu[y] < mu[x] => f[y] = g[y]) => F[x][f] = F[x][g]

LEMMA RecursionHasSolution ==
  ASSUME NEW X, NEW V, NEW mu, NEW bound, NEW F, Descends(X, V, mu, bound, F)
  PROVE  \E f \in [X -> V] : f = [x \in X |-> F[x][f]]
<1> USE DEF Descends
<1> PICK v \in V : TRUE
  OBVIOUS
<1> DEFINE Upto(n) == \E f \in [X -> V] : \A x \in X : mu[x] < n => f[x] = F[x][f]
           T == {n \in Nat : Upto(n)}
<1>0. \A x \in X : mu[x] \in Nat
  OBVIOUS
<1>1. 0 \in T
  <2>1. [x \in X |-> v] \in [X -> V] /\ \A x \in X : ~ (mu[x] < 0)
    BY <1>0
  <2> QED
    BY <2>1
<1>2. ASSUME NEW n \in T PROVE n + 1 \in T
  <2>1. PICK f \in [X -> V] : \A x \in X : mu[x] < n => f[x] = F[x][f]
    OBVIOUS
  <2> DEFINE g == [x \in X |-> F[x][f]]
  <2>2. g \in [X -> V]
    OBVIOUS
  <2>3. ASSUME NEW x \in X, mu[x] < n + 1 PROVE g[x] = F[x][g]
    <3>1. \A y \in X : mu[y] < mu[x] => f[y] = g[y]
      <4> TAKE y \in X
      <4> HAVE mu[y] < mu[x]
      <4>1. mu[y] < n
        BY <1>0, <2>3
      <4> QED
        BY <2>1, <4>1
    <3>2. F[x][f] = F[x][g]
      BY <2>2, <3>1
    <3> QED
      BY <3>2
  <2>4. \A x \in X : mu[x] < n + 1 => g[x] = F[x][g]
    BY <2>3
  <2> HIDE DEF g
  <2>5. Upto(n + 1)
    BY <2>2, <2>4
  <2>6. n + 1 \in Nat
    OBVIOUS
  <2> QED
    BY <2>5, <2>6
<1>3. bound \in T
  <2> HIDE DEF T
  <2>1. T \in SUBSET Nat
    BY DEF T
  <2> QED
    BY <1>1, <1>2, <2>1, SetInduction
<1>4. PICK f \in [X -> V] : \A x \in X : f[x] = F[x][f]
  BY <1>3
<1> QED
  BY <1>4

(* Induction from the last position of a string to the first.              *)
LEMMA DownInduction ==
  ASSUME NEW n \in Nat, NEW T,
         \A i \in 1 .. n : (\A j \in i + 1 .. n : j \in T) => i \in T
  PROVE  \A i \in 1 .. n : i \in T
<1> DEFINE K == {k \in Nat : \A i \in 1 .. n : n - i < k => i \in T}
<1>1. 0 \in K
  OBVIOUS
<1>2. ASSUME NEW k \in K PROVE k + 1 \in K
  <2>1. k \in Nat /\ \A i \in 1 .. n : n - i < k => i \in T
    OBVIOUS
  <2>2. ASSUME NEW i \in 1 .. n, n - i < k + 1 PROVE i \in T
    <3>1. ASSUME NEW j \in i + 1 .. n PROVE j \in T
      BY <2>1, <2>2
    <3> QED
      BY <3>1
  <2> QED
    BY <2>1, <2>2
<1>3. n \in K
  <2> HIDE DEF K
  <2>1. K \in SUBSET Nat
    BY DEF K
  <2> QED
    BY <1>1, <1>2, <2>1, SetInduction
<1> QED
  BY <1>3

-----------------------------------------------------------------------------
(* What encode_message() makes of a message.                               *)

IsDoubled(msg, d) ==
  d = [i \in 1 .. Len(msg) + 2 |->
         IF i > Len(msg) THEN <<>>
         ELSE IF At(msg, i, postfix) THEN postfix \o postfix \o d[i + 2]
         ELSE <<msg[i]>> \o d[i + 1]]

LEMMA AtMark ==
  ASSUME NEW s \in Seq(Chars), NEW i \in Nat \ {0}
  PROVE  /\ At(s, i, prefix) <=> i + 1 <= Len(s) /\ s[i] = "t" /\ s[i + 1] = "p"
         /\ At(s, i, postfix) <=> i + 1 <= Len(s) /\ s[i] = "t" /\ s[i + 1] = "q"
         /\ At(s, i, endmsg) <=> i + 1 <= Len(s) /\ s[i] = "t" /\ s[i + 1] = "e"
<1> DEFINE t == SubSeq(s, i, i + 1)
<1>1. ASSUME i + 1 <= Len(s)
      PROVE  t \in Seq(Chars) /\ Len(t) = 2 /\ t[1] = s[i] /\ t[2] = s[i + 1]
  <2>1. \A j \in i .. i + 1 : s[j] \in Chars
    BY <1>1, ElementOfSeq
  <2>2. /\ t \in Seq(Chars)
        /\ Len(t) = IF i <= i + 1 THEN i + 1 - i + 1 ELSE 0
        /\ \A j \in 1 .. i + 1 - i + 1 : t[j] = s[i + j - 1]
    BY <2>1, SubSeqProperties
  <2> HIDE DEF t
  <2>3. Len(t) = 2 /\ t[1] = s[i + 1 - 1] /\ t[2] = s[i + 2 - 1]
    BY <2>2
  <2> QED
    BY <2>2, <2>3
<1>2. ASSUME NEW c \in Chars, i + 1 <= Len(s)
      PROVE  t = <<"t", c>> <=> s[i] = "t" /\ s[i + 1] = c
  <2>1. <<"t", c>> \in Seq(Chars) /\ Len(<<"t", c>>) = 2
    BY DEF Chars
  <2> HIDE DEF t
  <2>2. t = <<"t", c>> <=> t[1] = "t" /\ t[2] = c
    BY <1>1, <1>2, <2>1
  <2> QED
    BY <1>1, <1>2, <2>2
<1>3. Len(prefix) = 2 /\ Len(postfix) = 2 /\ Len(endmsg) = 2
  BY DEF prefix, postfix, endmsg
<1>4. i + 2 - 1 = i + 1 /\ {"p", "q", "e"} \subseteq Chars
  BY DEF Chars
<1> QED
  BY <1>2, <1>3, <1>4 DEF At, prefix, postfix, endmsg

LEMMA DoubledExists ==
  ASSUME NEW msg \in Seq(Chars)
  PROVE  \E d : IsDoubled(msg, d)
<1> DEFINE n == Len(msg)
           X == 1 .. n + 2
           V == Seq(Chars)
           mu == [i \in X |-> n + 2 - i]
           bound == n + 2
           Step(i, d) == IF i > n THEN <<>>
                         ELSE IF At(msg, i, postfix) THEN postfix \o postfix \o d[i + 2]
                         ELSE <<msg[i]>> \o d[i + 1]
           F == [i \in X |-> [d \in [X -> V] |-> Step(i, d)]]
<1>1. n \in Nat /\ <<>> \in V /\ mu \in [X -> Nat] /\ bound \in Nat
  OBVIOUS
<1>2. \A i \in X : mu[i] < bound
  BY <1>1
<1>0. \A i \in X : ~ (i > n) => i \in 1 .. Len(msg) /\ i + 1 \in X /\ i + 2 \in X
                            /\ mu[i + 1] < mu[i] /\ mu[i + 2] < mu[i]
  BY <1>1
<1>3. F \in [X -> [[X -> V] -> V]]
  <2> SUFFICES ASSUME NEW i \in X, NEW d \in [X -> V] PROVE Step(i, d) \in V
    OBVIOUS
  <2>1. CASE i > n
    BY <2>1
  <2>2. CASE ~ (i > n)
    <3>1. d[i + 1] \in V /\ d[i + 2] \in V /\ <<msg[i]>> \in V
      <4>1. i \in 1 .. Len(msg) /\ i + 1 \in X /\ i + 2 \in X
        BY <1>0, <2>2
      <4>2. msg[i] \in Chars
        BY <4>1, ElementOfSeq
      <4> HIDE DEF X, n
      <4> QED
        BY <4>1, <4>2
    <3>2. postfix \in V
      BY DEF postfix, Chars
    <3> QED
      BY <2>2, <3>1, <3>2
  <2> QED
    BY <2>1, <2>2
<1>4. \A i \in X : \A f, g \in [X -> V] :
        (\A j \in X : mu[j] < mu[i] => f[j] = g[j]) => F[i][f] = F[i][g]
  <2> TAKE i \in X
  <2> TAKE f, g \in [X -> V]
  <2> HAVE \A j \in X : mu[j] < mu[i] => f[j] = g[j]
  <2>1. ~ (i > n) => f[i + 1] = g[i + 1] /\ f[i + 2] = g[i + 2]
    <3> HIDE DEF X, n, mu
    <3> QED
      BY <1>0
  <2>2. Step(i, f) = Step(i, g)
    BY <2>1
  <2> HIDE DEF Step
  <2> QED
    BY <2>2
<1>5. PICK d \in [X -> V] : d = [i \in X |-> F[i][d]]
  <2> HIDE DEF F, X, V, mu, bound
  <2>1. Descends(X, V, mu, bound, F)
    BY <1>1, <1>2, <1>3, <1>4 DEF Descends
  <2> QED
    BY <2>1, RecursionHasSolution
<1>6. d = [i \in X |-> Step(i, d)]
  <2> HIDE DEF Step
  <2> QED
    BY <1>5
<1> QED
  BY <1>6 DEF IsDoubled

LEMMA EncodeDoubles ==
  ASSUME NEW msg \in Seq(Chars)
  PROVE  \E d : IsDoubled(msg, d) /\ Encode(msg) = prefix \o d[1] \o postfix \o endmsg
<1> DEFINE d == CHOOSE f : IsDoubled(msg, f)
<1>1. IsDoubled(msg, d)
  BY DoubledExists
<1>2. Encode(msg) = prefix \o d[1] \o postfix \o endmsg
  BY DEF Encode, IsDoubled
<1> QED
  BY <1>1, <1>2

LEMMA ConcatTwo ==
  ASSUME NEW a \in Chars, NEW b \in Chars, NEW c \in Chars, NEW d \in Chars
  PROVE  <<a, b>> \o <<c, d>> = <<a, b, c, d>>
<1> DEFINE u == <<a, b>>
           v == <<c, d>>
           w == <<a, b, c, d>>
<1>1. u \in Seq(Chars) /\ v \in Seq(Chars) /\ w \in Seq(Chars)
  OBVIOUS
<1>2. /\ Len(u) = 2 /\ Len(v) = 2 /\ Len(w) = 4
      /\ u[1] = a /\ u[2] = b /\ v[1] = c /\ v[2] = d
      /\ w[1] = a /\ w[2] = b /\ w[3] = c /\ w[4] = d
  OBVIOUS
<1> HIDE DEF u, v, w
<1>3. /\ u \o v \in Seq(Chars) /\ Len(u \o v) = 4
      /\ \A i \in 1 .. 4 : (u \o v)[i] = IF i <= 2 THEN u[i] ELSE v[i - 2]
  <2>1. /\ u \o v \in Seq(Chars) /\ Len(u \o v) = Len(u) + Len(v)
        /\ \A i \in 1 .. Len(u) + Len(v) :
             (u \o v)[i] = IF i <= Len(u) THEN u[i] ELSE v[i - Len(u)]
    BY <1>1, ConcatProperties
  <2>2. Len(u) + Len(v) = 4
    BY <1>2
  <2> QED
    BY <1>2, <2>1, <2>2
<1>4. \A i \in 1 .. 4 : (u \o v)[i] = w[i]
  <2>1. /\ (u \o v)[1] = a /\ (u \o v)[2] = b
        /\ (u \o v)[3] = v[3 - 2] /\ (u \o v)[4] = v[4 - 2]
    BY <1>2, <1>3
  <2>2. (u \o v)[3] = c /\ (u \o v)[4] = d
    BY <1>2, <2>1
  <2> TAKE i \in 1 .. 4
  <2>3. i = 1 \/ i = 2 \/ i = 3 \/ i = 4
    OBVIOUS
  <2> QED
    BY <1>2, <2>1, <2>2, <2>3
<1>5. u \o v = w
  BY <1>1, <1>2, <1>3, <1>4, SeqEqual
<1> QED
  BY <1>5 DEF u, v, w

(* What is left of a frame from position i of the message on.              *)
Framed(d, i) == d[i] \o (postfix \o endmsg)

Ending == <<"t", "q", "t", "e">>

LEMMA DoubledTyped ==
  ASSUME NEW msg \in Seq(Chars), NEW d, IsDoubled(msg, d)
  PROVE  \A i \in 1 .. Len(msg) + 2 : d[i] \in Seq(Chars)
<1> DEFINE n == Len(msg)
           T == {i \in 1 .. n + 2 : d[i] \in Seq(Chars)}
<1>1. n \in Nat /\ postfix \in Seq(Chars)
  BY DEF postfix, Chars
<1>2. ASSUME NEW i \in 1 .. n + 2, \A j \in i + 1 .. n + 2 : j \in T
      PROVE  i \in T
  <2>1. CASE i > n
    <3>1. d[i] = <<>>
      BY <2>1 DEF IsDoubled
    <3>2. d[i] \in Seq(Chars)
      BY <3>1
    <3> QED
      BY <3>2
  <2>2. CASE ~ (i > n)
    <3>1. d[i + 1] \in Seq(Chars) /\ d[i + 2] \in Seq(Chars)
      <4>1. i + 1 \in i + 1 .. n + 2 /\ i + 2 \in i + 1 .. n + 2
        BY <1>1, <2>2
      <4> QED
        BY <1>2, <4>1
    <3>2. msg[i] \in Chars
      BY <2>2, ElementOfSeq
    <3>3. d[i] = IF At(msg, i, postfix) THEN postfix \o postfix \o d[i + 2]
                                        ELSE <<msg[i]>> \o d[i + 1]
      BY <2>2 DEF IsDoubled
    <3>4. d[i] \in Seq(Chars)
      <4> HIDE DEF T, n
      <4>1. <<msg[i]>> \in Seq(Chars)
        BY <3>2
      <4> QED
        BY <1>1, <3>1, <3>3, <4>1
    <3> QED
      BY <3>4
  <2> QED
    BY <2>1, <2>2
<1> QED
  <2>1. n + 2 \in Nat
    BY <1>1
  <2>2. \A i \in 1 .. n + 2 : i \in T
    <3> HIDE DEF T, n
    <3> QED
      BY <1>2, <2>1, DownInduction
  <2> QED
    BY <2>2

(* The frame behind position i: the message's character, or both of a      *)
(* postfix and its double, and the frame behind that; behind the message   *)
(* its ending.                                                             *)
LEMMA FrameUnfolds ==
  ASSUME NEW msg \in Seq(Chars), NEW d, IsDoubled(msg, d),
         NEW i \in 1 .. Len(msg) + 1
  PROVE  /\ Framed(d, i) \in Seq(Chars)
         /\ i > Len(msg) => Framed(d, i) = Ending
         /\ i <= Len(msg) /\ At(msg, i, postfix) =>
              i + 2 \in 1 .. Len(msg) + 1 /\ Framed(d, i) = <<"t", "q", "t", "q">> \o Framed(d, i + 2)
         /\ i <= Len(msg) /\ ~At(msg, i, postfix) =>
              i + 1 \in 1 .. Len(msg) + 1 /\ Framed(d, i) = <<msg[i]>> \o Framed(d, i + 1)
<1> DEFINE n == Len(msg)
<1>1. n \in Nat /\ i \in 1 .. n + 2 /\ i \in Nat \ {0}
  OBVIOUS
<1>2. \A j \in 1 .. n + 2 : d[j] \in Seq(Chars)
  BY DoubledTyped
<1>3. /\ postfix \in Seq(Chars) /\ endmsg \in Seq(Chars) /\ postfix \o endmsg \in Seq(Chars)
      /\ postfix \o endmsg = Ending /\ postfix \o postfix = <<"t", "q", "t", "q">>
      /\ Ending \in Seq(Chars) /\ <<"t", "q", "t", "q">> \in Seq(Chars)
  <2>1. /\ postfix \in Seq(Chars) /\ endmsg \in Seq(Chars)
        /\ Ending \in Seq(Chars) /\ <<"t", "q", "t", "q">> \in Seq(Chars)
    BY DEF postfix, endmsg, Ending, Chars
  <2>2. postfix \o endmsg = Ending
    BY <2>1, ConcatTwo DEF postfix, endmsg, Ending
  <2>3. postfix \o postfix = <<"t", "q", "t", "q">>
    BY <2>1, ConcatTwo DEF postfix
  <2> QED
    BY <2>1, <2>2, <2>3
<1>4. Framed(d, i) \in Seq(Chars)
  BY <1>1, <1>2, <1>3 DEF Framed
<1>5. ASSUME i > n PROVE Framed(d, i) = Ending
  <2>1. d[i] = <<>>
    BY <1>1, <1>5 DEF IsDoubled
  <2> QED
    BY <1>3, <2>1, ConcatEmptySeq DEF Framed
<1>6. ASSUME i <= n, At(msg, i, postfix)
      PROVE  /\ i + 2 \in 1 .. n + 1
             /\ Framed(d, i) = <<"t", "q", "t", "q">> \o Framed(d, i + 2)
  <2>1. i + 2 \in 1 .. n + 1
    BY <1>1, <1>6, AtMark
  <2>2. d[i] = postfix \o postfix \o d[i + 2]
    <3>1. ~ (i > n)
      BY <1>1, <1>6
    <3>2. d[i] = IF At(msg, i, postfix) THEN postfix \o postfix \o d[i + 2]
                                        ELSE <<msg[i]>> \o d[i + 1]
      BY <1>1, <3>1 DEF IsDoubled
    <3> QED
      BY <1>6, <3>2
  <2>3. d[i + 2] \in Seq(Chars)
    BY <1>1, <1>2, <2>1
  <2> QED
    <3> DEFINE u == postfix \o endmsg
               v == postfix \o postfix
               w == d[i + 2]
    <3>1. u \in Seq(Chars) /\ v \in Seq(Chars) /\ w \in Seq(Chars)
      BY <1>3, <2>3
    <3>2. d[i] = v \o w /\ Framed(d, i) = d[i] \o u /\ Framed(d, i + 2) = w \o u
      BY <2>2 DEF Framed
    <3> HIDE DEF u, v, w
    <3>3. (v \o w) \o u = v \o (w \o u)
      BY <3>1, ConcatAssociative
    <3>4. Framed(d, i) = v \o Framed(d, i + 2)
      BY <3>2, <3>3
    <3> QED
      BY <1>3, <2>1, <3>4 DEF v
<1>7. ASSUME i <= n, ~At(msg, i, postfix)
      PROVE  i + 1 \in 1 .. n + 1 /\ Framed(d, i) = <<msg[i]>> \o Framed(d, i + 1)
  <2>1. i + 1 \in 1 .. n + 1
    BY <1>1, <1>7
  <2>2. d[i] = <<msg[i]>> \o d[i + 1]
    <3>1. ~ (i > n)
      BY <1>1, <1>7
    <3>2. d[i] = IF At(msg, i, postfix) THEN postfix \o postfix \o d[i + 2]
                                        ELSE <<msg[i]>> \o d[i + 1]
      BY <1>1, <3>1 DEF IsDoubled
    <3> QED
      BY <1>7, <3>2
  <2>3. d[i + 1] \in Seq(Chars) /\ <<msg[i]>> \in Seq(Chars)
    <3>1. msg[i] \in Chars
      BY <1>1, <1>7, ElementOfSeq
    <3> QED
      BY <1>1, <1>2, <2>1, <3>1
  <2> QED
    <3> DEFINE u == postfix \o endmsg
               v == <<msg[i]>>
               w == d[i + 1]
    <3>1. u \in Seq(Chars) /\ v \in Seq(Chars) /\ w \in Seq(Chars)
      BY <1>3, <2>3
    <3>2. d[i] = v \o w /\ Framed(d, i) = d[i] \o u /\ Framed(d, i + 1) = w \o u
      BY <2>2 DEF Framed
    <3> HIDE DEF u, v, w
    <3>3. (v \o w) \o u = v \o (w \o u)
      BY <3>1, ConcatAssociative
    <3>4. Framed(d, i) = v \o Framed(d, i + 1)
      BY <3>2, <3>3
    <3> QED
      BY <2>1, <3>4 DEF v
<1> QED
  BY <1>4, <1>5, <1>6, <1>7

-----------------------------------------------------------------------------
(* What the loop of try_decode_message() finds.                            *)

Found == [msg : Seq(Chars), next : Nat]

IsScan(buf, S) ==
  S = [i \in 1 .. Len(buf) + 4 |->
        IF i > Len(buf) THEN [msg |-> <<>>, next |-> 0]
        ELSE IF At(buf, i, postfix) /\ At(buf, i + 2, endmsg)
        THEN [msg |-> <<>>, next |-> i + 4]
        ELSE LET step == IF ~At(buf, i, postfix) THEN 1
                         ELSE IF At(buf, i + 2, postfix) THEN 4 ELSE 2
                 tail == S[i + step]
             IN  [tail EXCEPT !.msg = SubSeq(buf, i, i + (IF step = 1 THEN 0 ELSE 1)) \o @]]

(* How far the loop goes on from position i, when it does.                 *)
StepAt(buf, i) ==
  IF ~At(buf, i, postfix) THEN 1 ELSE IF At(buf, i + 2, postfix) THEN 4 ELSE 2

EndsAt(buf, i) == At(buf, i, postfix) /\ At(buf, i + 2, endmsg)

Copied(buf, i) == SubSeq(buf, i, i + (IF StepAt(buf, i) = 1 THEN 0 ELSE 1))

LEMMA CopiedTyped ==
  ASSUME NEW buf \in Seq(Chars), NEW i \in 1 .. Len(buf)
  PROVE  /\ StepAt(buf, i) \in {1, 2, 4}
         /\ StepAt(buf, i) = 1 => Copied(buf, i) = <<buf[i]>>
         /\ StepAt(buf, i) # 1 => Copied(buf, i) = postfix
         /\ Copied(buf, i) \in Seq(Chars)
<1>1. StepAt(buf, i) \in {1, 2, 4} /\ (StepAt(buf, i) = 1 <=> ~At(buf, i, postfix))
  BY DEF StepAt
<1>2. buf[i] \in Chars /\ <<buf[i]>> \in Seq(Chars)
  BY ElementOfSeq
<1>3. ASSUME StepAt(buf, i) = 1 PROVE Copied(buf, i) = <<buf[i]>>
  <2>1. Copied(buf, i) = SubSeq(buf, i, i)
    BY <1>3 DEF Copied
  <2>2. SubSeq(buf, i, i) = <<buf[i]>> \o SubSeq(buf, i + 1, i)
    BY SubSeqRecursiveFirst
  <2>3. SubSeq(buf, i + 1, i) = <<>>
    BY SubSeqEmpty
  <2> QED
    BY <1>2, <2>1, <2>2, <2>3, ConcatEmptySeq
<1>4. ASSUME StepAt(buf, i) # 1 PROVE Copied(buf, i) = postfix
  <2>1. Copied(buf, i) = SubSeq(buf, i, i + 1)
    BY <1>4 DEF Copied
  <2>2. At(buf, i, postfix)
    BY <1>1, <1>4
  <2>3. Len(postfix) = 2 /\ i + 2 - 1 = i + 1
    BY DEF postfix
  <2> QED
    BY <2>1, <2>2, <2>3 DEF At
<1>5. postfix \in Seq(Chars)
  BY DEF postfix, Chars
<1> QED
  BY <1>1, <1>2, <1>3, <1>4, <1>5

LEMMA FoundUpdate ==
  ASSUME NEW r \in Found, NEW s \in Seq(Chars)
  PROVE  /\ [r EXCEPT !.msg = s \o @] = [msg |-> s \o r.msg, next |-> r.next]
         /\ [r EXCEPT !.msg = s \o @] \in Found
<1>1. r.msg \in Seq(Chars) /\ r.next \in Nat /\ r = [msg |-> r.msg, next |-> r.next]
  BY DEF Found
<1>2. s \o r.msg \in Seq(Chars)
  BY <1>1
<1>3. [msg |-> s \o r.msg, next |-> r.next] \in Found
  BY <1>1, <1>2 DEF Found
<1>4. [r EXCEPT !.msg = s \o @] = [msg |-> s \o r.msg, next |-> r.next]
  <2>1. [r EXCEPT !.msg = s \o @] \in Found
    BY <1>2 DEF Found
  <2>2. [r EXCEPT !.msg = s \o @].msg = s \o r.msg /\ [r EXCEPT !.msg = s \o @].next = r.next
    BY DEF Found
  <2> DEFINE u == [r EXCEPT !.msg = s \o @]
  <2> HIDE DEF u
  <2>3. \A w \in Found : w = [msg |-> w.msg, next |-> w.next]
    BY DEF Found
  <2>4. u = [msg |-> u.msg, next |-> u.next]
    BY <2>1, <2>3 DEF u
  <2>5. u.msg = s \o r.msg /\ u.next = r.next
    BY <2>2 DEF u
  <2> QED
    BY <2>4, <2>5 DEF u
<1> QED
  BY <1>3, <1>4

(* The loop stops behind the buffer or at an end ...                       *)
LEMMA ScanStops ==
  ASSUME NEW buf \in Seq(Chars), NEW S, IsScan(buf, S), NEW i \in 1 .. Len(buf) + 4
  PROVE  /\ i > Len(buf) => S[i] = [msg |-> <<>>, next |-> 0]
         /\ i <= Len(buf) /\ EndsAt(buf, i) => S[i] = [msg |-> <<>>, next |-> i + 4]
<1>1. Len(buf) \in Nat
  OBVIOUS
<1>2. /\ i > Len(buf) => S[i] = [msg |-> <<>>, next |-> 0]
      /\ ~ (i > Len(buf)) /\ EndsAt(buf, i) => S[i] = [msg |-> <<>>, next |-> i + 4]
  BY DEF IsScan, EndsAt
<1> QED
  BY <1>1, <1>2

(* ... and otherwise goes on.                                              *)
LEMMA ScanGoesOn ==
  ASSUME NEW buf \in Seq(Chars), NEW S, IsScan(buf, S), NEW i \in 1 .. Len(buf),
         ~EndsAt(buf, i), S[i + StepAt(buf, i)] \in Found
  PROVE  /\ S[i] = [msg  |-> Copied(buf, i) \o S[i + StepAt(buf, i)].msg,
                    next |-> S[i + StepAt(buf, i)].next]
         /\ S[i] \in Found
<1> DEFINE tail == S[i + StepAt(buf, i)]
<1>1. i \in 1 .. Len(buf) + 4 /\ ~ (i > Len(buf))
  OBVIOUS
<1>2. S[i] = [tail EXCEPT !.msg = Copied(buf, i) \o @]
  BY <1>1 DEF IsScan, EndsAt, StepAt, Copied
<1>3. Copied(buf, i) \in Seq(Chars) /\ tail \in Found
  BY CopiedTyped
<1> HIDE DEF tail
<1>4. /\ [tail EXCEPT !.msg = Copied(buf, i) \o @]
           = [msg |-> Copied(buf, i) \o tail.msg, next |-> tail.next]
      /\ [tail EXCEPT !.msg = Copied(buf, i) \o @] \in Found
  BY <1>3, FoundUpdate
<1>5. /\ S[i] = [msg |-> Copied(buf, i) \o tail.msg, next |-> tail.next]
      /\ S[i] \in Found
  BY <1>2, <1>4, Zenon
<1> QED
  BY <1>5 DEF tail

LEMMA ScanExists ==
  ASSUME NEW buf \in Seq(Chars)
  PROVE  \E S : IsScan(buf, S)
<1> DEFINE n == Len(buf)
           X == 1 .. n + 4
           V == Found
           mu == [i \in X |-> n + 4 - i]
           bound == n + 4
           Step(i, S) == IF i > Len(buf) THEN [msg |-> <<>>, next |-> 0]
                         ELSE IF EndsAt(buf, i) THEN [msg |-> <<>>, next |-> i + 4]
                         ELSE [S[i + StepAt(buf, i)] EXCEPT !.msg = Copied(buf, i) \o @]
           F == [i \in X |-> [S \in [X -> V] |-> Step(i, S)]]
<1>1. n \in Nat /\ mu \in [X -> Nat] /\ bound \in Nat
  OBVIOUS
<1>2. \A i \in X : mu[i] < bound
  BY <1>1
<1>3. [msg |-> <<>>, next |-> 0] \in V /\ \A i \in X : [msg |-> <<>>, next |-> i + 4] \in V
  BY <1>1 DEF Found
<1>0. ASSUME NEW i \in X, ~ (i > n)
      PROVE  /\ i \in 1 .. Len(buf) /\ i + StepAt(buf, i) \in X
             /\ mu[i + StepAt(buf, i)] < mu[i]
  <2>1. i \in 1 .. Len(buf)
    BY <1>0, <1>1
  <2>2. StepAt(buf, i) \in {1, 2, 4}
    BY <2>1, CopiedTyped
  <2> QED
    BY <1>1, <2>1, <2>2
<1>4. F \in [X -> [[X -> V] -> V]]
  <2> SUFFICES ASSUME NEW i \in X, NEW S \in [X -> V] PROVE Step(i, S) \in V
    OBVIOUS
  <2>1. CASE i > n
    BY <1>3, <2>1
  <2>2. CASE ~ (i > n)
    <3>1. S[i + StepAt(buf, i)] \in Found
      <4> HIDE DEF X, n, mu
      <4> QED
        BY <1>0, <2>2
    <3>2. Copied(buf, i) \in Seq(Chars)
      BY <1>0, <2>2, CopiedTyped
    <3> DEFINE tail == S[i + StepAt(buf, i)]
    <3>3. [tail EXCEPT !.msg = Copied(buf, i) \o @] \in Found
      <4> HIDE DEF tail, X
      <4> QED
        BY <3>1, <3>2, FoundUpdate DEF tail
    <3> QED
      BY <1>3, <2>2, <3>3
  <2> QED
    BY <2>1, <2>2
<1>5. \A i \in X : \A f, g \in [X -> V] :
        (\A j \in X : mu[j] < mu[i] => f[j] = g[j]) => F[i][f] = F[i][g]
  <2> TAKE i \in X
  <2> TAKE f, g \in [X -> V]
  <2> HAVE \A j \in X : mu[j] < mu[i] => f[j] = g[j]
  <2>1. ~ (i > n) => f[i + StepAt(buf, i)] = g[i + StepAt(buf, i)]
    <3> HIDE DEF X, n, mu
    <3> QED
      BY <1>0
  <2>2. Step(i, f) = Step(i, g)
    BY <2>1
  <2> HIDE DEF Step
  <2> QED
    BY <2>2
<1>6. PICK S \in [X -> V] : S = [i \in X |-> F[i][S]]
  <2> HIDE DEF F, X, V, mu, bound
  <2>0. V # {}
    BY <1>3
  <2>1. Descends(X, V, mu, bound, F)
    BY <1>1, <1>2, <1>4, <1>5, <2>0 DEF Descends
  <2> QED
    BY <2>1, RecursionHasSolution
<1>7. S = [i \in X |-> Step(i, S)]
  <2> HIDE DEF Step
  <2> QED
    BY <1>6
<1> QED
  BY <1>7 DEF IsScan, EndsAt, StepAt, Copied

LEMMA ScanIsScan ==
  ASSUME NEW buf \in Seq(Chars)
  PROVE  \E S : IsScan(buf, S) /\ \A start : Scan(buf, start) = S[start]
<1> DEFINE S == CHOOSE f : IsScan(buf, f)
<1>1. IsScan(buf, S)
  BY ScanExists
<1>2. \A start : Scan(buf, start) = S[start]
  BY DEF Scan, IsScan
<1> QED
  BY <1>1, <1>2

LEMMA ScanTyped ==
  ASSUME NEW buf \in Seq(Chars), NEW S, IsScan(buf, S)
  PROVE  \A i \in 1 .. Len(buf) + 4 : S[i] \in Found
<1> DEFINE n == Len(buf) + 4
           T == {i \in 1 .. n : S[i] \in Found}
<1>1. n \in Nat
  OBVIOUS
<1>2. ASSUME NEW i \in 1 .. n, \A j \in i + 1 .. n : j \in T
      PROVE  i \in T
  <2>0. i \in 1 .. Len(buf) + 4
    OBVIOUS
  <2> HIDE DEF T
  <2>4. S[i] \in Found => i \in T
    BY DEF T
  <2> HIDE DEF n
  <2>1. CASE i > Len(buf)
    <3>1. S[i] = [msg |-> <<>>, next |-> 0]
      BY <2>0, <2>1, ScanStops
    <3>2. [msg |-> <<>>, next |-> 0] \in Found
      BY DEF Found
    <3> QED
      BY <2>4, <3>1, <3>2
  <2>2. CASE i <= Len(buf) /\ EndsAt(buf, i)
    <3>1. S[i] = [msg |-> <<>>, next |-> i + 4]
      BY <2>0, <2>2, ScanStops
    <3>2. [msg |-> <<>>, next |-> i + 4] \in Found
      BY <2>0 DEF Found
    <3> QED
      BY <2>4, <3>1, <3>2
  <2>3. CASE i <= Len(buf) /\ ~EndsAt(buf, i)
    <3> DEFINE tail == S[i + StepAt(buf, i)]
    <3>1. i \in 1 .. Len(buf)
      BY <2>0, <2>3
    <3>2. Copied(buf, i) \in Seq(Chars) /\ StepAt(buf, i) \in {1, 2, 4}
      BY <3>1, CopiedTyped
    <3>3. i + StepAt(buf, i) \in i + 1 .. n
      BY <3>1, <3>2 DEF n
    <3>4. tail \in Found
      BY <1>2, <3>3 DEF T
    <3>5. S[i] \in Found
      BY <2>3, <3>1, <3>4, ScanGoesOn DEF tail
    <3> QED
      BY <2>4, <3>5
  <2> QED
    BY <2>1, <2>2, <2>3
<1>3. \A i \in 1 .. n : i \in T
  <2> HIDE DEF T, n
  <2> QED
    BY <1>1, <1>2, DownInduction
<1> QED
  BY <1>3

-----------------------------------------------------------------------------
(* The loop over a frame, or over the beginning of one.                    *)

(* From position p on, the buffer is e as far as both go.                  *)
Agrees(buf, p, e) ==
  \A j \in 1 .. Len(e) : p + j - 1 <= Len(buf) => buf[p + j - 1] = e[j]

LEMMA AgreesBehind ==
  ASSUME NEW buf \in Seq(Chars), NEW p \in 1 .. Len(buf) + 1,
         NEW a \in Seq(Chars), NEW e \in Seq(Chars), Agrees(buf, p, a \o e)
  PROVE  /\ \A j \in 1 .. Len(a) : p + j - 1 <= Len(buf) => buf[p + j - 1] = a[j]
         /\ Agrees(buf, p + Len(a), e)
<1>1. Len(a) \in Nat /\ Len(e) \in Nat /\ Len(buf) \in Nat
  OBVIOUS
<1>2. /\ Len(a \o e) = Len(a) + Len(e)
      /\ \A j \in 1 .. Len(a) + Len(e) : (a \o e)[j] = IF j <= Len(a) THEN a[j] ELSE e[j - Len(a)]
  BY ConcatProperties
<1>3. ASSUME NEW j \in 1 .. Len(a), p + j - 1 <= Len(buf) PROVE buf[p + j - 1] = a[j]
  <2>1. j \in 1 .. Len(a) + Len(e) /\ j <= Len(a)
    BY <1>1
  <2>2. buf[p + j - 1] = (a \o e)[j]
    BY <1>2, <1>3, <2>1 DEF Agrees
  <2> QED
    BY <1>2, <2>1, <2>2
<1>4. ASSUME NEW j \in 1 .. Len(e), p + Len(a) + j - 1 <= Len(buf)
      PROVE  buf[p + Len(a) + j - 1] = e[j]
  <2> DEFINE k == Len(a) + j
  <2>1. k \in 1 .. Len(a) + Len(e) /\ ~ (k <= Len(a)) /\ k - Len(a) = j
    BY <1>1
  <2>2. p + k - 1 = p + Len(a) + j - 1
    BY <1>1
  <2>3. buf[p + k - 1] = (a \o e)[k]
    BY <1>2, <1>4, <2>1, <2>2 DEF Agrees
  <2> QED
    BY <1>2, <2>1, <2>2, <2>3
<1> QED
  BY <1>3, <1>4 DEF Agrees

(* A mark that the buffer ends in the middle of is not an end.             *)
LEMMA ScanShort ==
  ASSUME NEW buf \in Seq(Chars), NEW S, IsScan(buf, S), NEW p \in 1 .. Len(buf) + 1,
         p + 3 > Len(buf),
         p <= Len(buf) => buf[p] = "t",
         p + 1 <= Len(buf) => buf[p + 1] = "q",
         p + 2 <= Len(buf) => buf[p + 2] = "t"
  PROVE  S[p].next = 0
<1>0. Len(buf) \in Nat /\ p \in Nat \ {0}
  OBVIOUS
<1>1. \A i \in 1 .. Len(buf) + 4 : S[i] \in Found
  BY ScanTyped
<1>2. ASSUME NEW i \in 1 .. Len(buf) + 4, i > Len(buf) PROVE S[i].next = 0
  <2>1. S[i] = [msg |-> <<>>, next |-> 0]
    BY <1>2, ScanStops
  <2> QED
    BY <2>1
<1>3. ASSUME NEW i \in 1 .. Len(buf), i + 3 > Len(buf)
      PROVE  S[i].next = S[i + StepAt(buf, i)].next /\ i + StepAt(buf, i) \in 1 .. Len(buf) + 4
  <2>1. ~EndsAt(buf, i)
    <3>1. i \in Nat \ {0} /\ i + 2 \in Nat \ {0}
      OBVIOUS
    <3>2. ~ (i + 2 + 1 <= Len(buf))
      BY <1>0, <1>3
    <3> QED
      BY <3>1, <3>2, AtMark DEF EndsAt
  <2>2. StepAt(buf, i) \in {1, 2, 4}
    BY CopiedTyped
  <2>3. i + StepAt(buf, i) \in 1 .. Len(buf) + 4
    BY <1>0, <2>2
  <2>4. S[i] = [msg  |-> Copied(buf, i) \o S[i + StepAt(buf, i)].msg,
                next |-> S[i + StepAt(buf, i)].next]
    BY <1>1, <2>1, <2>3, ScanGoesOn
  <2> QED
    BY <2>3, <2>4
<1>4. ASSUME NEW i \in 1 .. Len(buf), i = Len(buf) PROVE S[i].next = 0
  <2>1. S[i].next = S[i + StepAt(buf, i)].next /\ i + StepAt(buf, i) \in 1 .. Len(buf) + 4
    BY <1>0, <1>3, <1>4
  <2>2. i + StepAt(buf, i) > Len(buf)
    BY <1>0, <1>4, CopiedTyped
  <2> QED
    BY <1>2, <2>1, <2>2
<1>5. CASE p > Len(buf)
  BY <1>0, <1>2, <1>5
<1>6. CASE p = Len(buf)
  BY <1>0, <1>4, <1>6
<1>7. CASE p + 1 <= Len(buf)
  <2>1. p \in 1 .. Len(buf) /\ At(buf, p, postfix)
    BY <1>0, <1>7, AtMark
  <2>2. ~At(buf, p + 2, postfix)
    <3>1. p + 2 \in Nat \ {0} /\ ~ (p + 2 + 1 <= Len(buf))
      BY <1>0
    <3> QED
      BY <3>1, AtMark
  <2>3. StepAt(buf, p) = 2
    BY <2>1, <2>2 DEF StepAt
  <2>4. S[p].next = S[p + 2].next /\ p + 2 \in 1 .. Len(buf) + 4
    BY <1>3, <2>1, <2>3
  <2>5. CASE p + 2 > Len(buf)
    BY <1>2, <2>4, <2>5
  <2>6. CASE p + 2 <= Len(buf)
    <3>1. p + 2 \in 1 .. Len(buf) /\ p + 2 = Len(buf)
      BY <1>0, <2>6
    <3> QED
      BY <1>4, <2>4, <3>1
  <2> QED
    BY <1>0, <2>5, <2>6
<1> QED
  BY <1>0, <1>5, <1>6, <1>7

(* A frame is read to its end and no further, its doubles are undone; of a *)
(* part of a frame no end is found.                                        *)
ScansFrom(buf, S, msg, d, i) ==
  \A p \in 1 .. Len(buf) + 1 :
    Agrees(buf, p, Framed(d, i)) =>
      IF p + Len(Framed(d, i)) <= Len(buf) + 1
      THEN S[p] = [msg |-> SubSeq(msg, i, Len(msg)), next |-> p + Len(Framed(d, i))]
      ELSE S[p].next = 0

LEMMA ScanEnding ==
  ASSUME NEW buf \in Seq(Chars), NEW S, IsScan(buf, S),
         NEW msg \in Seq(Chars), NEW d, IsDoubled(msg, d),
         NEW i \in 1 .. Len(msg) + 1, i > Len(msg)
  PROVE  ScansFrom(buf, S, msg, d, i)
<1>1. Framed(d, i) = Ending
  BY FrameUnfolds
<1>2. Len(Ending) = 4 /\ Ending[1] = "t" /\ Ending[2] = "q" /\ Ending[3] = "t" /\ Ending[4] = "e"
  BY DEF Ending
<1> SUFFICES ASSUME NEW p \in 1 .. Len(buf) + 1, Agrees(buf, p, Ending)
             PROVE  IF p + 4 <= Len(buf) + 1
                    THEN S[p] = [msg |-> SubSeq(msg, i, Len(msg)), next |-> p + 4]
                    ELSE S[p].next = 0
  BY <1>1, <1>2 DEF ScansFrom
<1>3. /\ p <= Len(buf) => buf[p] = "t"
      /\ p + 1 <= Len(buf) => buf[p + 1] = "q"
      /\ p + 2 <= Len(buf) => buf[p + 2] = "t"
      /\ p + 3 <= Len(buf) => buf[p + 3] = "e"
  <2>1. \A j \in {1, 2, 3, 4} : p + j - 1 <= Len(buf) => buf[p + j - 1] = Ending[j]
    BY <1>2 DEF Agrees
  <2>2. p + 1 - 1 = p /\ p + 2 - 1 = p + 1 /\ p + 3 - 1 = p + 2 /\ p + 4 - 1 = p + 3
    OBVIOUS
  <2> QED
    BY <1>2, <2>1, <2>2
<1>4. CASE p + 4 <= Len(buf) + 1
  <2>1. p \in Nat \ {0} /\ p + 2 \in Nat \ {0} /\ p + 2 + 1 = p + 3 /\ p + 3 <= Len(buf)
        /\ p + 1 <= Len(buf) /\ p <= Len(buf) /\ p \in 1 .. Len(buf) + 4 /\ p + 2 <= Len(buf)
    BY <1>4
  <2>2. EndsAt(buf, p)
    BY <1>3, <2>1, AtMark DEF EndsAt
  <2>3. S[p] = [msg |-> <<>>, next |-> p + 4]
    BY <2>1, <2>2, ScanStops
  <2>4. SubSeq(msg, i, Len(msg)) = <<>>
    BY SubSeqEmpty
  <2> QED
    BY <1>4, <2>3, <2>4
<1>5. CASE ~ (p + 4 <= Len(buf) + 1)
  <2>1. p + 3 > Len(buf)
    BY <1>5
  <2>2. S[p].next = 0
    BY <1>3, <2>1, ScanShort
  <2> QED
    BY <1>5, <2>2
<1> QED
  BY <1>4, <1>5

(* What a frame begins with.                                               *)
LEMMA FrameFirst ==
  ASSUME NEW msg \in Seq(Chars), NEW d, IsDoubled(msg, d), NEW i \in 1 .. Len(msg) + 1
  PROVE  /\ Len(Framed(d, i)) \in Nat /\ Len(Framed(d, i)) >= 1
         /\ Framed(d, i)[1] = IF i <= Len(msg) THEN msg[i] ELSE "t"
<1>1. /\ Framed(d, i) \in Seq(Chars)
      /\ \A j \in 1 .. Len(msg) + 1 : Framed(d, j) \in Seq(Chars)
  BY FrameUnfolds
<1>2. CASE i > Len(msg)
  <2>1. Framed(d, i) = Ending
    BY <1>2, FrameUnfolds
  <2> QED
    BY <1>2, <2>1 DEF Ending
<1>3. CASE i <= Len(msg) /\ At(msg, i, postfix)
  <2> DEFINE a == <<"t", "q", "t", "q">>
             e == Framed(d, i + 2)
  <2>1. i + 2 \in 1 .. Len(msg) + 1 /\ Framed(d, i) = a \o e
    BY <1>3, FrameUnfolds
  <2>2. a \in Seq(Chars) /\ e \in Seq(Chars) /\ Len(a) = 4 /\ a[1] = "t"
    BY <1>1, <2>1 DEF Chars
  <2>3. msg[i] = "t"
    <3>1. i \in Nat \ {0}
      OBVIOUS
    <3> QED
      BY <1>3, <3>1, AtMark
  <2> HIDE DEF a, e
  <2>4. /\ Len(a \o e) = Len(a) + Len(e)
        /\ \A j \in 1 .. Len(a) + Len(e) : (a \o e)[j] = IF j <= Len(a) THEN a[j] ELSE e[j - Len(a)]
    BY <2>2, ConcatProperties
  <2>5. Len(e) \in Nat
    BY <2>2
  <2>6. Len(a \o e) \in Nat /\ Len(a \o e) >= 1 /\ (a \o e)[1] = "t"
    BY <2>2, <2>4, <2>5
  <2> QED
    BY <1>3, <2>1, <2>3, <2>6
<1>4. CASE i <= Len(msg) /\ ~At(msg, i, postfix)
  <2> DEFINE a == <<msg[i]>>
             e == Framed(d, i + 1)
  <2>1. i + 1 \in 1 .. Len(msg) + 1 /\ Framed(d, i) = a \o e
    BY <1>4, FrameUnfolds
  <2>2. a \in Seq(Chars) /\ e \in Seq(Chars) /\ Len(a) = 1 /\ a[1] = msg[i]
    <3>1. msg[i] \in Chars
      BY <1>4, ElementOfSeq
    <3> QED
      BY <1>1, <2>1, <3>1
  <2> HIDE DEF a, e
  <2>4. /\ Len(a \o e) = Len(a) + Len(e)
        /\ \A j \in 1 .. Len(a) + Len(e) : (a \o e)[j] = IF j <= Len(a) THEN a[j] ELSE e[j - Len(a)]
    BY <2>2, ConcatProperties
  <2>5. Len(e) \in Nat
    BY <2>2
  <2>6. Len(a \o e) \in Nat /\ Len(a \o e) >= 1 /\ (a \o e)[1] = msg[i]
    BY <2>2, <2>4, <2>5
  <2> QED
    BY <1>4, <2>1, <2>6
<1> QED
  BY <1>2, <1>3, <1>4

LEMMA ScanDouble ==
  ASSUME NEW buf \in Seq(Chars), NEW S, IsScan(buf, S),
         NEW msg \in Seq(Chars), NEW d, IsDoubled(msg, d),
         NEW i \in 1 .. Len(msg), At(msg, i, postfix),
         i + 2 \in 1 .. Len(msg) + 1, ScansFrom(buf, S, msg, d, i + 2)
  PROVE  ScansFrom(buf, S, msg, d, i)
<1> DEFINE a == <<"t", "q", "t", "q">>
           e == Framed(d, i + 2)
<1>0. i \in 1 .. Len(msg) + 1 /\ i <= Len(msg)
  OBVIOUS
<1>1. Framed(d, i) = a \o e
  BY <1>0, FrameUnfolds
<1>2. a \in Seq(Chars) /\ e \in Seq(Chars) /\ Len(e) \in Nat
  <2>1. e \in Seq(Chars)
    BY FrameUnfolds
  <2> QED
    BY <2>1 DEF Chars
<1>3. Len(a) = 4 /\ a[1] = "t" /\ a[2] = "q" /\ a[3] = "t" /\ a[4] = "q"
  OBVIOUS
<1> HIDE DEF a, e
<1>4. Len(a \o e) = 4 + Len(e)
  <2>1. Len(a \o e) = Len(a) + Len(e)
    BY <1>2, ConcatProperties
  <2> QED
    BY <1>3, <2>1
<1> SUFFICES ASSUME NEW p \in 1 .. Len(buf) + 1, Agrees(buf, p, a \o e)
             PROVE  IF p + (4 + Len(e)) <= Len(buf) + 1
                    THEN S[p] = [msg |-> SubSeq(msg, i, Len(msg)), next |-> p + (4 + Len(e))]
                    ELSE S[p].next = 0
  BY <1>1, <1>4 DEF ScansFrom
<1>5. /\ p <= Len(buf) => buf[p] = "t"
      /\ p + 1 <= Len(buf) => buf[p + 1] = "q"
      /\ p + 2 <= Len(buf) => buf[p + 2] = "t"
      /\ p + 3 <= Len(buf) => buf[p + 3] = "q"
      /\ Agrees(buf, p + 4, e)
  <2>1. /\ \A j \in 1 .. Len(a) : p + j - 1 <= Len(buf) => buf[p + j - 1] = a[j]
        /\ Agrees(buf, p + Len(a), e)
    BY <1>2, AgreesBehind
  <2>2. \A j \in {1, 2, 3, 4} : p + j - 1 <= Len(buf) => buf[p + j - 1] = a[j]
    BY <1>3, <2>1
  <2>3. p + 1 - 1 = p /\ p + 2 - 1 = p + 1 /\ p + 3 - 1 = p + 2 /\ p + 4 - 1 = p + 3
    OBVIOUS
  <2> QED
    BY <1>3, <2>1, <2>2, <2>3
<1>6. CASE p + 3 > Len(buf)
  <2>1. S[p].next = 0
    BY <1>5, <1>6, ScanShort
  <2>2. ~ (p + (4 + Len(e)) <= Len(buf) + 1)
    BY <1>2, <1>6
  <2> QED
    BY <2>1, <2>2
<1>7. CASE p + 3 <= Len(buf)
  <2>0. /\ p \in Nat \ {0} /\ p + 2 \in Nat \ {0} /\ p + 2 + 1 = p + 3
        /\ p + 1 <= Len(buf) /\ p + 2 <= Len(buf) /\ p <= Len(buf) /\ p \in 1 .. Len(buf)
        /\ p + 4 \in 1 .. Len(buf) + 1 /\ p + 4 \in 1 .. Len(buf) + 4
    BY <1>7
  <2>1. At(buf, p, postfix) /\ At(buf, p + 2, postfix) /\ ~At(buf, p + 2, endmsg)
    BY <1>5, <1>7, <2>0, AtMark
  <2>2. StepAt(buf, p) = 4 /\ ~EndsAt(buf, p)
    BY <2>1 DEF StepAt, EndsAt
  <2>3. Copied(buf, p) = postfix
    BY <2>0, <2>2, CopiedTyped
  <2>4. S[p + 4] \in Found
    BY <2>0, ScanTyped
  <2>5. S[p] = [msg |-> postfix \o S[p + 4].msg, next |-> S[p + 4].next]
    <3>1. S[p + StepAt(buf, p)] \in Found
      BY <2>2, <2>4
    <3>2. S[p] = [msg  |-> Copied(buf, p) \o S[p + StepAt(buf, p)].msg,
                  next |-> S[p + StepAt(buf, p)].next]
      BY <2>0, <2>2, <3>1, ScanGoesOn
    <3> QED
      BY <2>2, <2>3, <3>2
  <2>6. IF p + 4 + Len(e) <= Len(buf) + 1
        THEN S[p + 4] = [msg |-> SubSeq(msg, i + 2, Len(msg)), next |-> p + 4 + Len(e)]
        ELSE S[p + 4].next = 0
    BY <1>5, <2>0 DEF ScansFrom, e
  <2>7. p + (4 + Len(e)) = p + 4 + Len(e)
    BY <1>2
  <2>8. postfix \o SubSeq(msg, i + 2, Len(msg)) = SubSeq(msg, i, Len(msg))
    <3>1. /\ i \in 1 .. Len(msg) + 1 /\ i + 1 \in i - 1 .. Len(msg) /\ Len(msg) \in i + 1 .. Len(msg)
          /\ i + 1 + 1 = i + 2 /\ i + 2 - 1 = i + 1
      OBVIOUS
    <3>2. SubSeq(msg, i, i + 1) \o SubSeq(msg, i + 1 + 1, Len(msg)) = SubSeq(msg, i, Len(msg))
      BY <3>1, ConcatAdjacentSubSeq
    <3>3. SubSeq(msg, i, i + 1) = postfix
      BY <3>1 DEF At, postfix
    <3> QED
      BY <3>1, <3>2, <3>3
  <2>9. CASE p + 4 + Len(e) <= Len(buf) + 1
    <3>1. S[p + 4].msg = SubSeq(msg, i + 2, Len(msg)) /\ S[p + 4].next = p + 4 + Len(e)
      BY <2>6, <2>9
    <3> QED
      BY <2>5, <2>7, <2>8, <2>9, <3>1
  <2>10. CASE ~ (p + 4 + Len(e) <= Len(buf) + 1)
    BY <2>5, <2>6, <2>7, <2>10
  <2> QED
    BY <2>9, <2>10
<1> QED
  BY <1>6, <1>7

LEMMA ScanPlain ==
  ASSUME NEW buf \in Seq(Chars), NEW S, IsScan(buf, S),
         NEW msg \in Seq(Chars), NEW d, IsDoubled(msg, d),
         NEW i \in 1 .. Len(msg), ~At(msg, i, postfix),
         ScansFrom(buf, S, msg, d, i + 1)
  PROVE  ScansFrom(buf, S, msg, d, i)
<1> DEFINE a == <<msg[i]>>
           e == Framed(d, i + 1)
<1>0. i \in Nat \ {0} /\ i \in 1 .. Len(msg) + 1 /\ i + 1 \in 1 .. Len(msg) + 1
  OBVIOUS
<1>1. Framed(d, i) = a \o e
  BY <1>0, FrameUnfolds
<1>2. a \in Seq(Chars) /\ e \in Seq(Chars)
  <2>1. e \in Seq(Chars)
    BY <1>0, FrameUnfolds
  <2>2. msg[i] \in Chars
    BY ElementOfSeq
  <2> QED
    BY <2>1, <2>2
<1>3. Len(a) = 1 /\ a[1] = msg[i]
  OBVIOUS
<1>4. Len(e) \in Nat /\ Len(e) >= 1 /\ e[1] = IF i + 1 <= Len(msg) THEN msg[i + 1] ELSE "t"
  BY <1>0, FrameFirst
<1> HIDE DEF a, e
<1>5. Len(a \o e) = 1 + Len(e)
  <2>1. Len(a \o e) = Len(a) + Len(e)
    BY <1>2, ConcatProperties
  <2> QED
    BY <1>3, <2>1
<1> SUFFICES ASSUME NEW p \in 1 .. Len(buf) + 1, Agrees(buf, p, a \o e)
             PROVE  IF p + (1 + Len(e)) <= Len(buf) + 1
                    THEN S[p] = [msg |-> SubSeq(msg, i, Len(msg)), next |-> p + (1 + Len(e))]
                    ELSE S[p].next = 0
  BY <1>1, <1>5 DEF ScansFrom
<1>6. (p <= Len(buf) => buf[p] = msg[i]) /\ Agrees(buf, p + 1, e)
  <2>1. /\ \A j \in 1 .. Len(a) : p + j - 1 <= Len(buf) => buf[p + j - 1] = a[j]
        /\ Agrees(buf, p + Len(a), e)
    BY <1>2, AgreesBehind
  <2>2. p + 1 - 1 = p /\ 1 \in 1 .. Len(a)
    BY <1>3
  <2> QED
    BY <1>3, <2>1, <2>2
<1>7. CASE p > Len(buf)
  <2>1. p \in 1 .. Len(buf) + 4
    OBVIOUS
  <2>2. S[p] = [msg |-> <<>>, next |-> 0]
    BY <1>7, <2>1, ScanStops
  <2>3. ~ (p + (1 + Len(e)) <= Len(buf) + 1)
    BY <1>4, <1>7
  <2> QED
    BY <2>2, <2>3
<1>8. CASE p <= Len(buf)
  <2>0. /\ p \in Nat \ {0} /\ p \in 1 .. Len(buf) /\ p + 1 \in 1 .. Len(buf) + 1
        /\ p + 1 \in 1 .. Len(buf) + 4
    BY <1>8
  <2>1. ~At(buf, p, postfix)
    <3> SUFFICES ASSUME At(buf, p, postfix) PROVE FALSE
      OBVIOUS
    <3>1. p + 1 <= Len(buf) /\ buf[p] = "t" /\ buf[p + 1] = "q"
      BY <2>0, AtMark
    <3>2. buf[p + 1] = e[1]
      <4>1. 1 \in 1 .. Len(e) /\ p + 1 + 1 - 1 = p + 1
        BY <1>4
      <4> QED
        BY <1>6, <3>1, <4>1 DEF Agrees
    <3>3. i + 1 <= Len(msg) /\ msg[i + 1] = "q" /\ msg[i] = "t"
      BY <1>4, <1>6, <1>8, <3>1, <3>2
    <3> QED
      BY <1>0, <3>3, AtMark
  <2>2. StepAt(buf, p) = 1 /\ ~EndsAt(buf, p)
    BY <2>1 DEF StepAt, EndsAt
  <2>3. Copied(buf, p) = <<msg[i]>>
    BY <1>6, <1>8, <2>0, <2>2, CopiedTyped
  <2>4. S[p + 1] \in Found
    BY <2>0, ScanTyped
  <2>5. S[p] = [msg |-> <<msg[i]>> \o S[p + 1].msg, next |-> S[p + 1].next]
    <3>1. S[p + StepAt(buf, p)] \in Found
      BY <2>2, <2>4
    <3>2. S[p] = [msg  |-> Copied(buf, p) \o S[p + StepAt(buf, p)].msg,
                  next |-> S[p + StepAt(buf, p)].next]
      BY <2>0, <2>2, <3>1, ScanGoesOn
    <3> QED
      BY <2>2, <2>3, <3>2
  <2>6. IF p + 1 + Len(e) <= Len(buf) + 1
        THEN S[p + 1] = [msg |-> SubSeq(msg, i + 1, Len(msg)), next |-> p + 1 + Len(e)]
        ELSE S[p + 1].next = 0
    BY <1>6, <2>0 DEF ScansFrom, e
  <2>7. p + (1 + Len(e)) = p + 1 + Len(e)
    BY <1>4
  <2>8. <<msg[i]>> \o SubSeq(msg, i + 1, Len(msg)) = SubSeq(msg, i, Len(msg))
    BY SubSeqRecursiveFirst
  <2>9. CASE p + 1 + Len(e) <= Len(buf) + 1
    <3>1. S[p + 1].msg = SubSeq(msg, i + 1, Len(msg)) /\ S[p + 1].next = p + 1 + Len(e)
      BY <2>6, <2>9
    <3> QED
      BY <2>5, <2>7, <2>8, <2>9, <3>1
  <2>10. CASE ~ (p + 1 + Len(e) <= Len(buf) + 1)
    BY <2>5, <2>6, <2>7, <2>10
  <2> QED
    BY <2>9, <2>10
<1> QED
  BY <1>7, <1>8

LEMMA ScanFrame ==
  ASSUME NEW buf \in Seq(Chars), NEW S, IsScan(buf, S),
         NEW msg \in Seq(Chars), NEW d, IsDoubled(msg, d)
  PROVE  \A i \in 1 .. Len(msg) + 1 : ScansFrom(buf, S, msg, d, i)
<1> DEFINE n == Len(msg) + 1
           T == {i \in 1 .. n : ScansFrom(buf, S, msg, d, i)}
<1>1. n \in Nat /\ Len(msg) \in Nat
  OBVIOUS
<1>2. ASSUME NEW i \in 1 .. n, \A j \in i + 1 .. n : j \in T
      PROVE  i \in T
  <2> SUFFICES ScansFrom(buf, S, msg, d, i)
    OBVIOUS
  <2>1. CASE i > Len(msg)
    BY <2>1, ScanEnding
  <2>2. CASE i <= Len(msg) /\ At(msg, i, postfix)
    <3>0. i \in 1 .. Len(msg) /\ i \in 1 .. Len(msg) + 1
      BY <2>2
    <3>1. i \in 1 .. Len(msg) /\ i + 2 \in 1 .. Len(msg) + 1
      BY <2>2, <3>0, FrameUnfolds
    <3>2. i + 2 \in i + 1 .. n
      BY <3>1
    <3>3. ScansFrom(buf, S, msg, d, i + 2)
      BY <1>2, <3>2
    <3> QED
      BY <2>2, <3>1, <3>3, ScanDouble
  <2>3. CASE i <= Len(msg) /\ ~At(msg, i, postfix)
    <3>1. i \in 1 .. Len(msg) /\ i + 1 \in i + 1 .. n
      BY <2>3
    <3>2. ScansFrom(buf, S, msg, d, i + 1)
      BY <1>2, <3>1
    <3> QED
      BY <2>3, <3>1, <3>2, ScanPlain
  <2> QED
    BY <1>1, <2>1, <2>2, <2>3
<1>3. \A i \in 1 .. n : i \in T
  <2> HIDE DEF T, n
  <2> QED
    BY <1>1, <1>2, DownInduction
<1> QED
  BY <1>3

-----------------------------------------------------------------------------
(* try_decode_message().                                                   *)

Decoded == [ok : BOOLEAN, msg : Seq(Chars), rest : Seq(Chars)]

LEMMA PrefixFound ==
  ASSUME NEW buf \in Seq(Chars)
  PROVE  /\ FindPrefix(buf) \in 0 .. Len(buf)
         /\ At(buf, 1, prefix) => FindPrefix(buf) = 1
         /\ Len(buf) < 2 => FindPrefix(buf) = 0
<1> DEFINE found == {i \in 1 .. Len(buf) : At(buf, i, prefix)}
<1>0. Len(buf) \in Nat
  OBVIOUS
<1>1. FindPrefix(buf) = IF found = {} THEN 0 ELSE CHOOSE i \in found : \A j \in found : i <= j
  BY DEF FindPrefix
<1>2. \A i \in found : i \in 1 .. Len(buf) /\ i + 1 <= Len(buf)
  BY <1>0, AtMark
<1>3. found \in SUBSET Nat
  OBVIOUS
<1>4. At(buf, 1, prefix) => 1 \in found
  BY <1>0, AtMark
<1> HIDE DEF found
<1>5. CASE found = {}
  BY <1>0, <1>1, <1>4, <1>5
<1>6. CASE found # {}
  <2> DEFINE pos == CHOOSE i \in found : \A j \in found : i <= j
  <2>1. pos \in found /\ \A j \in found : pos <= j
    BY <1>3, <1>6, LeastNatural
  <2>2. FindPrefix(buf) = pos
    BY <1>1, <1>6
  <2> HIDE DEF pos
  <2>3. pos \in 1 .. Len(buf) /\ pos + 1 <= Len(buf)
    BY <1>2, <2>1
  <2>4. 1 \in found => pos = 1
    BY <2>1, <2>3
  <2> QED
    BY <1>0, <1>4, <2>2, <2>3, <2>4
<1> QED
  BY <1>5, <1>6

LEMMA DecodeCases ==
  ASSUME NEW buf \in Seq(Chars)
  PROVE  LET pos  == FindPrefix(buf)
             scan == Scan(buf, pos + 2)
         IN  /\ pos = 0 => Decode(buf) = [ok |-> FALSE, msg |-> <<>>, rest |-> buf]
             /\ pos # 0 => scan \in Found
             /\ pos # 0 /\ scan.next = 0 =>
                  Decode(buf) = [ok |-> FALSE, msg |-> <<>>, rest |-> From(buf, pos)]
             /\ pos # 0 /\ scan.next # 0 =>
                  Decode(buf) = [ok |-> TRUE, msg |-> scan.msg, rest |-> From(buf, scan.next)]
<1> DEFINE pos  == FindPrefix(buf)
           scan == Scan(buf, pos + 2)
<1>1. Decode(buf) = IF pos = 0 THEN [ok |-> FALSE, msg |-> <<>>, rest |-> buf]
                    ELSE IF scan.next = 0
                    THEN [ok |-> FALSE, msg |-> <<>>, rest |-> From(buf, pos)]
                    ELSE [ok |-> TRUE, msg |-> scan.msg, rest |-> From(buf, scan.next)]
  BY DEF Decode
<1>2. scan \in Found
  <2>1. pos + 2 \in 1 .. Len(buf) + 4
    BY PrefixFound
  <2>2. PICK S : IsScan(buf, S) /\ \A start : Scan(buf, start) = S[start]
    BY ScanIsScan
  <2> HIDE DEF pos
  <2> QED
    BY <2>1, <2>2, ScanTyped
<1> HIDE DEF pos, scan
<1>3. /\ pos = 0 => Decode(buf) = [ok |-> FALSE, msg |-> <<>>, rest |-> buf]
      /\ pos # 0 => scan \in Found
      /\ pos # 0 /\ scan.next = 0 =>
           Decode(buf) = [ok |-> FALSE, msg |-> <<>>, rest |-> From(buf, pos)]
      /\ pos # 0 /\ scan.next # 0 =>
           Decode(buf) = [ok |-> TRUE, msg |-> scan.msg, rest |-> From(buf, scan.next)]
  BY <1>1, <1>2
<1> QED
  BY <1>3 DEF pos, scan

LEMMA FromTyped ==
  ASSUME NEW buf \in Seq(Chars), NEW i \in Nat \ {0}
  PROVE  /\ From(buf, i) \in Seq(Chars)
         /\ Len(From(buf, i)) = IF i <= Len(buf) THEN Len(buf) - i + 1 ELSE 0
         /\ \A j \in 1 .. Len(buf) - i + 1 : From(buf, i)[j] = buf[i + j - 1]
<1>1. Len(buf) \in Nat /\ \A j \in i .. Len(buf) : buf[j] \in Chars
  BY ElementOfSeq
<1> QED
  BY <1>1, SubSeqProperties DEF From

LEMMA DecodeTyped ==
  ASSUME NEW buf \in Seq(Chars)
  PROVE  Decode(buf) \in Decoded
<1> DEFINE pos  == FindPrefix(buf)
           scan == Scan(buf, pos + 2)
<1>1. /\ pos = 0 => Decode(buf) = [ok |-> FALSE, msg |-> <<>>, rest |-> buf]
      /\ pos # 0 => scan \in Found
      /\ pos # 0 /\ scan.next = 0 =>
           Decode(buf) = [ok |-> FALSE, msg |-> <<>>, rest |-> From(buf, pos)]
      /\ pos # 0 /\ scan.next # 0 =>
           Decode(buf) = [ok |-> TRUE, msg |-> scan.msg, rest |-> From(buf, scan.next)]
  BY DecodeCases
<1>2. pos \in Nat
  BY PrefixFound
<1> HIDE DEF pos, scan
<1>0. /\ \A m, r \in Seq(Chars) : [ok |-> FALSE, msg |-> m, rest |-> r] \in Decoded
      /\ \A m, r \in Seq(Chars) : [ok |-> TRUE, msg |-> m, rest |-> r] \in Decoded
      /\ <<>> \in Seq(Chars)
  BY DEF Decoded
<1>3. CASE pos = 0
  BY <1>0, <1>1, <1>3
<1>4. CASE pos # 0 /\ scan.next = 0
  <2>1. From(buf, pos) \in Seq(Chars)
    BY <1>2, <1>4, FromTyped
  <2> QED
    BY <1>0, <1>1, <1>4, <2>1
<1>5. CASE pos # 0 /\ scan.next # 0
  <2>1. scan.msg \in Seq(Chars) /\ scan.next \in Nat \ {0}
    BY <1>1, <1>5 DEF Found
  <2>2. From(buf, scan.next) \in Seq(Chars)
    BY <2>1, FromTyped
  <2> QED
    BY <1>0, <1>1, <1>5, <2>1, <2>2
<1> QED
  BY <1>3, <1>4, <1>5

LEMMA EncodeFrames ==
  ASSUME NEW msg \in Seq(Chars)
  PROVE  /\ Encode(msg) \in Seq(Chars) /\ Len(Encode(msg)) \in Nat /\ Len(Encode(msg)) >= 6
         /\ \E d : /\ IsDoubled(msg, d) /\ Framed(d, 1) \in Seq(Chars)
                   /\ Encode(msg) = prefix \o Framed(d, 1)
                   /\ Len(Encode(msg)) = 2 + Len(Framed(d, 1))
<1>1. PICK d : IsDoubled(msg, d) /\ Encode(msg) = prefix \o d[1] \o postfix \o endmsg
  BY EncodeDoubles
<1> DEFINE s == d[1]
           e == Framed(d, 1)
           u == postfix \o endmsg
<1>2. /\ prefix \in Seq(Chars) /\ postfix \in Seq(Chars) /\ endmsg \in Seq(Chars)
      /\ Len(prefix) = 2 /\ Len(postfix) = 2 /\ Len(endmsg) = 2
  BY DEF prefix, postfix, endmsg, Chars
<1>3. s \in Seq(Chars) /\ Len(s) \in Nat
  <2>1. s \in Seq(Chars)
    BY <1>1, DoubledTyped
  <2> QED
    BY <2>1
<1>4. u \in Seq(Chars) /\ Len(u) = 4
  <2>1. Len(u) = Len(postfix) + Len(endmsg) /\ u \in Seq(Chars)
    BY <1>2, ConcatProperties
  <2> QED
    BY <1>2, <2>1
<1>5. e = s \o u
  BY DEF Framed
<1> HIDE DEF s, e, u
<1>6. e \in Seq(Chars) /\ Len(e) = Len(s) + Len(u)
  BY <1>3, <1>4, <1>5, ConcatProperties
<1>7. Encode(msg) = prefix \o e
  <2>1. Encode(msg) = ((prefix \o s) \o postfix) \o endmsg
    BY <1>1 DEF s
  <2>2. prefix \o s \in Seq(Chars)
    BY <1>2, <1>3
  <2>3. ((prefix \o s) \o postfix) \o endmsg = (prefix \o s) \o u
    <3> DEFINE x == prefix \o s
    <3>1. x \in Seq(Chars)
      BY <2>2
    <3> HIDE DEF x
    <3>2. (x \o postfix) \o endmsg = x \o (postfix \o endmsg)
      BY <1>2, <3>1, ConcatAssociative
    <3> QED
      BY <3>2 DEF x, u
  <2>4. (prefix \o s) \o u = prefix \o (s \o u)
    BY <1>2, <1>3, <1>4, ConcatAssociative
  <2> QED
    BY <1>5, <2>1, <2>3, <2>4
<1>8. prefix \o e \in Seq(Chars) /\ Len(prefix \o e) = 2 + Len(e)
  <2>1. prefix \o e \in Seq(Chars) /\ Len(prefix \o e) = Len(prefix) + Len(e)
    BY <1>2, <1>6, ConcatProperties
  <2> QED
    BY <1>2, <2>1
<1>9. Len(e) \in Nat /\ Len(e) >= 4
  BY <1>3, <1>4, <1>6
<1>10. /\ Encode(msg) \in Seq(Chars) /\ Len(Encode(msg)) = 2 + Len(e)
       /\ Len(Encode(msg)) \in Nat /\ Len(Encode(msg)) >= 6
  BY <1>7, <1>8, <1>9
<1> QED
  BY <1>1, <1>6, <1>7, <1>10 DEF e

(* A frame at the front of the buffer is taken out whole, the part of one  *)
(* is left as it is.                                                       *)
LEMMA DecodeFrame ==
  ASSUME NEW buf \in Seq(Chars), NEW msg \in Seq(Chars), Agrees(buf, 1, Encode(msg))
  PROVE  Decode(buf) = IF Len(Encode(msg)) <= Len(buf)
                       THEN [ok |-> TRUE, msg |-> msg, rest |-> From(buf, Len(Encode(msg)) + 1)]
                       ELSE [ok |-> FALSE, msg |-> <<>>, rest |-> buf]
<1>1. Encode(msg) \in Seq(Chars) /\ Len(Encode(msg)) \in Nat /\ Len(Encode(msg)) >= 6
  BY EncodeFrames
<1>2. PICK d : /\ IsDoubled(msg, d) /\ Framed(d, 1) \in Seq(Chars)
               /\ Encode(msg) = prefix \o Framed(d, 1)
               /\ Len(Encode(msg)) = 2 + Len(Framed(d, 1))
  BY EncodeFrames
<1>3. Len(buf) \in Nat
  OBVIOUS
<1>4. CASE Len(buf) < 2
  <2>1. FindPrefix(buf) = 0
    BY <1>4, PrefixFound
  <2>2. Decode(buf) = [ok |-> FALSE, msg |-> <<>>, rest |-> buf]
    BY <2>1, DecodeCases
  <2>3. ~ (Len(Encode(msg)) <= Len(buf))
    BY <1>1, <1>3, <1>4
  <2> QED
    BY <2>2, <2>3
<1>5. CASE Len(buf) >= 2
  <2> DEFINE e == Framed(d, 1)
  <2>1. prefix \in Seq(Chars) /\ Len(prefix) = 2 /\ prefix[1] = "t" /\ prefix[2] = "p"
    BY DEF prefix, Chars
  <2>2. /\ \A j \in 1 .. Len(prefix) : 1 + j - 1 <= Len(buf) => buf[1 + j - 1] = prefix[j]
        /\ Agrees(buf, 1 + Len(prefix), e)
    <3>1. 1 \in 1 .. Len(buf) + 1
      BY <1>3
    <3>2. Agrees(buf, 1, prefix \o e)
      BY <1>2
    <3> HIDE DEF e
    <3> QED
      BY <1>2, <2>1, <3>1, <3>2, AgreesBehind DEF e
  <2>3. buf[1] = "t" /\ buf[2] = "p" /\ Agrees(buf, 3, e)
    <3>1. 1 \in 1 .. Len(prefix) /\ 2 \in 1 .. Len(prefix) /\ 1 + Len(prefix) = 3
      BY <2>1
    <3>2. 1 + 1 - 1 = 1 /\ 1 + 2 - 1 = 2
      OBVIOUS
    <3> QED
      BY <1>3, <1>5, <2>1, <2>2, <3>1, <3>2
  <2>4. FindPrefix(buf) = 1
    <3>1. At(buf, 1, prefix)
      BY <1>3, <1>5, <2>3, AtMark
    <3> QED
      BY <3>1, PrefixFound
  <2>5. PICK S : IsScan(buf, S) /\ \A start : Scan(buf, start) = S[start]
    BY ScanIsScan
  <2>6. Scan(buf, 1 + 2) = S[3]
    BY <2>5
  <2>7. IF 3 + Len(e) <= Len(buf) + 1
        THEN S[3] = [msg |-> SubSeq(msg, 1, Len(msg)), next |-> 3 + Len(e)]
        ELSE S[3].next = 0
    <3>1. 1 \in 1 .. Len(msg) + 1 /\ 3 \in 1 .. Len(buf) + 1
      BY <1>3, <1>5
    <3>2. ScansFrom(buf, S, msg, d, 1)
      BY <1>2, <2>5, <3>1, ScanFrame
    <3> QED
      BY <2>3, <3>1, <3>2 DEF ScansFrom
  <2>8. SubSeq(msg, 1, Len(msg)) = msg
    BY SubSeqFull
  <2>9. 3 + Len(e) = Len(Encode(msg)) + 1 /\ Len(e) \in Nat
    BY <1>1, <1>2
  <2> HIDE DEF e
  <2>10. CASE Len(Encode(msg)) <= Len(buf)
    <3>1. S[3] = [msg |-> msg, next |-> Len(Encode(msg)) + 1]
      BY <1>1, <1>3, <2>7, <2>8, <2>9, <2>10
    <3>2. Scan(buf, 1 + 2).next = Len(Encode(msg)) + 1 /\ Scan(buf, 1 + 2).msg = msg
      BY <2>6, <3>1
    <3>3. Len(Encode(msg)) + 1 # 0
      BY <1>1
    <3> QED
      BY <2>4, <2>10, <3>2, <3>3, DecodeCases
  <2>11. CASE ~ (Len(Encode(msg)) <= Len(buf))
    <3>1. Scan(buf, 1 + 2).next = 0
      BY <1>1, <1>3, <2>6, <2>7, <2>9, <2>11
    <3>2. From(buf, 1) = buf
      BY SubSeqFull DEF From
    <3> QED
      BY <2>4, <2>11, <3>1, <3>2, DecodeCases
  <2> QED
    BY <2>10, <2>11
<1> QED
  BY <1>3, <1>4, <1>5

-----------------------------------------------------------------------------
(* The loop that takes messages out of the buffer.                         *)

Drained == [msgs : Seq(Seq(Chars)), rest : Seq(Chars)]

IsDrain(buf, D) ==
  D = [n \in 0 .. (Len(buf) \div 6) + 1 |->
        IF n = 0 THEN [msgs |-> <<>>, rest |-> buf]
        ELSE LET before == D[n - 1]
                 d      == Decode(before.rest)
             IN  [msgs |-> IF d.ok THEN Append(before.msgs, d.msg) ELSE before.msgs,
                  rest |-> d.rest]]

TakenFrom(before) ==
  LET d == Decode(before.rest)
  IN  [msgs |-> IF d.ok THEN Append(before.msgs, d.msg) ELSE before.msgs, rest |-> d.rest]

LEMMA TakenTyped ==
  ASSUME NEW before \in Drained
  PROVE  TakenFrom(before) \in Drained
<1> DEFINE d == Decode(before.rest)
           ms == IF d.ok THEN Append(before.msgs, d.msg) ELSE before.msgs
<1>1. before.msgs \in Seq(Seq(Chars)) /\ before.rest \in Seq(Chars)
  BY DEF Drained
<1>2. d \in Decoded
  BY <1>1, DecodeTyped
<1>3. d.msg \in Seq(Chars) /\ d.rest \in Seq(Chars)
  BY <1>2 DEF Decoded
<1>4. TakenFrom(before) = [msgs |-> ms, rest |-> d.rest]
  BY DEF TakenFrom
<1> HIDE DEF d
<1>5. ms \in Seq(Seq(Chars))
  BY <1>1, <1>3
<1> HIDE DEF ms
<1> QED
  BY <1>3, <1>4, <1>5 DEF Drained

LEMMA DrainExists ==
  ASSUME NEW buf \in Seq(Chars)
  PROVE  \E D : IsDrain(buf, D)
<1> DEFINE last == (Len(buf) \div 6) + 1
           X == 0 .. last
           V == Drained
           mu == [n \in X |-> n]
           bound == last + 1
           Step(n, D) == IF n = 0 THEN [msgs |-> <<>>, rest |-> buf] ELSE TakenFrom(D[n - 1])
           F == [n \in X |-> [D \in [X -> V] |-> Step(n, D)]]
<1>1. last \in Nat
  <2>1. Len(buf) \in Nat
    OBVIOUS
  <2> QED
    BY <2>1
<1> HIDE DEF last
<1>2. mu \in [X -> Nat] /\ bound \in Nat /\ \A n \in X : mu[n] < bound
  BY <1>1
<1>3. [msgs |-> <<>>, rest |-> buf] \in V
  BY DEF Drained
<1>0. ASSUME NEW n \in X, n # 0 PROVE n - 1 \in X /\ mu[n - 1] < mu[n]
  BY <1>0, <1>1
<1>4. F \in [X -> [[X -> V] -> V]]
  <2> SUFFICES ASSUME NEW n \in X, NEW D \in [X -> V] PROVE Step(n, D) \in V
    OBVIOUS
  <2>1. CASE n = 0
    BY <1>3, <2>1
  <2>2. CASE n # 0
    <3>1. D[n - 1] \in Drained
      <4> HIDE DEF X, mu
      <4> QED
        BY <1>0, <2>2
    <3> QED
      BY <2>2, <3>1, TakenTyped
  <2> QED
    BY <2>1, <2>2
<1>5. \A n \in X : \A f, g \in [X -> V] :
        (\A j \in X : mu[j] < mu[n] => f[j] = g[j]) => F[n][f] = F[n][g]
  <2> TAKE n \in X
  <2> TAKE f, g \in [X -> V]
  <2> HAVE \A j \in X : mu[j] < mu[n] => f[j] = g[j]
  <2>1. n # 0 => f[n - 1] = g[n - 1]
    <3> HIDE DEF X, mu
    <3> QED
      BY <1>0
  <2>2. Step(n, f) = Step(n, g)
    BY <2>1
  <2> HIDE DEF Step
  <2> QED
    BY <2>2
<1>6. PICK D \in [X -> V] : D = [n \in X |-> F[n][D]]
  <2> HIDE DEF F, X, V, mu, bound
  <2>0. V # {}
    BY <1>3
  <2>1. Descends(X, V, mu, bound, F)
    BY <1>2, <1>4, <1>5, <2>0 DEF Descends
  <2> QED
    BY <2>1, RecursionHasSolution
<1>7. D = [n \in X |-> Step(n, D)]
  <2> HIDE DEF Step
  <2> QED
    BY <1>6
<1> QED
  BY <1>7 DEF IsDrain, TakenFrom, last

LEMMA DrainIsDrain ==
  ASSUME NEW buf \in Seq(Chars)
  PROVE  \E D : /\ D[0] = [msgs |-> <<>>, rest |-> buf]
                /\ \A n \in 0 .. Len(buf) \div 6 : D[n + 1] = TakenFrom(D[n])
                /\ Drain(buf) = D[(Len(buf) \div 6) + 1]
<1> DEFINE D == CHOOSE f : IsDrain(buf, f)
           last == (Len(buf) \div 6) + 1
<1>1. IsDrain(buf, D)
  BY DrainExists
<1>2. Drain(buf) = D[last]
  BY DEF Drain, IsDrain
<1>3. Len(buf) \div 6 \in Nat
  <2>1. Len(buf) \in Nat
    OBVIOUS
  <2> QED
    BY <2>1
<1>4. D = [n \in 0 .. last |-> IF n = 0 THEN [msgs |-> <<>>, rest |-> buf]
                               ELSE TakenFrom(D[n - 1])]
  BY <1>1 DEF IsDrain, TakenFrom
<1> HIDE DEF D
<1>5. D[0] = [msgs |-> <<>>, rest |-> buf]
  BY <1>3, <1>4
<1>6. ASSUME NEW n \in 0 .. Len(buf) \div 6 PROVE D[n + 1] = TakenFrom(D[n])
  <2>1. n + 1 \in 0 .. last /\ n + 1 # 0 /\ n + 1 - 1 = n
    BY <1>3
  <2>2. D[n + 1] = TakenFrom(D[n + 1 - 1])
    BY <1>4, <2>1
  <2> QED
    BY <2>1, <2>2
<1> QED
  BY <1>2, <1>5, <1>6

-----------------------------------------------------------------------------
(* What the receiver has yet to take out, as frames.                       *)

(* The part of a frame, from which no message can be taken.                *)
Partial(b) ==
  \E m \in Seq(Chars) : Len(b) < Len(Encode(m)) /\ Agrees(b, 1, Encode(m))

(* rests[i] is what follows the first i of the messages ms; at the end is  *)
(* at most a part of a frame.                                              *)
Frames(ms, w, rests) ==
  /\ w \in Nat /\ ms \in Seq(Seq(Chars)) /\ w <= Len(ms)
  /\ rests \in [0 .. w -> Seq(Chars)]
  /\ \A i \in 1 .. w : rests[i - 1] = Encode(ms[i]) \o rests[i]
  /\ Partial(rests[w])

LEMMA PartialStays ==
  ASSUME NEW b \in Seq(Chars), Partial(b)
  PROVE  Decode(b) = [ok |-> FALSE, msg |-> <<>>, rest |-> b]
<1>1. PICK m \in Seq(Chars) : Len(b) < Len(Encode(m)) /\ Agrees(b, 1, Encode(m))
  BY DEF Partial
<1>2. Len(b) \in Nat /\ Len(Encode(m)) \in Nat
  BY EncodeFrames
<1> QED
  BY <1>1, <1>2, DecodeFrame

LEMMA EmptyPartial == Partial(<<>>)
<1>1. <<>> \in Seq(Chars) /\ Len(<<>>) = 0
  OBVIOUS
<1>2. Len(Encode(<<>>)) \in Nat /\ Len(Encode(<<>>)) >= 6
  BY <1>1, EncodeFrames
<1>3. Agrees(<<>>, 1, Encode(<<>>))
  <2> SUFFICES ASSUME NEW j \in 1 .. Len(Encode(<<>>)) PROVE ~ (1 + j - 1 <= Len(<<>>))
    BY DEF Agrees
  <2> QED
    BY <1>1, <1>2
<1>4. Len(<<>>) < Len(Encode(<<>>))
  BY <1>1, <1>2
<1> QED
  BY <1>1, <1>3, <1>4 DEF Partial

(* What is at the front of two concatenations that are equal.              *)
LEMMA FrontAgrees ==
  ASSUME NEW b \in Seq(Chars), NEW r \in Seq(Chars), NEW e \in Seq(Chars), NEW t \in Seq(Chars),
         b \o r = e \o t
  PROVE  /\ Agrees(b, 1, e)
         /\ Len(e) <= Len(b) => /\ From(b, Len(e) + 1) \in Seq(Chars)
                                /\ Len(From(b, Len(e) + 1)) = Len(b) - Len(e)
                                /\ From(b, Len(e) + 1) \o r = t
<1>0. Len(b) \in Nat /\ Len(r) \in Nat /\ Len(e) \in Nat /\ Len(t) \in Nat
  OBVIOUS
<1>1. /\ Len(b \o r) = Len(b) + Len(r) /\ Len(e \o t) = Len(e) + Len(t)
      /\ \A j \in 1 .. Len(b) + Len(r) : (b \o r)[j] = IF j <= Len(b) THEN b[j] ELSE r[j - Len(b)]
      /\ \A j \in 1 .. Len(e) + Len(t) : (e \o t)[j] = IF j <= Len(e) THEN e[j] ELSE t[j - Len(e)]
  BY ConcatProperties
<1>2. Len(b) + Len(r) = Len(e) + Len(t)
  BY <1>1
<1>3. ASSUME NEW j \in 1 .. Len(e), j <= Len(b) PROVE b[j] = e[j]
  <2>1. j \in 1 .. Len(b) + Len(r) /\ j \in 1 .. Len(e) + Len(t) /\ j <= Len(e)
    BY <1>0, <1>3
  <2> QED
    BY <1>1, <1>3, <2>1
<1>4. Agrees(b, 1, e)
  <2> SUFFICES ASSUME NEW j \in 1 .. Len(e), 1 + j - 1 <= Len(b) PROVE b[1 + j - 1] = e[j]
    BY DEF Agrees
  <2>1. 1 + j - 1 = j
    OBVIOUS
  <2> QED
    BY <1>3, <2>1
<1>5. ASSUME Len(e) <= Len(b)
      PROVE  /\ From(b, Len(e) + 1) \in Seq(Chars)
             /\ Len(From(b, Len(e) + 1)) = Len(b) - Len(e)
             /\ From(b, Len(e) + 1) \o r = t
  <2> DEFINE f == From(b, Len(e) + 1)
  <2>1. /\ f \in Seq(Chars)
        /\ Len(f) = IF Len(e) + 1 <= Len(b) THEN Len(b) - (Len(e) + 1) + 1 ELSE 0
        /\ \A j \in 1 .. Len(b) - (Len(e) + 1) + 1 : f[j] = b[Len(e) + 1 + j - 1]
    <3>1. Len(e) + 1 \in Nat \ {0}
      BY <1>0
    <3> QED
      BY <3>1, FromTyped
  <2> HIDE DEF f
  <2>2. Len(f) = Len(b) - Len(e)
    BY <1>0, <1>5, <2>1
  <2>3. /\ Len(f \o r) = Len(f) + Len(r) /\ f \o r \in Seq(Chars)
        /\ \A j \in 1 .. Len(f) + Len(r) : (f \o r)[j] = IF j <= Len(f) THEN f[j] ELSE r[j - Len(f)]
    BY <2>1, ConcatProperties
  <2>4. Len(f \o r) = Len(t)
    BY <1>0, <1>2, <2>2, <2>3
  <2>5. ASSUME NEW j \in 1 .. Len(t) PROVE (f \o r)[j] = t[j]
    <3> DEFINE k == Len(e) + j
    <3>1. /\ k \in 1 .. Len(b) + Len(r) /\ k \in 1 .. Len(e) + Len(t)
          /\ ~ (k <= Len(e)) /\ k - Len(e) = j /\ j \in 1 .. Len(f) + Len(r)
      BY <1>0, <1>2, <2>2
    <3>2. t[j] = (b \o r)[k]
      BY <1>1, <3>1
    <3>3. CASE j <= Len(f)
      <4>1. k <= Len(b) /\ j \in 1 .. Len(b) - (Len(e) + 1) + 1 /\ Len(e) + 1 + j - 1 = k
        BY <1>0, <2>2, <3>3
      <4>2. f[j] = b[k]
        BY <2>1, <4>1
      <4> QED
        BY <1>1, <2>3, <3>1, <3>2, <3>3, <4>1, <4>2
    <3>4. CASE ~ (j <= Len(f))
      <4>1. ~ (k <= Len(b)) /\ k - Len(b) = j - Len(f)
        BY <1>0, <2>2, <3>4
      <4> QED
        BY <1>1, <2>3, <3>1, <3>2, <3>4, <4>1
    <3> QED
      BY <3>3, <3>4
  <2>6. f \o r = t
    BY <2>3, <2>4, <2>5, SeqEqual
  <2> QED
    BY <2>1, <2>2, <2>6 DEF f
<1> QED
  BY <1>4, <1>5

(* One turn of the loop: the buffer b holds what follows the first j       *)
(* messages, as far as it was received; r has not been.                    *)
Turned(ms, w, rests, j, b, r) ==
  /\ j + 1 \in 0 .. w
  /\ Decode(b).ok = TRUE /\ Decode(b).msg = ms[j + 1]
  /\ Decode(b).rest \in Seq(Chars) /\ Decode(b).rest \o r = rests[j + 1]
  /\ Len(Decode(b).rest) + 6 <= Len(b)

LEMMA DecodeStep ==
  ASSUME NEW ms, NEW w, NEW rests, Frames(ms, w, rests),
         NEW j \in 0 .. w, NEW b \in Seq(Chars), NEW r \in Seq(Chars), b \o r = rests[j]
  PROVE  \/ Partial(b) /\ Decode(b) = [ok |-> FALSE, msg |-> <<>>, rest |-> b]
         \/ Turned(ms, w, rests, j, b, r)
<1>0. w \in Nat /\ Len(b) \in Nat
  BY DEF Frames
<1>1. CASE j = w
  <2>1. PICK m \in Seq(Chars) : Len(rests[w]) < Len(Encode(m)) /\ Agrees(rests[w], 1, Encode(m))
    BY DEF Frames, Partial
  <2>2. Encode(m) \in Seq(Chars) /\ Len(Encode(m)) \in Nat
    BY EncodeFrames
  <2>3. /\ Len(rests[w]) = Len(b) + Len(r)
        /\ \A i \in 1 .. Len(b) + Len(r) : rests[w][i] = IF i <= Len(b) THEN b[i] ELSE r[i - Len(b)]
    <3>1. /\ Len(b \o r) = Len(b) + Len(r)
          /\ \A i \in 1 .. Len(b) + Len(r) : (b \o r)[i] = IF i <= Len(b) THEN b[i] ELSE r[i - Len(b)]
      BY ConcatProperties
    <3>2. rests[w] = b \o r
      BY <1>1
    <3> QED
      BY <3>1, <3>2
  <2>4. Len(r) \in Nat
    OBVIOUS
  <2>5. Agrees(b, 1, Encode(m))
    <3> SUFFICES ASSUME NEW i \in 1 .. Len(Encode(m)), 1 + i - 1 <= Len(b)
                 PROVE  b[1 + i - 1] = Encode(m)[i]
      BY DEF Agrees
    <3>1. 1 + i - 1 = i /\ i <= Len(b) /\ i \in 1 .. Len(b) + Len(r) /\ 1 + i - 1 <= Len(rests[w])
      BY <1>0, <2>2, <2>3, <2>4
    <3>2. rests[w][i] = Encode(m)[i]
      BY <2>1, <3>1 DEF Agrees
    <3> QED
      BY <2>3, <3>1, <3>2
  <2>6. Len(b) < Len(Encode(m))
    BY <1>0, <2>1, <2>2, <2>3, <2>4
  <2>7. Partial(b)
    BY <2>5, <2>6 DEF Partial
  <2> QED
    BY <2>7, PartialStays
<1>2. CASE j # w
  <2> DEFINE m == ms[j + 1]
             e == Encode(m)
             t == rests[j + 1]
  <2>1. j + 1 \in 1 .. w /\ j + 1 \in 0 .. w /\ j + 1 - 1 = j /\ j + 1 \in 1 .. Len(ms)
    BY <1>0, <1>2 DEF Frames
  <2>2. m \in Seq(Chars) /\ t \in Seq(Chars) /\ rests[j] = e \o t
    <3>1. ms \in Seq(Seq(Chars))
      BY DEF Frames
    <3>2. m \in Seq(Chars)
      BY <2>1, <3>1, ElementOfSeq
    <3>3. t \in Seq(Chars)
      BY <2>1 DEF Frames
    <3>4. rests[(j + 1) - 1] = Encode(ms[j + 1]) \o rests[j + 1]
      <4> DEFINE i == j + 1
      <4>1. i \in 1 .. w
        BY <2>1
      <4> HIDE DEF i
      <4>2. rests[i - 1] = Encode(ms[i]) \o rests[i]
        BY <4>1 DEF Frames
      <4> QED
        BY <4>2 DEF i
    <3>5. (j + 1) - 1 = j
      OBVIOUS
    <3> QED
      BY <3>2, <3>3, <3>4, <3>5
  <2> HIDE DEF m, t
  <2>3. e \in Seq(Chars) /\ Len(e) \in Nat /\ Len(e) >= 6
    BY <2>2, EncodeFrames
  <2>7. e = Encode(m)
    OBVIOUS
  <2> HIDE DEF e
  <2>8. b \o r = e \o t
    BY <2>2, <2>7
  <2>4. Agrees(b, 1, e)
    BY <2>2, <2>3, <2>8, FrontAgrees
  <2>5. CASE Len(e) <= Len(b)
    <3>1. Decode(b) = [ok |-> TRUE, msg |-> m, rest |-> From(b, Len(e) + 1)]
      BY <2>2, <2>4, <2>5, <2>7, DecodeFrame
    <3>2. /\ From(b, Len(e) + 1) \in Seq(Chars)
          /\ Len(From(b, Len(e) + 1)) = Len(b) - Len(e)
          /\ From(b, Len(e) + 1) \o r = t
      BY <2>2, <2>3, <2>5, <2>8, FrontAgrees
    <3>3. Len(b) - Len(e) + 6 <= Len(b)
      BY <1>0, <2>3
    <3> DEFINE f == From(b, Len(e) + 1)
    <3> HIDE DEF f
    <3>4. Decode(b).ok = TRUE /\ Decode(b).msg = m /\ Decode(b).rest = f
      BY <3>1 DEF f
    <3>5. Len(f) + 6 <= Len(b) /\ f \in Seq(Chars) /\ f \o r = t
      BY <3>2, <3>3 DEF f
    <3> QED
      BY <2>1, <3>4, <3>5 DEF m, t, Turned
  <2>6. CASE ~ (Len(e) <= Len(b))
    <3>1. Len(b) < Len(e)
      BY <1>0, <2>3, <2>6
    <3>2. Partial(b)
      BY <2>2, <2>4, <2>7, <3>1 DEF Partial
    <3> QED
      BY <3>2, PartialStays
  <2> QED
    BY <2>5, <2>6
<1> QED
  BY <1>1, <1>2

(* What the loop has done when at least q characters were taken: it is     *)
(* behind a message j, or stuck in one.                                    *)
TakenUpto(ms, w, rests, k, b, r, taken, q) ==
  \E j \in k .. w :
    /\ taken.msgs = SubSeq(ms, k + 1, j)
    /\ taken.rest \in Seq(Chars) /\ taken.rest \o r = rests[j]
    /\ Partial(taken.rest) \/ Len(taken.rest) + q <= Len(b)

LEMMA DrainTurn ==
  ASSUME NEW ms, NEW w, NEW rests, Frames(ms, w, rests),
         NEW k \in 0 .. w, NEW b \in Seq(Chars), NEW r \in Seq(Chars),
         NEW q \in Nat, NEW taken, TakenUpto(ms, w, rests, k, b, r, taken, q)
  PROVE  TakenUpto(ms, w, rests, k, b, r, TakenFrom(taken), q + 6)
<1>0. w \in Nat /\ Len(b) \in Nat /\ k \in Nat /\ Len(ms) \in Nat /\ w <= Len(ms)
  BY DEF Frames
<1>1. PICK j \in k .. w :
        /\ taken.msgs = SubSeq(ms, k + 1, j)
        /\ taken.rest \in Seq(Chars) /\ taken.rest \o r = rests[j]
        /\ Partial(taken.rest) \/ Len(taken.rest) + q <= Len(b)
  BY DEF TakenUpto
<1> DEFINE c == taken.rest
           d == Decode(c)
           next == TakenFrom(taken)
<1>2. next.msgs = (IF d.ok THEN Append(taken.msgs, d.msg) ELSE taken.msgs) /\ next.rest = d.rest
  <2>1. next = [msgs |-> IF d.ok THEN Append(taken.msgs, d.msg) ELSE taken.msgs, rest |-> d.rest]
    BY DEF TakenFrom
  <2> HIDE DEF d, next
  <2> QED
    BY <2>1
<1>3. j \in 0 .. w /\ c \in Seq(Chars) /\ c \o r = rests[j]
  BY <1>0, <1>1
<1> HIDE DEF c, next
<1>4. \/ Partial(c) /\ Decode(c) = [ok |-> FALSE, msg |-> <<>>, rest |-> c]
      \/ Turned(ms, w, rests, j, c, r)
  BY <1>3, DecodeStep
<1>5. CASE Partial(c) /\ Decode(c) = [ok |-> FALSE, msg |-> <<>>, rest |-> c]
  <2>1. next.msgs = taken.msgs /\ next.rest = c
    BY <1>2, <1>5
  <2>2. /\ next.msgs = SubSeq(ms, k + 1, j)
        /\ next.rest \in Seq(Chars) /\ next.rest \o r = rests[j]
        /\ Partial(next.rest)
    BY <1>1, <1>3, <1>5, <2>1
  <2> QED
    BY <1>1, <2>2 DEF TakenUpto, next
<1>6. CASE Turned(ms, w, rests, j, c, r)
  <2>0. /\ j + 1 \in 0 .. w
        /\ d.ok = TRUE /\ d.msg = ms[j + 1]
        /\ d.rest \in Seq(Chars) /\ d.rest \o r = rests[j + 1]
        /\ Len(d.rest) + 6 <= Len(c)
    BY <1>6 DEF Turned
  <2>6. j + 1 \in 0 .. w /\ j \in k .. w
    BY <2>0
  <2>1. ~Partial(c)
    <3> SUFFICES ASSUME Partial(c) PROVE FALSE
      OBVIOUS
    <3>1. Decode(c) = [ok |-> FALSE, msg |-> <<>>, rest |-> c]
      BY <1>3, PartialStays
    <3> QED
      BY <2>0, <3>1
  <2> HIDE DEF d
  <2>2. next.msgs = SubSeq(ms, k + 1, j + 1)
    <3>1. k + 1 \in 1 .. Len(ms) /\ j + 1 \in k + 1 .. Len(ms) /\ j + 1 - 1 = j /\ j + 1 \in 1 .. Len(ms)
      BY <1>0, <2>6
    <3>2. ms \in Seq(Seq(Chars))
      BY DEF Frames
    <3>3. SubSeq(ms, k + 1, j + 1) = SubSeq(ms, k + 1, (j + 1) - 1) \o <<ms[j + 1]>>
      <4> DEFINE m == k + 1
                 n == j + 1
      <4>1. m \in 1 .. Len(ms) /\ n \in m .. Len(ms)
        BY <3>1
      <4> HIDE DEF m, n
      <4>2. SubSeq(ms, m, n) = SubSeq(ms, m, n - 1) \o <<ms[n]>>
        BY <3>2, <4>1, SubSeqRecursiveSecond
      <4> QED
        BY <4>2 DEF m, n
    <3>4. SubSeq(ms, k + 1, j) \in Seq(Seq(Chars)) /\ ms[j + 1] \in Seq(Chars)
      <4>1. \A i \in 1 .. Len(ms) : ms[i] \in Seq(Chars)
        BY <3>2, ElementOfSeq
      <4>2. \A i \in k + 1 .. j : ms[i] \in Seq(Chars)
        BY <1>0, <1>1, <3>1, <4>1
      <4>3. k + 1 \in Int /\ j \in Int
        BY <1>0, <1>1
      <4>4. SubSeq(ms, k + 1, j) \in Seq(Seq(Chars))
        BY <4>2, <4>3, SubSeqProperties
      <4> QED
        BY <3>1, <4>1, <4>4
    <3>5. Append(SubSeq(ms, k + 1, j), ms[j + 1]) = SubSeq(ms, k + 1, j) \o <<ms[j + 1]>>
      BY <3>4, AppendIsConcat
    <3>6. next.msgs = Append(SubSeq(ms, k + 1, j), ms[j + 1])
      BY <1>1, <1>2, <2>0
    <3> QED
      BY <3>1, <3>3, <3>5, <3>6
  <2>3. Len(next.rest) + (q + 6) <= Len(b)
    <3>1. Len(d.rest) \in Nat /\ Len(c) \in Nat
      BY <1>3, <2>0
    <3>2. Len(c) + q <= Len(b)
      BY <1>1, <2>1 DEF c
    <3> QED
      <4>1. Len(d.rest) + 6 <= Len(c) /\ next.rest = d.rest
        BY <1>2, <2>0
      <4> DEFINE x == Len(d.rest)
                 y == Len(c)
                 z == Len(b)
      <4>2. x \in Nat /\ y \in Nat /\ z \in Nat /\ x + 6 <= y /\ y + q <= z
        BY <1>0, <3>1, <3>2, <4>1
      <4> HIDE DEF x, y, z
      <4>3. x + (q + 6) <= z
        BY <4>2
      <4> QED
        BY <4>1, <4>3 DEF x, z
  <2>4. j + 1 \in k .. w
    BY <1>0, <2>6
  <2>5. next.rest \in Seq(Chars) /\ next.rest \o r = rests[j + 1]
    BY <1>2, <2>0
  <2> QED
    BY <2>2, <2>3, <2>4, <2>5 DEF TakenUpto, next
<1> QED
  BY <1>4, <1>5, <1>6

(* The loop takes out all that is complete.                                *)
AllTaken(ms, w, rests, k, r, taken, j) ==
  /\ taken.msgs = SubSeq(ms, k + 1, j)
  /\ taken.rest \in Seq(Chars) /\ taken.rest \o r = rests[j]
  /\ Partial(taken.rest)

LEMMA DrainFrames ==
  ASSUME NEW ms, NEW w, NEW rests, NEW k, NEW b, NEW r,
         Frames(ms, w, rests), k \in 0 .. w, b \in Seq(Chars), r \in Seq(Chars),
         rests[k] = b \o r
  PROVE  \E j \in k .. w : AllTaken(ms, w, rests, k, r, Drain(b), j)
<1> DEFINE last == Len(b) \div 6
           Done(taken, q) == TakenUpto(ms, w, rests, k, b, r, taken, q)
<1>0. w \in Nat /\ k \in Nat /\ Len(b) \in Nat /\ last \in Nat /\ 6 * (last + 1) > Len(b)
  <2>1. Len(b) \in Nat
    OBVIOUS
  <2> QED
    BY <2>1 DEF Frames
<1>1. PICK D : /\ D[0] = [msgs |-> <<>>, rest |-> b]
               /\ \A n \in 0 .. last : D[n + 1] = TakenFrom(D[n])
               /\ Drain(b) = D[last + 1]
  BY DrainIsDrain
<1> HIDE DEF last, Done
<1> DEFINE T == {n \in Nat : n <= last + 1 => Done(D[n], 6 * n)}
<1>2. 0 \in T
  <2>1. k \in k .. w /\ SubSeq(ms, k + 1, k) = <<>> /\ Len(b) + 6 * 0 <= Len(b)
    BY <1>0, SubSeqEmpty
  <2>2. D[0].msgs = <<>> /\ D[0].rest = b
    BY <1>1
  <2>3. Done(D[0], 6 * 0)
    BY <2>1, <2>2 DEF Done, TakenUpto
  <2> QED
    BY <2>3
<1>3. ASSUME NEW n \in T PROVE n + 1 \in T
  <2>1. n \in Nat /\ n + 1 \in Nat /\ 6 * n \in Nat /\ 6 * (n + 1) = 6 * n + 6
    <3>1. n \in Nat
      OBVIOUS
    <3> QED
      BY <3>1
  <2> SUFFICES ASSUME n + 1 <= last + 1 PROVE Done(D[n + 1], 6 * n + 6)
    BY <2>1
  <2>2. n \in 0 .. last /\ n <= last + 1
    BY <1>0, <2>1
  <2>3. Done(D[n], 6 * n)
    BY <2>2
  <2>4. D[n + 1] = TakenFrom(D[n])
    BY <1>1, <2>2
  <2> HIDE DEF T
  <2>5. Done(TakenFrom(D[n]), 6 * n + 6)
    BY <2>1, <2>3, DrainTurn DEF Done
  <2> QED
    BY <2>4, <2>5
<1>4. Done(D[last + 1], 6 * (last + 1))
  <2>1. last + 1 \in T
    <3> HIDE DEF T
    <3>1. T \in SUBSET Nat
      BY DEF T
    <3>2. T = Nat
      BY <1>2, <1>3, <3>1, SetInduction
    <3> QED
      BY <1>0, <3>2
  <2> QED
    BY <1>0, <2>1
<1> DEFINE taken == Drain(b)
           q == 6 * (last + 1)
<1>5. Done(taken, q) /\ q \in Nat /\ q > Len(b)
  BY <1>0, <1>1, <1>4
<1> HIDE DEF taken, q
<1>6. PICK j \in k .. w :
        /\ taken.msgs = SubSeq(ms, k + 1, j)
        /\ taken.rest \in Seq(Chars) /\ taken.rest \o r = rests[j]
        /\ Partial(taken.rest) \/ Len(taken.rest) + q <= Len(b)
  BY <1>5 DEF Done, TakenUpto
<1>7. Len(taken.rest) \in Nat
  BY <1>6
<1>8. Partial(taken.rest)
  BY <1>0, <1>5, <1>6, <1>7
<1> QED
  BY <1>6, <1>8 DEF taken, AllTaken

-----------------------------------------------------------------------------
(* The connection.                                                         *)

TypeInv ==
  /\ sent \in Seq(Messages) /\ received \in Seq(Messages)
  /\ finished \in BOOLEAN
  /\ wire \in Seq(Chars) /\ buffer \in Seq(Chars)

(* How many messages were written whole.                                   *)
Whole == IF finished THEN Len(sent) - 1 ELSE Len(sent)

(* What was written and not yet taken out are the frames of the messages   *)
(* that were sent and not yet received, the last of which may be cut short *)
(* by the sender's end; and what is in the buffer is less than a frame.    *)
FramesInv ==
  \E rests :
    /\ Frames(sent, Whole, rests)
    /\ ~finished => rests[Whole] = <<>>
    /\ Len(received) <= Whole /\ received = SubSeq(sent, 1, Len(received))
    /\ rests[Len(received)] = buffer \o wire
    /\ Partial(buffer)

LEMMA MessagesAreStrings == Seq(Messages) \subseteq Seq(Seq(Chars))
BY MessagesAssumption, SeqMonotonic

LEMMA ConcatThree ==
  ASSUME NEW a \in Seq(Chars), NEW b \in Seq(Chars), NEW c \in Seq(Chars)
  PROVE  (a \o b) \o c = a \o (b \o c) /\ a \o b \in Seq(Chars)
BY ConcatAssociative

(* All the messages were written whole.                                    *)
Complete(ms, w, rests) ==
  w = Len(ms) /\ Frames(ms, w, rests) /\ rests[w] = <<>>

Extended(mm, w, rests, x, ext) ==
  /\ ext \in [0 .. w -> Seq(Chars)] /\ ext[w] = x
  /\ \A i \in 0 .. w : ext[i] = rests[i] \o x
  /\ \A i \in 1 .. w : ext[i - 1] = Encode(mm[i]) \o ext[i]

(* ext is rests with x behind every part, for the messages mm.             *)
Behind(mm, v, w, rests, x, ext) ==
  /\ Frames(mm, v, ext)
  /\ \A i \in 0 .. w : ext[i] = rests[i] \o x

(* More characters behind the frames.                                      *)
LEMMA FramesExtended ==
  ASSUME NEW ms \in Seq(Messages), NEW m \in Messages, NEW rests, NEW x \in Seq(Chars),
         NEW w, Complete(ms, w, rests)
  PROVE  /\ Append(ms, m) \in Seq(Seq(Chars)) /\ Len(Append(ms, m)) = w + 1
         /\ Append(ms, m)[w + 1] = m
         /\ \E ext : Extended(Append(ms, m), w, rests, x, ext)
<1> DEFINE ext == [i \in 0 .. w |-> rests[i] \o x]
           mm == Append(ms, m)
<1>1. w = Len(ms) /\ Frames(ms, w, rests) /\ rests[w] = <<>>
  BY DEF Complete
<1>2. w \in Nat /\ ms \in Seq(Seq(Chars)) /\ m \in Seq(Chars)
  BY <1>1, MessagesAreStrings, MessagesAssumption
<1>3. /\ mm \in Seq(Seq(Chars)) /\ Len(mm) = w + 1 /\ mm[w + 1] = m
      /\ \A i \in 1 .. w : mm[i] = ms[i]
  BY <1>1, <1>2, AppendProperties
<1>4. \A i \in 0 .. w : rests[i] \in Seq(Chars)
  BY <1>1 DEF Frames
<1>5. ext \in [0 .. w -> Seq(Chars)]
  BY <1>4
<1>6. ext[w] = x
  BY <1>1, <1>2, ConcatEmptySeq
<1>7. \A i \in 0 .. w : ext[i] = rests[i] \o x
  OBVIOUS
<1> HIDE DEF ext, mm
<1>8. ASSUME NEW i \in 1 .. w PROVE ext[i - 1] = Encode(mm[i]) \o ext[i]
  <2>1. i \in 0 .. w /\ i - 1 \in 0 .. w
    BY <1>2
  <2>2. rests[i - 1] = Encode(ms[i]) \o rests[i]
    BY <1>1 DEF Frames
  <2> DEFINE e == Encode(ms[i])
             r == rests[i]
  <2>3. e \in Seq(Chars) /\ r \in Seq(Chars)
    <3>1. ms[i] \in Seq(Chars)
      BY <1>1, <1>2, ElementOfSeq
    <3> QED
      BY <1>4, <2>1, <3>1, EncodeFrames
  <2> HIDE DEF e, r
  <2>4. (e \o r) \o x = e \o (r \o x)
    BY <2>3, ConcatThree
  <2>5. ext[i - 1] = rests[i - 1] \o x /\ ext[i] = rests[i] \o x /\ mm[i] = ms[i]
    BY <1>3, <1>7, <2>1
  <2> QED
    BY <2>2, <2>4, <2>5 DEF e, r
<1>9. Extended(mm, w, rests, x, ext)
  BY <1>5, <1>6, <1>7, <1>8 DEF Extended
<1> QED
  BY <1>3, <1>9 DEF mm

(* ... a part of the next frame ...                                        *)
LEMMA FramesCut ==
  ASSUME NEW ms \in Seq(Messages), NEW m \in Messages, NEW rests, NEW x \in Seq(Chars),
         NEW w, Complete(ms, w, rests), Partial(x)
  PROVE  \E ext : Behind(Append(ms, m), w, w, rests, x, ext)
<1> DEFINE mm == Append(ms, m)
<1>1. PICK ext : Extended(mm, w, rests, x, ext)
  BY FramesExtended
<1>2. mm \in Seq(Seq(Chars)) /\ Len(mm) = w + 1
  BY FramesExtended
<1> HIDE DEF mm
<1>3. w \in Nat /\ w <= Len(mm)
  BY <1>2 DEF Complete, Frames
<1>4. Frames(mm, w, ext)
  BY <1>1, <1>2, <1>3 DEF Frames, Extended
<1> QED
  BY <1>1, <1>4 DEF mm, Extended, Behind

(* ... or the whole of it.                                                 *)
LEMMA FramesWhole ==
  ASSUME NEW ms \in Seq(Messages), NEW m \in Messages, NEW rests,
         NEW w, Complete(ms, w, rests)
  PROVE  \E ext : /\ Behind(Append(ms, m), w + 1, w, rests, Encode(m), ext)
                  /\ ext[w + 1] = <<>>
<1> DEFINE mm == Append(ms, m)
           x == Encode(m)
<1>1. w \in Nat /\ x \in Seq(Chars)
  <2>1. m \in Seq(Chars)
    BY MessagesAssumption
  <2> QED
    BY <2>1, EncodeFrames DEF Complete, Frames
<1>2. mm \in Seq(Seq(Chars)) /\ Len(mm) = w + 1 /\ mm[w + 1] = m
  BY <1>1, FramesExtended
<1> HIDE DEF x
<1>3. PICK ext : Extended(mm, w, rests, x, ext)
  BY <1>1, FramesExtended
<1>4. /\ ext \in [0 .. w -> Seq(Chars)] /\ ext[w] = x
      /\ \A i \in 0 .. w : ext[i] = rests[i] \o x
      /\ \A i \in 1 .. w : ext[i - 1] = Encode(mm[i]) \o ext[i]
  BY <1>3 DEF Extended
<1> DEFINE more == [i \in 0 .. w + 1 |-> IF i <= w THEN ext[i] ELSE <<>>]
<1>5. <<>> \in Seq(Chars) /\ \A i \in 0 .. w : ext[i] \in Seq(Chars)
  <2>1. \A i \in 0 .. w : ext[i] \in Seq(Chars)
    BY <1>3 DEF Extended
  <2> QED
    BY <2>1
<1>6. more \in [0 .. w + 1 -> Seq(Chars)]
  <2> SUFFICES ASSUME NEW i \in 0 .. w + 1
               PROVE (IF i <= w THEN ext[i] ELSE <<>>) \in Seq(Chars)
    OBVIOUS
  <2>1. i <= w => i \in 0 .. w
    BY <1>1
  <2> QED
    BY <1>5, <2>1
<1>7. more[w + 1] = <<>>
  <2>1. w + 1 \in 0 .. w + 1 /\ ~ (w + 1 <= w)
    BY <1>1
  <2> QED
    BY <2>1
<1>8. \A i \in 0 .. w : more[i] = ext[i]
  <2> SUFFICES ASSUME NEW i \in 0 .. w PROVE more[i] = ext[i]
    OBVIOUS
  <2>1. i \in 0 .. w + 1 /\ i <= w
    BY <1>1
  <2> QED
    BY <2>1
<1> HIDE DEF more, mm
<1>9. ASSUME NEW i \in 1 .. w + 1 PROVE more[i - 1] = Encode(mm[i]) \o more[i]
  <2>1. CASE i <= w
    <3>1. i \in 1 .. w /\ i \in 0 .. w /\ i - 1 \in 0 .. w
      BY <1>1, <2>1
    <3> QED
      BY <1>4, <1>8, <3>1
  <2>2. CASE i = w + 1
    <3>1. i - 1 = w /\ w \in 0 .. w
      BY <1>1, <2>2
    <3>2. more[i - 1] = x /\ mm[i] = m /\ more[i] = <<>>
      BY <1>2, <1>4, <1>7, <1>8, <2>2, <3>1
    <3>3. x \o <<>> = x
      BY <1>1, ConcatEmptySeq
    <3> QED
      BY <3>2, <3>3 DEF x
  <2>3. i <= w \/ i = w + 1
    BY <1>1
  <2> QED
    BY <2>1, <2>2, <2>3
<1>10. w + 1 \in Nat /\ w + 1 <= Len(mm)
  BY <1>1, <1>2
<1>11. Frames(mm, w + 1, more)
  <2> DEFINE v == w + 1
  <2>1. /\ v \in Nat /\ mm \in Seq(Seq(Chars)) /\ v <= Len(mm)
        /\ more \in [0 .. v -> Seq(Chars)] /\ more[v] = <<>>
        /\ \A i \in 1 .. v : more[i - 1] = Encode(mm[i]) \o more[i]
    BY <1>2, <1>6, <1>7, <1>9, <1>10
  <2> HIDE DEF v
  <2>2. Frames(mm, v, more)
    BY <2>1, EmptyPartial DEF Frames
  <2> QED
    BY <2>2 DEF v
<1>12. \A i \in 0 .. w : more[i] = rests[i] \o x
  BY <1>4, <1>8
<1> QED
  BY <1>7, <1>11, <1>12 DEF mm, x, Behind

LEMMA InitFrames == Init => TypeInv /\ FramesInv
<1> SUFFICES ASSUME Init PROVE TypeInv /\ FramesInv
  OBVIOUS
<1>1. TypeInv
  <2>1. <<>> \in Seq(Messages) /\ <<>> \in Seq(Chars)
    OBVIOUS
  <2> QED
    BY <2>1 DEF Init, TypeInv
<1> DEFINE rests == [i \in 0 .. 0 |-> <<>>]
<1>2. sent = <<>> /\ received = <<>> /\ wire = <<>> /\ buffer = <<>> /\ Whole = 0
      /\ Len(sent) = 0 /\ Len(received) = 0
  BY DEF Init, Whole
<1>3. rests \in [0 .. 0 -> Seq(Chars)] /\ rests[0] = <<>>
  OBVIOUS
<1> HIDE DEF rests
<1>4. <<>> \in Seq(Seq(Chars))
  OBVIOUS
<1>5. Frames(sent, Whole, rests)
  BY <1>2, <1>3, <1>4, EmptyPartial DEF Frames
<1>6. /\ Len(received) <= Whole /\ received = SubSeq(sent, 1, Len(received))
      /\ rests[Len(received)] = buffer \o wire
  <2>1. SubSeq(sent, 1, 0) = <<>> /\ <<>> \o <<>> = <<>>
    BY SubSeqEmpty, ConcatEmptySeq
  <2> QED
    BY <1>2, <1>3, <2>1
<1>7. FramesInv
  BY <1>2, <1>3, <1>5, <1>6, EmptyPartial DEF FramesInv
<1> QED
  BY <1>1, <1>7

(* Both ways to send: x was written of the message's frame.                *)
LEMMA SendFrames ==
  ASSUME TypeInv, FramesInv, ~finished, NEW m \in Messages, NEW x \in Seq(Chars),
         sent' = Append(sent, m), wire' = wire \o x, UNCHANGED <<buffer, received>>,
         \/ finished' = TRUE /\ Partial(x)
         \/ finished' = finished /\ x = Encode(m)
  PROVE  TypeInv' /\ FramesInv'
<1> DEFINE w == Len(sent)
           k == Len(received)
<1>1. w \in Nat /\ k \in Nat /\ sent \in Seq(Messages) /\ received \in Seq(Messages)
      /\ buffer \in Seq(Chars) /\ wire \in Seq(Chars)
  BY DEF TypeInv
<1>2. TypeInv'
  <2>1. finished' \in BOOLEAN
    BY DEF TypeInv
  <2>2. Append(sent, m) \in Seq(Messages) /\ wire \o x \in Seq(Chars)
    BY <1>1
  <2> QED
    BY <1>1, <2>1, <2>2 DEF TypeInv
<1>3. PICK rests :
        /\ Frames(sent, w, rests) /\ rests[w] = <<>>
        /\ k <= w /\ received = SubSeq(sent, 1, k)
        /\ rests[k] = buffer \o wire /\ Partial(buffer)
  BY DEF FramesInv, Whole
<1>4. Complete(sent, w, rests)
  BY <1>3 DEF Complete
<1>5. Len(sent') = w + 1
  BY <1>1, AppendProperties
<1>6. k \in 0 .. w /\ rests[k] \o x = buffer' \o wire'
  <2>1. (buffer \o wire) \o x = buffer \o (wire \o x)
    BY <1>1, ConcatThree
  <2> QED
    BY <1>1, <1>3, <2>1
<1>7. received' = SubSeq(sent', 1, k) /\ Len(received') = k
  <2>1. sent' = sent \o <<m>> /\ <<m>> \in Seq(Messages)
    BY <1>1, AppendIsConcat
  <2>2. SubSeq(sent \o <<m>>, 1, k) = SubSeq(sent, 1, k)
    <3>1. CASE k = 0
      BY <3>1, SubSeqEmpty
    <3>2. CASE k # 0
      <4>1. 1 \in 1 .. Len(sent) /\ k \in 1 .. Len(sent)
        BY <1>1, <1>3, <3>2
      <4> QED
        BY <1>1, <2>1, <4>1, SubSeqOfConcat1
    <3> QED
      BY <3>1, <3>2
  <2> QED
    BY <1>3, <2>1, <2>2
<1>8. \E ext : /\ Frames(sent', Whole', ext)
               /\ ~finished' => ext[Whole'] = <<>>
               /\ k <= Whole'
               /\ ext[k] = rests[k] \o x
  <2>1. CASE finished' = TRUE /\ Partial(x)
    <3>1. Whole' = w
      BY <1>1, <1>5, <2>1 DEF Whole
    <3>2. PICK ext : Behind(Append(sent, m), w, w, rests, x, ext)
      BY <1>1, <1>4, <2>1, FramesCut
    <3>3. Frames(sent', Whole', ext) /\ ext[k] = rests[k] \o x
      BY <1>6, <3>1, <3>2 DEF Behind
    <3> QED
      BY <1>3, <2>1, <3>1, <3>3
  <2>2. CASE finished' = finished /\ x = Encode(m)
    <3>1. Whole' = w + 1
      BY <1>1, <1>5, <2>2 DEF Whole
    <3>2. PICK ext : /\ Behind(Append(sent, m), w + 1, w, rests, Encode(m), ext)
                     /\ ext[w + 1] = <<>>
      BY <1>1, <1>4, FramesWhole
    <3>3. Frames(sent', Whole', ext) /\ ext[k] = rests[k] \o x /\ ext[w + 1] = <<>>
      BY <1>6, <2>2, <3>1, <3>2 DEF Behind
    <3>4. k <= Whole'
      BY <1>1, <1>3, <3>1
    <3> QED
      BY <3>1, <3>3, <3>4
  <2> QED
    BY <2>1, <2>2
<1>9. PICK ext : /\ Frames(sent', Whole', ext)
                 /\ ~finished' => ext[Whole'] = <<>>
                 /\ k <= Whole'
                 /\ ext[k] = rests[k] \o x
  BY <1>8
<1>10. FramesInv'
  <2>1. ext[k] = buffer' \o wire' /\ Partial(buffer')
    BY <1>3, <1>6, <1>9
  <2>2. /\ Frames(sent', Whole', ext)
        /\ ~finished' => ext[Whole'] = <<>>
        /\ Len(received') <= Whole' /\ received' = SubSeq(sent', 1, Len(received'))
        /\ ext[Len(received')] = buffer' \o wire'
        /\ Partial(buffer')
    BY <1>7, <1>9, <2>1
  <2> QED
    BY <2>2 DEF FramesInv
<1> QED
  BY <1>2, <1>10

(* A cut frame is a part of one.                                           *)
LEMMA CutIsPartial ==
  ASSUME NEW m \in Messages, NEW n \in 0 .. Len(Encode(m)) - 1
  PROVE  SubSeq(Encode(m), 1, n) \in Seq(Chars) /\ Partial(SubSeq(Encode(m), 1, n))
<1> DEFINE e == Encode(m)
           x == SubSeq(e, 1, n)
<1>1. m \in Seq(Chars) /\ e \in Seq(Chars) /\ Len(e) \in Nat
  BY MessagesAssumption, EncodeFrames
<1> HIDE DEF e
<1>2. n \in 0 .. Len(e) - 1
  BY DEF e
<1>3. \A i \in 1 .. n : e[i] \in Chars
  BY <1>1, <1>2, ElementOfSeq
<1>4. /\ x \in Seq(Chars) /\ Len(x) = IF 1 <= n THEN n - 1 + 1 ELSE 0
      /\ \A i \in 1 .. n - 1 + 1 : x[i] = e[1 + i - 1]
  BY <1>2, <1>3, SubSeqProperties
<1> HIDE DEF x
<1>5. Len(x) = n
  BY <1>2, <1>4
<1>6. Agrees(x, 1, e)
  <2> SUFFICES ASSUME NEW j \in 1 .. Len(e), 1 + j - 1 <= Len(x) PROVE x[1 + j - 1] = e[j]
    BY DEF Agrees
  <2>1. 1 + j - 1 = j /\ j \in 1 .. n - 1 + 1
    BY <1>1, <1>2, <1>5
  <2> QED
    BY <1>4, <2>1
<1>7. Len(x) < Len(e)
  BY <1>1, <1>2, <1>5
<1>8. Partial(x)
  BY <1>1, <1>6, <1>7 DEF Partial, e
<1> QED
  BY <1>4, <1>8 DEF x, e

(* Receiving takes out some of the messages sent, in order.                *)
LEMMA ReceiveFrames ==
  ASSUME TypeInv, FramesInv, NEW n \in 1 .. BufSize, Receive(n)
  PROVE  /\ TypeInv' /\ FramesInv'
         /\ \E j \in Len(received) .. Len(sent) : received' = SubSeq(sent, 1, j)
<1> DEFINE k == Len(received)
           chunk == SubSeq(wire, 1, n)
           left == From(wire, n + 1)
           b == buffer \o chunk
           w == Whole
<1>1. /\ sent \in Seq(Messages) /\ received \in Seq(Messages) /\ sent \in Seq(Seq(Chars))
      /\ finished \in BOOLEAN /\ wire \in Seq(Chars) /\ buffer \in Seq(Chars)
      /\ k \in Nat /\ Len(sent) \in Nat
  BY MessagesAreStrings DEF TypeInv
<1>2. PICK rests :
        /\ Frames(sent, w, rests)
        /\ ~finished => rests[w] = <<>>
        /\ k <= w /\ received = SubSeq(sent, 1, k)
        /\ rests[k] = buffer \o wire
  BY DEF FramesInv
<1>3. w \in Nat /\ w <= Len(sent) /\ k \in 0 .. w
  BY <1>1, <1>2 DEF Frames
<1>4. /\ n <= Len(wire) /\ wire' = left /\ UNCHANGED <<sent, finished>>
      /\ buffer' = Drain(b).rest /\ received' = received \o Drain(b).msgs
  BY DEF Receive
<1>5. chunk \in Seq(Chars) /\ left \in Seq(Chars) /\ chunk \o left = wire
  <2>1. n \in 1 .. Len(wire) /\ Len(wire) \in Nat
    BY <1>1, <1>4, SizesAssumption
  <2>2. chunk \in Seq(Chars)
    <3>1. \A i \in 1 .. n : wire[i] \in Chars
      BY <1>1, <2>1, ElementOfSeq
    <3> QED
      BY <3>1, SubSeqProperties
  <2>3. left \in Seq(Chars)
    BY <1>1, <2>1, FromTyped
  <2>4. SubSeq(wire, 1, n) \o SubSeq(wire, n + 1, Len(wire)) = SubSeq(wire, 1, Len(wire))
    <3>1. 1 \in 1 .. Len(wire) + 1 /\ n \in 1 - 1 .. Len(wire) /\ Len(wire) \in n .. Len(wire)
      BY <2>1
    <3> QED
      BY <1>1, <3>1, ConcatAdjacentSubSeq
  <2>5. SubSeq(wire, 1, Len(wire)) = wire
    BY <1>1, SubSeqFull
  <2> QED
    BY <2>2, <2>3, <2>4, <2>5 DEF From
<1> HIDE DEF chunk, left, w
<1>6. b \in Seq(Chars) /\ b \o left = rests[k]
  <2>1. buffer \in Seq(Chars) /\ chunk \in Seq(Chars) /\ left \in Seq(Chars)
    BY <1>1, <1>5
  <2>2. (buffer \o chunk) \o left = buffer \o (chunk \o left)
        /\ buffer \o chunk \in Seq(Chars)
    BY <2>1, ConcatThree
  <2> QED
    BY <1>2, <1>5, <2>2
<1> HIDE DEF b, k
<1>7. PICK j \in k .. w : AllTaken(sent, w, rests, k, left, Drain(b), j)
  <2>1. Frames(sent, w, rests) /\ k \in 0 .. w
    BY <1>2, <1>3
  <2>2. b \in Seq(Chars) /\ left \in Seq(Chars) /\ rests[k] = b \o left
    BY <1>5, <1>6
  <2> QED
    BY <2>1, <2>2, DrainFrames
<1>8. /\ Drain(b).msgs = SubSeq(sent, k + 1, j)
      /\ Drain(b).rest \in Seq(Chars) /\ Drain(b).rest \o left = rests[j]
      /\ Partial(Drain(b).rest)
  BY <1>7 DEF AllTaken
<1> USE DEF k
<1>9. received' = SubSeq(sent, 1, j)
  <2>1. 1 \in 1 .. Len(sent) + 1 /\ k \in 1 - 1 .. Len(sent) /\ j \in k .. Len(sent)
    BY <1>1, <1>3
  <2>2. SubSeq(sent, 1, k) \o SubSeq(sent, k + 1, j) = SubSeq(sent, 1, j)
    BY <1>1, <2>1, ConcatAdjacentSubSeq
  <2> QED
    BY <1>2, <1>4, <1>8, <2>2
<1>10. received' \in Seq(Messages) /\ Len(received') = j
  <2>1. \A i \in 1 .. j : sent[i] \in Messages
    BY <1>1, <1>3, ElementOfSeq
  <2>2. 1 \in Int /\ j \in Int /\ j \in Nat
    BY <1>1, <1>3
  <2>3. /\ SubSeq(sent, 1, j) \in Seq(Messages)
        /\ Len(SubSeq(sent, 1, j)) = IF 1 <= j THEN j - 1 + 1 ELSE 0
    BY <2>1, <2>2, SubSeqProperties
  <2> QED
    BY <1>9, <2>2, <2>3
<1>11. TypeInv'
  BY <1>1, <1>4, <1>5, <1>8, <1>10 DEF TypeInv
<1>12. FramesInv'
  <2>1. w' = w /\ Whole' = Whole
    BY <1>4 DEF w, Whole
  <2>2. Frames(sent, Whole, rests)'
    BY <1>2, <1>4, <2>1 DEF w
  <2>3. ~finished' => rests[Whole'] = <<>>
    BY <1>2, <1>4, <2>1 DEF w
  <2>4. Len(received') <= Whole' /\ received' = SubSeq(sent', 1, Len(received'))
    BY <1>3, <1>4, <1>9, <1>10, <2>1 DEF w
  <2>5. rests[Len(received')] = buffer' \o wire' /\ Partial(buffer')
    BY <1>4, <1>8, <1>10
  <2> QED
    BY <2>2, <2>3, <2>4, <2>5 DEF FramesInv
<1>13. j \in k .. Len(sent)
  BY <1>1, <1>3
<1> QED
  BY <1>9, <1>11, <1>12, <1>13

LEMMA NextFrames == TypeInv /\ FramesInv /\ [Next]_vars => TypeInv' /\ FramesInv'
<1> SUFFICES ASSUME TypeInv, FramesInv, [Next]_vars PROVE TypeInv' /\ FramesInv'
  OBVIOUS
<1>1. ASSUME NEW m \in Messages, Send(m) PROVE TypeInv' /\ FramesInv'
  <2>1. Encode(m) \in Seq(Chars)
    BY MessagesAssumption, EncodeFrames
  <2> QED
    BY <1>1, <2>1, SendFrames DEF Send
<1>2. ASSUME NEW m \in Messages, SendCutShort(m) PROVE TypeInv' /\ FramesInv'
  <2>1. PICK n \in 0 .. Len(Encode(m)) - 1 : wire' = wire \o SubSeq(Encode(m), 1, n)
    BY <1>2 DEF SendCutShort
  <2>2. SubSeq(Encode(m), 1, n) \in Seq(Chars) /\ Partial(SubSeq(Encode(m), 1, n))
    BY CutIsPartial
  <2> QED
    BY <1>2, <2>1, <2>2, SendFrames DEF SendCutShort
<1>3. ASSUME NEW n \in 1 .. BufSize, Receive(n) PROVE TypeInv' /\ FramesInv'
  BY <1>3, ReceiveFrames
<1>4. CASE UNCHANGED vars
  BY <1>4 DEF vars, TypeInv, FramesInv, Whole, Frames
<1> QED
  BY <1>1, <1>2, <1>3, <1>4 DEF Next

LEMMA FramesInvariant == Spec => [](TypeInv /\ FramesInv)
BY InitFrames, NextFrames, PTL DEF Spec

(* When all was received, all was delivered: for any messages, however     *)
(* many marks they hold, and any way to cut the characters into chunks.    *)
THEOREM NothingIsStuck == Spec => []NothingStuck
<1>1. TypeInv /\ FramesInv => NothingStuck
  <2> SUFFICES ASSUME TypeInv, FramesInv, wire = <<>>, ~finished
               PROVE  received = sent /\ buffer = <<>>
    BY DEF NothingStuck
  <2> DEFINE w == Len(sent)
             k == Len(received)
  <2>1. w \in Nat /\ k \in Nat /\ sent \in Seq(Messages) /\ buffer \in Seq(Chars)
    BY DEF TypeInv
  <2>2. PICK rests :
          /\ Frames(sent, w, rests) /\ rests[w] = <<>>
          /\ k <= w /\ received = SubSeq(sent, 1, k)
          /\ rests[k] = buffer \o wire /\ Partial(buffer)
    BY DEF FramesInv, Whole
  <2>3. rests[k] = buffer /\ buffer \o <<>> = rests[k] /\ k \in 0 .. w
    BY <2>1, <2>2, ConcatEmptySeq
  <2>4. k = w
    <3> SUFFICES ASSUME k # w PROVE FALSE
      OBVIOUS
    <3> DEFINE m == sent[k + 1]
               t == rests[k + 1]
    <3>1. k + 1 \in 1 .. w /\ k + 1 \in 0 .. w /\ (k + 1) - 1 = k
      BY <2>1, <2>2
    <3>2. m \in Seq(Chars) /\ t \in Seq(Chars)
      <4>1. m \in Messages
        BY <2>1, <3>1, ElementOfSeq
      <4> QED
        BY <2>2, <3>1, <4>1, MessagesAssumption DEF Frames
    <3>3. buffer = Encode(m) \o t
      <4> DEFINE i == k + 1
      <4>1. i \in 1 .. w
        BY <3>1
      <4> HIDE DEF i
      <4>2. rests[i - 1] = Encode(sent[i]) \o rests[i]
        BY <2>2, <4>1 DEF Frames
      <4> QED
        BY <2>3, <3>1, <4>2 DEF i
    <3> HIDE DEF m, t
    <3>4. Encode(m) \in Seq(Chars) /\ Len(Encode(m)) \in Nat
      BY <3>2, EncodeFrames
    <3>5. buffer \o <<>> = Encode(m) \o t /\ <<>> \in Seq(Chars)
      BY <2>3, <3>3
    <3>6. Agrees(buffer, 1, Encode(m))
      BY <2>1, <3>2, <3>4, <3>5, FrontAgrees
    <3>7. Len(Encode(m)) <= Len(buffer)
      <4>1. Len(buffer) = Len(Encode(m)) + Len(t)
        BY <3>2, <3>3, <3>4, ConcatProperties
      <4>2. Len(t) \in Nat
        BY <3>2
      <4> QED
        BY <3>4, <4>1, <4>2
    <3>8. Decode(buffer).ok = TRUE
      <4>1. Decode(buffer) = [ok |-> TRUE, msg |-> m, rest |-> From(buffer, Len(Encode(m)) + 1)]
        BY <2>1, <3>2, <3>6, <3>7, DecodeFrame
      <4> QED
        BY <4>1
    <3>9. Decode(buffer).ok = FALSE
      <4>1. Decode(buffer) = [ok |-> FALSE, msg |-> <<>>, rest |-> buffer]
        BY <2>1, <2>2, PartialStays
      <4> QED
        BY <4>1
    <3> QED
      BY <3>8, <3>9
  <2>5. SubSeq(sent, 1, w) = sent
    BY <2>1, SubSeqFull
  <2> QED
    BY <2>2, <2>3, <2>4, <2>5
<1> QED
  BY <1>1, FramesInvariant, PTL

(* The messages come out whole, unchanged and in the order they were sent  *)
(* in, and none comes out that was cut short.                              *)
THEOREM FramingImplementsChannel == Spec => ImplementsChannel
<1>1. Init => Channel!Init
  BY DEF Init, Channel!Init
<1>2. TypeInv /\ FramesInv /\ [Next]_vars => [Channel!Next]_(Channel!vars)
  <2> SUFFICES ASSUME TypeInv, FramesInv, [Next]_vars PROVE [Channel!Next]_(Channel!vars)
    OBVIOUS
  <2>1. ASSUME NEW m \in Messages, Send(m) \/ SendCutShort(m) PROVE Channel!Next
    <3>1. Channel!Send(m)
      BY <2>1 DEF Send, SendCutShort, Channel!Send
    <3> QED
      BY <3>1 DEF Channel!Next
  <2>2. ASSUME NEW n \in 1 .. BufSize, Receive(n) PROVE [Channel!Next]_(Channel!vars)
    <3>1. PICK j \in Len(received) .. Len(sent) : received' = SubSeq(sent, 1, j)
      BY <2>2, ReceiveFrames
    <3>2. sent' = sent /\ Len(received) \in Nat /\ Len(sent) \in Nat
      BY <2>2 DEF Receive, TypeInv
    <3>3. received = SubSeq(sent, 1, Len(received))
      BY DEF FramesInv
    <3>4. CASE j = Len(received)
      BY <3>1, <3>2, <3>3, <3>4 DEF Channel!vars
    <3>5. CASE j # Len(received)
      <4>1. Len(received) < j /\ j <= Len(sent) /\ j \in 1 .. Len(sent)
        BY <3>2, <3>5
      <4>2. Channel!Deliver(j)
        BY <3>1, <3>2, <4>1 DEF Channel!Deliver
      <4> QED
        BY <4>1, <4>2 DEF Channel!Next
    <3> QED
      BY <3>4, <3>5
  <2>3. CASE UNCHANGED vars
    BY <2>3 DEF vars, Channel!vars
  <2> QED
    BY <2>1, <2>2, <2>3 DEF Next
<1> QED
  BY <1>1, <1>2, FramesInvariant, PTL DEF Spec, ImplementsChannel, Channel!Spec

=============================================================================
