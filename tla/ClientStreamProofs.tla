------------------------- MODULE ClientStreamProofs -------------------------
(***************************************************************************)
(* Proofs about ClientStream, for any number of threads that end the       *)
(* communication and any number of chunks.                                 *)
(***************************************************************************)
EXTENDS ClientStream, TLAPS

-----------------------------------------------------------------------------
(* Type correctness.  That the counts of chunks stay in their bounds rests *)
(* on recv() having returned the data that is queued, on the receiver      *)
(* starting once, and on what waits in the queue being the chunks that     *)
(* on_receive has not seen, in their order.                                *)

(* Chunks are queued that were sent.                                       *)
DataPending ==
  /\ queued <= sent
  /\ ret = "data" /\ receiver_pc \in {"lock", "acquire", "body"} => queued < sent

Before == {"idle", "checked", "on_connect", "make_sem"}   \* no semaphore yet

(* The receiver starts once, with no result of a recv().                   *)
StartedOnce ==
  /\ owner_pc \in Before \cup {"start"} => receiver_pc = "unborn"
  /\ receiver_pc = "unborn" => ret = "none"

Data(i) == msg_q[i].type = "msg"

QueueOK ==
  /\ handled <= queued
  /\ \A i \in 1 .. Len(msg_q) : Data(i) => handled < msg_q[i].n /\ msg_q[i].n <= queued
  /\ \A i, j \in 1 .. Len(msg_q) : i < j /\ Data(i) /\ Data(j) => msg_q[i].n < msg_q[j].n
  /\ \A k \in handled + 1 .. queued : \E i \in 1 .. Len(msg_q) : Data(i) /\ msg_q[i].n = k

TypeInv == TypeOK /\ DataPending /\ StartedOnce /\ QueueOK

(* The chunk that is picked is the next one.                               *)
LEMMA NextChunk ==
  ASSUME TypeInv, msg_q # <<>>, Head(msg_q).type = "msg"
  PROVE  Head(msg_q).n = handled + 1 /\ handled + 1 <= queued
<1> USE BoundsAssumption DEF TypeInv
<1>1. /\ msg_q \in Seq(Message) /\ Head(msg_q) = msg_q[1] /\ 1 \in 1 .. Len(msg_q)
      /\ handled \in Nat /\ queued \in Nat
  BY DEF TypeOK
<1>2. msg_q[1] \in Message /\ Data(1)
  BY <1>1 DEF Data
<1>3. msg_q[1].n \in Nat
  BY <1>1, <1>2 DEF Message
<1>4. handled < msg_q[1].n /\ msg_q[1].n <= queued
  BY <1>1, <1>2 DEF QueueOK
<1>5. handled + 1 \in handled + 1 .. queued
  BY <1>1, <1>3, <1>4
<1>6. PICK i \in 1 .. Len(msg_q) : Data(i) /\ msg_q[i].n = handled + 1
  BY <1>5 DEF QueueOK
<1>7. i # 1 => msg_q[1].n < msg_q[i].n
  BY <1>1, <1>2, <1>6 DEF QueueOK
<1> QED
  BY <1>1, <1>3, <1>4, <1>6, <1>7

(* Picking a message, or putting one that is no data behind the others,    *)
(* keeps the queue in order.                                               *)
LEMMA PickKeepsQueue ==
  ASSUME TypeInv, PickMsg
  PROVE  QueueOK' /\ handled' \in 0 .. MaxChunks /\ msg_q' \in Seq(Message)
<1> USE BoundsAssumption
<1>1. /\ msg_q \in Seq(Message) /\ msg_q # <<>> /\ msg_q' = Tail(msg_q) /\ queued' = queued
      /\ handled \in Nat /\ queued \in 0 .. MaxChunks /\ Head(msg_q) = msg_q[1]
      /\ handled' = IF Data(1) THEN handled + 1 ELSE handled
  BY DEF TypeInv, TypeOK, PickMsg, LeavePick, OwnerGoes, Data
<1>2. Data(1) => msg_q[1].n = handled + 1 /\ handled + 1 <= queued
  BY <1>1, NextChunk DEF Data
<1>3. /\ Len(msg_q') = Len(msg_q) - 1 /\ Len(msg_q) \in Nat \ {0}
      /\ \A i \in 1 .. Len(msg_q') : i + 1 \in 1 .. Len(msg_q) /\ msg_q'[i] = msg_q[i + 1]
  BY <1>1
<1>4. handled' <= queued' /\ handled' \in 0 .. MaxChunks /\ msg_q' \in Seq(Message)
  BY <1>1, <1>2 DEF TypeInv, QueueOK
<1>5. ASSUME NEW i \in 1 .. Len(msg_q'), msg_q'[i].type = "msg"
      PROVE  handled' < msg_q'[i].n /\ msg_q'[i].n <= queued'
  <2>1. i + 1 \in 1 .. Len(msg_q) /\ msg_q'[i] = msg_q[i + 1] /\ Data(i + 1)
    BY <1>3, <1>5 DEF Data
  <2>2. handled < msg_q[i + 1].n /\ msg_q[i + 1].n <= queued
    BY <2>1 DEF TypeInv, QueueOK
  <2>3. Data(1) => msg_q[1].n < msg_q[i + 1].n
    BY <1>3, <2>1 DEF TypeInv, QueueOK
  <2>4. msg_q[i + 1] \in Message
    BY <1>1, <2>1
  <2>5. msg_q[i + 1].n \in Nat
    BY <2>1, <2>4 DEF Message, Data
  <2> QED
    BY <1>1, <1>2, <2>1, <2>2, <2>3, <2>5
<1>6. ASSUME NEW i \in 1 .. Len(msg_q'), NEW j \in 1 .. Len(msg_q'), i < j,
             msg_q'[i].type = "msg", msg_q'[j].type = "msg"
      PROVE  msg_q'[i].n < msg_q'[j].n
  <2>1. /\ i + 1 \in 1 .. Len(msg_q) /\ msg_q'[i] = msg_q[i + 1] /\ Data(i + 1)
        /\ j + 1 \in 1 .. Len(msg_q) /\ msg_q'[j] = msg_q[j + 1] /\ Data(j + 1)
        /\ i + 1 < j + 1
    BY <1>3, <1>6 DEF Data
  <2> QED
    BY <2>1 DEF TypeInv, QueueOK
<1>7. ASSUME NEW k \in handled' + 1 .. queued'
      PROVE  \E i \in 1 .. Len(msg_q') : msg_q'[i].type = "msg" /\ msg_q'[i].n = k
  <2>1. k \in handled + 1 .. queued /\ (Data(1) => msg_q[1].n # k)
    BY <1>1, <1>2
  <2>2. PICK i \in 1 .. Len(msg_q) : Data(i) /\ msg_q[i].n = k
    BY <2>1 DEF TypeInv, QueueOK
  <2>3. i - 1 \in 1 .. Len(msg_q') /\ msg_q'[i - 1] = msg_q[i]
    BY <1>3, <2>1, <2>2
  <2> QED
    BY <2>2, <2>3 DEF Data
<1> QED
  BY <1>4, <1>5, <1>6, <1>7 DEF QueueOK, Data

LEMMA EnqueueKeepsQueue ==
  ASSUME TypeInv, UNCHANGED handled, NEW m \in Message, Enqueue(m),
         IF m.type = "msg" THEN m.n = queued + 1 /\ queued' = m.n ELSE queued' = queued
  PROVE  QueueOK' /\ msg_q' \in Seq(Message)
<1>1. /\ msg_q \in Seq(Message) /\ msg_q' = Append(msg_q, m) /\ handled' = handled
      /\ handled \in Nat /\ queued \in Nat /\ handled <= queued
  BY BoundsAssumption DEF TypeInv, TypeOK, Enqueue, QueueOK
<1>2. /\ Len(msg_q') = Len(msg_q) + 1 /\ Len(msg_q) \in Nat /\ msg_q'[Len(msg_q) + 1] = m
      /\ \A i \in 1 .. Len(msg_q) : i \in 1 .. Len(msg_q') /\ msg_q'[i] = msg_q[i]
      /\ \A i \in 1 .. Len(msg_q') : i \in 1 .. Len(msg_q) \/ i = Len(msg_q) + 1
  BY <1>1
<1>3. \A i \in 1 .. Len(msg_q) : Data(i) => msg_q[i].n \in Nat
  <2> SUFFICES ASSUME NEW i \in 1 .. Len(msg_q), Data(i) PROVE msg_q[i].n \in Nat
    OBVIOUS
  <2>1. msg_q[i] \in Message
    BY <1>1
  <2> QED
    BY <2>1, BoundsAssumption DEF Message, Data
<1>4. \A i \in 1 .. Len(msg_q') :
        Data(i)' => handled' < msg_q'[i].n /\ msg_q'[i].n <= queued'
  BY <1>1, <1>2, <1>3 DEF TypeInv, QueueOK, Data
<1>5. ASSUME NEW i \in 1 .. Len(msg_q'), NEW j \in 1 .. Len(msg_q'), i < j, Data(i)', Data(j)'
      PROVE  msg_q'[i].n < msg_q'[j].n
  <2>1. i \in 1 .. Len(msg_q)
    BY <1>2, <1>5
  <2>2. CASE j \in 1 .. Len(msg_q)
    BY <1>2, <1>5, <2>1, <2>2 DEF TypeInv, QueueOK, Data
  <2>3. CASE j = Len(msg_q) + 1
    <3>1. m.type = "msg" /\ msg_q'[j].n = queued + 1
      BY <1>2, <1>5, <2>3 DEF Data
    <3>2. Data(i) /\ msg_q[i].n <= queued
      BY <1>2, <1>5, <2>1 DEF TypeInv, QueueOK, Data
    <3> QED
      BY <1>1, <1>2, <1>3, <2>1, <3>1, <3>2
  <2> QED
    BY <1>2, <2>2, <2>3
<1>6. ASSUME NEW k \in handled' + 1 .. queued'
      PROVE  \E i \in 1 .. Len(msg_q') : Data(i)' /\ msg_q'[i].n = k
  <2>1. CASE k \in handled + 1 .. queued
    BY <1>2, <2>1 DEF TypeInv, QueueOK, Data
  <2>2. CASE k \notin handled + 1 .. queued
    <3>1. m.type = "msg" /\ m.n = k /\ Len(msg_q) + 1 \in 1 .. Len(msg_q')
      BY <1>1, <1>2, <1>6, <2>2
    <3> QED
      BY <1>2, <3>1 DEF Data
  <2> QED
    BY <2>1, <2>2
<1>7. handled' <= queued'
  BY <1>1
<1> QED
  BY <1>1, <1>4, <1>5, <1>6, <1>7 DEF QueueOK

LEMMA InitTypeInv == Init => TypeInv
<1> SUFFICES ASSUME Init PROVE TypeInv
  OBVIOUS
<1> USE BoundsAssumption DEF Init
<1>1. closer_pc \in [Closers -> CloserStates]
  BY DEF CloserStates
<1>2. TypeOK
  <2>1. msg_q \in Seq(Message) /\ owner_pc \in OwnerStates /\ receiver_pc \in ReceiverStates
    BY DEF OwnerStates, Left, ReceiverStates
  <2>2. /\ sent \in 0 .. MaxChunks /\ queued \in 0 .. MaxChunks /\ handled \in 0 .. MaxChunks
        /\ eofs \in 0 .. MaxEofs /\ faults \in 0 .. MaxFaults
    OBVIOUS
  <2> QED
    BY <1>1, <2>1, <2>2 DEF TypeOK
<1>3. DataPending /\ StartedOnce /\ QueueOK
  BY DEF DataPending, StartedOnce, QueueOK
<1> QED
  BY <1>2, <1>3 DEF TypeInv

LEMMA OutsideTypeInv ==
  TypeInv /\ (ServerActs \/ SendReaches \/ Kernel) => TypeInv'
<1> SUFFICES ASSUME TypeInv, ServerActs \/ SendReaches \/ Kernel PROVE TypeInv'
  OBVIOUS
<1> USE BoundsAssumption
    DEF TypeInv, TypeOK, DataPending, StartedOnce, QueueOK, Data,
        flag_vars, sem_vars, thread_vars, server_vars, ReceiverStates
<1>1. CASE ServerActs
  BY <1>1 DEF ServerActs
<1>2. CASE SendReaches
  BY <1>2 DEF SendReaches
<1>3. CASE RecvReturnsData
  BY <1>3 DEF RecvReturnsData, Returned
<1>4. CASE RecvReturnsEof
  BY <1>4 DEF RecvReturnsEof, Returned
<1>5. CASE RecvFails
  BY <1>5 DEF RecvFails, Returned
<1> QED
  BY <1>1, <1>2, <1>3, <1>4, <1>5 DEF Kernel

LEMMA ReceiverTypeInv == TypeInv /\ Receiver => TypeInv'
<1> SUFFICES ASSUME TypeInv, Receiver PROVE TypeInv'
  OBVIOUS
<1> USE BoundsAssumption
    DEF flag_vars, sem_vars, thread_vars, server_vars, ReceiverStates
<1>1. CASE LockWeakPtr \/ Acquire \/ LoopTest \/ ReadRecvArgs \/ ReceiverThrows
  <2>1. LockWeakPtr \/ Acquire => TypeOK'
    BY DEF LockWeakPtr, Acquire, TypeInv, TypeOK
  <2>2. LoopTest \/ ReadRecvArgs => TypeOK'
    BY DEF LoopTest, ReadRecvArgs, TypeInv, TypeOK
  <2>3. ReceiverThrows => TypeOK'
    <3>1. ReceiverThrows => faults' \in 0 .. MaxFaults
      BY DEF ReceiverThrows, TypeInv, TypeOK
    <3> QED
      BY <3>1 DEF ReceiverThrows, TypeInv, TypeOK
  <2>4. DataPending' /\ StartedOnce'
    BY <1>1 DEF LockWeakPtr, Acquire, LoopTest, ReadRecvArgs, ReceiverThrows,
       TypeInv, DataPending, StartedOnce
  <2>5. UNCHANGED <<msg_q, handled, queued>>
    BY <1>1 DEF LockWeakPtr, Acquire, LoopTest, ReadRecvArgs, ReceiverThrows
  <2>6. QueueOK'
    BY <2>5 DEF TypeInv, QueueOK, Data
  <2> QED
    BY <1>1, <2>1, <2>2, <2>3, <2>4, <2>6 DEF TypeInv
<1>2. ASSUME NEW m \in Message, Enqueue(m), UNCHANGED <<flag_vars, sem_vars, owner_pc, ret,
             closer_pc, server_vars, handled>>, receiver_pc # "unborn",
             IF m.type = "msg" THEN m.n = queued + 1 /\ queued' = m.n /\ receiver_pc = "body" /\ ret = "data"
                               ELSE queued' = queued,
             receiver_pc' \in {"loop", "done"}
      PROVE  TypeInv'
  <2>1. QueueOK' /\ msg_q' \in Seq(Message)
    BY <1>2, EnqueueKeepsQueue
  <2>2. TypeOK' /\ DataPending' /\ StartedOnce'
    BY <1>2, <2>1 DEF TypeInv, TypeOK, DataPending, StartedOnce
  <2> QED
    BY <2>1, <2>2 DEF TypeInv
<1>3. CASE ReportRecvError \/ QueueDisconnect \/ ReportException
  <2>1. {[type |-> "critical_error"], [type |-> "disconnect_unexpectly"]} \subseteq Message
    BY DEF Message
  <2>2. CASE ReportRecvError /\ UNCHANGED msg_q
    <3>1. UNCHANGED <<handled, queued>>
      BY <2>2 DEF ReportRecvError, Body
    <3>2. QueueOK'
      BY <2>2, <3>1 DEF TypeInv, QueueOK, Data
    <3>3. TypeOK' /\ DataPending' /\ StartedOnce'
      BY <2>2 DEF ReportRecvError, Body, TypeInv, TypeOK, DataPending, StartedOnce
    <3> QED
      BY <3>2, <3>3 DEF TypeInv
  <2>3. ASSUME NEW m \in {[type |-> "critical_error"], [type |-> "disconnect_unexpectly"]}, Enqueue(m)
        PROVE  TypeInv'
    BY <1>2, <1>3, <2>1, <2>3 DEF ReportRecvError, QueueDisconnect, ReportException, Body
  <2> QED
    BY <1>3, <2>2, <2>3 DEF ReportRecvError, QueueDisconnect, ReportException
<1>4. CASE QueueData
  <2> DEFINE m == [type |-> "msg", n |-> queued + 1]
  <2>1. queued + 1 \in 1 .. MaxChunks
    BY <1>4 DEF QueueData, Body, TypeInv, TypeOK, DataPending
  <2>2. m \in Message
    BY <2>1 DEF Message
  <2> QED
    BY <1>2, <1>4, <2>2 DEF QueueData, Body
<1> QED
  BY <1>1, <1>3, <1>4 DEF Receiver

(* Where a message takes pick_msg().                                       *)
LEMMA DispatchRange ==
  ASSUME TypeInv, PickMsg
  PROVE  Dispatch(Head(msg_q).type) \in Left \cup {"handler"}
<1>1. Head(msg_q) \in Message
  BY DEF TypeInv, TypeOK, PickMsg
<1>2. Head(msg_q).type \in {"finish", "critical_error", "disconnect_unexpectly", "msg"}
  BY <1>1 DEF Message
<1> QED
  BY <1>2 DEF Dispatch, Left

LEMMA OwnerTypeInv == TypeInv /\ (ConnectChecks \/ OwnerStep) => TypeInv'
<1> SUFFICES ASSUME TypeInv, ConnectChecks \/ OwnerStep PROVE TypeInv'
  OBVIOUS
<1> USE BoundsAssumption
    DEF flag_vars, sem_vars, thread_vars, server_vars, OwnerStates, Left, OwnerGoes
<1>1. CASE PickMsg
  <2>1. QueueOK' /\ handled' \in 0 .. MaxChunks /\ msg_q' \in Seq(Message)
    BY <1>1, PickKeepsQueue
  <2>2. Dispatch(Head(msg_q).type) \in Left \cup {"handler"}
    BY <1>1, DispatchRange
  <2>3. TypeOK' /\ DataPending' /\ StartedOnce'
    BY <1>1, <2>1, <2>2 DEF PickMsg, LeavePick, TypeInv, TypeOK, DataPending, StartedOnce, Before
  <2> QED
    BY <2>1, <2>3 DEF TypeInv
<1>2. CASE ConnectChecks \/ (OwnerStep /\ ~PickMsg)
  <2>1. UNCHANGED <<msg_q, handled, queued, sent, ret>>
    BY <1>2 DEF ConnectChecks, OwnerStep, Connects, FailsToConnect, OnConnectEnds, MakeSem, StartReceiver,
       FailsToStart, BeginPick, HandlerEnds, LeavePick, Destroy
  <2>2. QueueOK'
    BY <2>1 DEF TypeInv, QueueOK, Data
  <2>3. DataPending'
    BY <1>2, <2>1 DEF ConnectChecks, OwnerStep, Connects, FailsToConnect, OnConnectEnds, MakeSem,
       StartReceiver, FailsToStart, BeginPick, HandlerEnds, LeavePick, Destroy,
       TypeInv, DataPending, StartedOnce, Before
  <2>4. StartedOnce'
    BY <1>2, <2>1 DEF ConnectChecks, OwnerStep, Connects, FailsToConnect, OnConnectEnds, MakeSem,
       StartReceiver, FailsToStart, BeginPick, HandlerEnds, LeavePick, Destroy,
       TypeInv, StartedOnce, Before
  <2>5. FailsToConnect \/ FailsToStart => faults' \in 0 .. MaxFaults
    BY DEF FailsToConnect, FailsToStart, TypeInv, TypeOK
  <2>6. ConnectChecks \/ Connects \/ OnConnectEnds => TypeOK'
    <3>1. ConnectChecks => TypeOK'
      BY <2>1 DEF ConnectChecks, TypeInv, TypeOK
    <3>2. Connects \/ OnConnectEnds => TypeOK'
      BY <2>1 DEF Connects, OnConnectEnds, TypeInv, TypeOK
    <3> QED
      BY <3>1, <3>2
  <2>7. FailsToConnect \/ FailsToStart => TypeOK'
    BY <2>1, <2>5 DEF FailsToConnect, FailsToStart, TypeInv, TypeOK
  <2>8. MakeSem \/ StartReceiver \/ BeginPick => TypeOK'
    <3>1. MakeSem => TypeOK'
      BY <2>1 DEF MakeSem, TypeInv, TypeOK
    <3>2. StartReceiver => TypeOK'
      BY <2>1 DEF StartReceiver, ReceiverStates, TypeInv, TypeOK
    <3>3. BeginPick => TypeOK'
      BY <2>1 DEF BeginPick, TypeInv, TypeOK
    <3> QED
      BY <3>1, <3>2, <3>3
  <2>9. HandlerEnds \/ Destroy => TypeOK'
    BY <2>1 DEF HandlerEnds, LeavePick, Destroy, TypeInv, TypeOK
  <2> QED
    BY <1>2, <2>2, <2>3, <2>4, <2>6, <2>7, <2>8, <2>9 DEF OwnerStep, TypeInv
<1> QED
  BY <1>1, <1>2

LEMMA CloserTypeInv ==
  ASSUME TypeInv, NEW c \in Closers, ExchangeFinished(c) \/ CloserStep(c)
  PROVE  TypeInv'
<1> USE BoundsAssumption DEF server_vars, sem_vars, CloserStates
<1>1. /\ UNCHANGED <<is_connected, begin_pick_msg, finish_pick, owner_pc, receiver_pc, ret,
                     server_vars, queued, handled>>
      /\ closer_pc' \in [Closers -> CloserStates]
  BY DEF ExchangeFinished, CloserStep, QueueFinish, TestBeginPick, WaitForFinishPick,
     TestConnected, TakeSem, DerefNullSem, CloseSocket, CloserGoes, TypeInv, TypeOK
<1>2. /\ is_finished' \in BOOLEAN /\ closed' \in BOOLEAN /\ destroyed' \in BOOLEAN
      /\ sem_owned' \in BOOLEAN /\ sem_free' \in BOOLEAN
  BY DEF ExchangeFinished, CloserStep, QueueFinish, TestBeginPick, WaitForFinishPick,
     TestConnected, TakeSem, DerefNullSem, CloseSocket, TypeInv, TypeOK
<1>3. QueueOK' /\ msg_q' \in Seq(Message)
  <2>1. CASE Enqueue([type |-> "finish"])
    <3>1. [type |-> "finish"] \in Message
      BY DEF Message
    <3> QED
      BY <1>1, <2>1, <3>1, EnqueueKeepsQueue
  <2>2. CASE UNCHANGED msg_q
    BY <1>1, <2>2 DEF TypeInv, TypeOK, QueueOK, Data
  <2> QED
    BY <2>1, <2>2 DEF ExchangeFinished, CloserStep, QueueFinish, TestBeginPick,
       WaitForFinishPick, TestConnected, TakeSem, DerefNullSem, CloseSocket
<1>4. TypeOK' /\ DataPending' /\ StartedOnce'
  BY <1>1, <1>2, <1>3 DEF TypeInv, TypeOK, DataPending, StartedOnce
<1> QED
  BY <1>3, <1>4 DEF TypeInv

LEMMA NextTypeInv == TypeInv /\ [Next]_vars => TypeInv'
<1> SUFFICES ASSUME TypeInv, [Next]_vars PROVE TypeInv'
  OBVIOUS
<1>1. CASE UNCHANGED vars
  BY <1>1 DEF vars, flag_vars, sem_vars, thread_vars, server_vars,
     TypeInv, TypeOK, DataPending, StartedOnce, QueueOK, Data
<1> QED
  BY <1>1, OutsideTypeInv, ReceiverTypeInv, OwnerTypeInv, CloserTypeInv DEF Next, Connect

LEMMA TypeInvariance == Spec => []TypeInv
  BY InitTypeInv, NextTypeInv, PTL DEF Spec

-----------------------------------------------------------------------------
(* The semaphore's one permit.                                             *)

LEMMA NextOnePermit == TypeInv /\ OnePermit /\ [Next]_vars => OnePermit'
<1> SUFFICES ASSUME TypeInv, OnePermit, [Next]_vars PROVE OnePermit'
  OBVIOUS
<1> USE DEF OnePermit, Holding, flag_vars, sem_vars, thread_vars, server_vars
<1>1. CASE UNCHANGED vars
  BY <1>1 DEF vars
<1>2. CASE ServerActs \/ SendReaches \/ Kernel
  BY <1>2 DEF ServerActs, SendReaches, Kernel, RecvReturnsData, RecvReturnsEof, RecvFails,
     Returned
<1>3. CASE LockWeakPtr \/ Acquire \/ LoopTest \/ ReadRecvArgs \/ ReceiverThrows
  BY <1>3 DEF LockWeakPtr, Acquire, LoopTest, ReadRecvArgs, ReceiverThrows
<1>4. CASE ReportRecvError \/ QueueDisconnect \/ QueueData \/ ReportException
  BY <1>4 DEF ReportRecvError, QueueDisconnect, QueueData, ReportException, Body
<1>5. CASE MakeSem
  BY <1>5 DEF MakeSem, OwnerGoes, TypeInv, StartedOnce, Before
<1>6. CASE ConnectChecks \/ (OwnerStep /\ ~MakeSem)
  BY <1>6 DEF ConnectChecks, OwnerStep, Connects, FailsToConnect, OnConnectEnds, StartReceiver,
     FailsToStart, BeginPick, PickMsg, HandlerEnds, LeavePick, Destroy, OwnerGoes
<1>7. ASSUME NEW c \in Closers, ExchangeFinished(c) \/ CloserStep(c)
      PROVE  OnePermit'
  BY <1>7 DEF ExchangeFinished, CloserStep, QueueFinish, TestBeginPick, WaitForFinishPick,
     TestConnected, TakeSem, DerefNullSem, CloseSocket, CloserGoes
<1> QED
  BY <1>1, <1>2, <1>3, <1>4, <1>5, <1>6, <1>7 DEF Next, Receiver, Connect

LEMMA InitOnePermit == Init => OnePermit
  BY DEF Init, OnePermit, Holding

(* client_stream's semaphore has one permit: while the receiver is in a    *)
(* section that it guards no second acquire() can pass, and the end of the *)
(* communication, which takes the permit, leaves none.                     *)
THEOREM PermitIsSingle == Spec => []OnePermit
  BY InitOnePermit, NextOnePermit, TypeInvariance, PTL DEF Spec

-----------------------------------------------------------------------------
(* One thread ends the communication: the one whose exchange found that    *)
(* nobody had, for the rest of the stream's life.                          *)

Ender == {"emplace", "picking", "wait", "connected", "sem", "close", "crashed"}

OneEnder ==
  /\ \A c \in Closers : closer_pc[c] # "out" => is_finished
  /\ \A c, d \in Closers : closer_pc[c] \in Ender /\ closer_pc[d] \in Ender => c = d
  /\ closed => is_finished /\ \A c \in Closers : closer_pc[c] \notin Ender

(* What the steps of end_communication() do to the threads inside it.      *)
LEMMA EnderGoesOn ==
  ASSUME TypeInv, NEW c \in Closers, CloserStep(c)
  PROVE  /\ closer_pc[c] \in Ender /\ closer_pc'[c] \in Ender \cup {"returned"}
         /\ \A d \in Closers : d # c => closer_pc'[d] = closer_pc[d]
         /\ is_finished' = is_finished
         /\ closed' # closed => closer_pc'[c] = "returned"
<1> USE DEF TypeInv, TypeOK, CloserGoes, Ender
<1>1. CASE QueueFinish(c) \/ TestBeginPick(c) \/ WaitForFinishPick(c)
  BY <1>1 DEF QueueFinish, TestBeginPick, WaitForFinishPick
<1>2. CASE TestConnected(c) \/ TakeSem(c) \/ DerefNullSem(c) \/ CloseSocket(c)
  BY <1>2 DEF TestConnected, TakeSem, DerefNullSem, CloseSocket
<1> QED
  BY <1>1, <1>2 DEF CloserStep

LEMMA OthersLeaveEnd ==
  ASSUME ServerActs \/ SendReaches \/ Kernel \/ Receiver \/ ConnectChecks \/ OwnerStep \/ UNCHANGED vars
  PROVE  UNCHANGED <<is_finished, closed, closer_pc>>
<1> USE DEF flag_vars, thread_vars
<1>1. CASE ServerActs \/ SendReaches \/ Kernel \/ UNCHANGED vars
  BY <1>1 DEF ServerActs, SendReaches, Kernel, RecvReturnsData, RecvReturnsEof, RecvFails,
     Returned, vars
<1>2. CASE Receiver
  BY <1>2 DEF Receiver, LockWeakPtr, Acquire, LoopTest, ReadRecvArgs, ReceiverThrows,
     ReportRecvError, QueueDisconnect, QueueData, ReportException, Body
<1>3. CASE ConnectChecks \/ OwnerStep
  BY <1>3 DEF ConnectChecks, OwnerStep, Connects, FailsToConnect, OnConnectEnds, MakeSem,
     StartReceiver, FailsToStart, BeginPick, PickMsg, HandlerEnds, LeavePick, Destroy, OwnerGoes
<1> QED
  BY <1>1, <1>2, <1>3

LEMMA NextOneEnder == TypeInv /\ OneEnder /\ [Next]_vars => OneEnder'
<1> SUFFICES ASSUME TypeInv, OneEnder, [Next]_vars PROVE OneEnder'
  OBVIOUS
<1>1. ASSUME NEW c \in Closers, ExchangeFinished(c)
      PROVE  OneEnder'
  <2>1. /\ is_finished' /\ closed' = closed /\ closer_pc[c] = "out"
        /\ closer_pc'[c] = IF is_finished THEN "returned" ELSE "emplace"
        /\ \A d \in Closers : d # c => closer_pc'[d] = closer_pc[d]
    BY <1>1 DEF ExchangeFinished, CloserGoes, TypeInv, TypeOK
  <2>2. CASE is_finished
    BY <2>1, <2>2 DEF OneEnder, Ender
  <2>3. CASE ~is_finished
    <3>1. ~closed /\ \A d \in Closers : closer_pc[d] = "out"
      BY <2>3 DEF OneEnder
    <3> QED
      BY <2>1, <3>1 DEF OneEnder, Ender
  <2> QED
    BY <2>2, <2>3
<1>2. ASSUME NEW c \in Closers, CloserStep(c)
      PROVE  OneEnder'
  <2>1. /\ closer_pc[c] \in Ender /\ closer_pc'[c] \in Ender \cup {"returned"}
        /\ \A d \in Closers : d # c => closer_pc'[d] = closer_pc[d]
        /\ is_finished' = is_finished
        /\ closed' # closed => closer_pc'[c] = "returned"
    BY <1>2, EnderGoesOn
  <2>2. /\ is_finished /\ ~closed
        /\ \A d \in Closers : d # c => closer_pc[d] \notin Ender
    BY <2>1 DEF OneEnder, Ender
  <2> QED
    BY <2>1, <2>2 DEF OneEnder, Ender, TypeInv, TypeOK
<1>3. CASE UNCHANGED <<is_finished, closed, closer_pc>>
  BY <1>3 DEF OneEnder
<1> QED
  BY <1>1, <1>2, <1>3, OthersLeaveEnd DEF Next, Connect

-----------------------------------------------------------------------------
(* The life of the semaphore: it is there from MakeSem until the end of    *)
(* the communication takes it.                                             *)

Ended == closed \/ \E c \in Closers : closer_pc[c] = "close"

SemLife ==
  /\ owner_pc \in Before => ~sem_owned /\ ~Ended
  /\ Ended => ~sem_owned
  /\ receiver_pc # "unborn" \/ owner_pc = "start" => sem_owned \/ Ended

LEMMA NextSemLife == TypeInv /\ SemLife /\ [Next]_vars => SemLife'
<1> SUFFICES ASSUME TypeInv, SemLife, [Next]_vars PROVE SemLife'
  OBVIOUS
<1> USE DEF flag_vars, sem_vars, thread_vars, server_vars
<1>1. ASSUME NEW c \in Closers, ExchangeFinished(c) \/ CloserStep(c)
      PROVE  SemLife'
  <2>1. UNCHANGED <<owner_pc, receiver_pc>> /\ \A d \in Closers : d # c => closer_pc'[d] = closer_pc[d]
    BY <1>1 DEF ExchangeFinished, CloserStep, QueueFinish, TestBeginPick, WaitForFinishPick,
       TestConnected, TakeSem, DerefNullSem, CloseSocket, CloserGoes, TypeInv, TypeOK
  <2>2. CASE TakeSem(c)
    <3>1. sem_owned /\ ~sem_owned' /\ closer_pc'[c] = "close"
      BY <2>2 DEF TakeSem, CloserGoes, TypeInv, TypeOK
    <3>2. Ended'
      BY <3>1 DEF Ended
    <3> QED
      BY <2>1, <3>1, <3>2 DEF SemLife
  <2>3. CASE CloseSocket(c)
    <3>1. closer_pc[c] = "close" /\ closed' /\ sem_owned' = sem_owned
      BY <2>3 DEF CloseSocket, CloserGoes
    <3>2. Ended /\ Ended'
      BY <3>1 DEF Ended
    <3> QED
      BY <2>1, <3>1, <3>2 DEF SemLife
  <2>4. CASE ~TakeSem(c) /\ ~CloseSocket(c)
    <3>1. /\ closer_pc[c] # "close" /\ closer_pc'[c] # "close"
          /\ closed' = closed /\ sem_owned' = sem_owned
      BY <1>1, <2>4 DEF ExchangeFinished, CloserStep, QueueFinish, TestBeginPick,
         WaitForFinishPick, TestConnected, DerefNullSem, CloserGoes, TypeInv, TypeOK
    <3>2. Ended' <=> Ended
      BY <2>1, <3>1 DEF Ended
    <3> QED
      BY <2>1, <3>1, <3>2 DEF SemLife
  <2> QED
    BY <2>2, <2>3, <2>4
<1>2. ASSUME UNCHANGED <<closed, closer_pc>>,
             \/ UNCHANGED <<owner_pc, receiver_pc, sem_owned>>
             \/ Receiver
             \/ ConnectChecks
             \/ OwnerStep
      PROVE  SemLife'
  <2>1. Ended' <=> Ended
    BY <1>2 DEF Ended
  <2>2. CASE UNCHANGED <<owner_pc, receiver_pc, sem_owned>>
    BY <2>1, <2>2 DEF SemLife
  <2>3. CASE Receiver
    <3>1. UNCHANGED <<owner_pc, sem_owned>> /\ receiver_pc # "unborn"
      BY <2>3 DEF Receiver, LockWeakPtr, Acquire, LoopTest, ReadRecvArgs, ReceiverThrows,
         ReportRecvError, QueueDisconnect, QueueData, ReportException, Body
    <3> QED
      BY <2>1, <3>1 DEF SemLife
  <2>4. CASE MakeSem
    BY <2>1, <2>4 DEF MakeSem, OwnerGoes, SemLife, Before
  <2>5. CASE ConnectChecks \/ Connects \/ FailsToConnect \/ OnConnectEnds \/ FailsToStart
    BY <2>1, <2>5 DEF ConnectChecks, Connects, FailsToConnect, OnConnectEnds, FailsToStart,
       OwnerGoes, SemLife, Before
  <2>6. CASE StartReceiver \/ BeginPick \/ PickMsg \/ HandlerEnds \/ Destroy
    <3>1. sem_owned' = sem_owned /\ (receiver_pc' = receiver_pc \/ owner_pc = "start")
      BY <2>6 DEF StartReceiver, BeginPick, PickMsg, HandlerEnds, LeavePick, Destroy, OwnerGoes
    <3>2. owner_pc' = owner_pc \/ owner_pc' \notin Before \cup {"start"}
      BY <2>6, DispatchRange DEF StartReceiver, BeginPick, PickMsg, HandlerEnds, LeavePick,
         Destroy, OwnerGoes, Before, Left
    <3> QED
      BY <2>1, <3>1, <3>2 DEF SemLife
  <2> QED
    BY <1>2, <2>2, <2>3, <2>4, <2>5, <2>6 DEF OwnerStep
<1>3. CASE ServerActs \/ SendReaches \/ Kernel \/ UNCHANGED vars
  <2>1. UNCHANGED <<owner_pc, receiver_pc, sem_owned>> \/ receiver_pc = "syscall"
    BY <1>3 DEF ServerActs, SendReaches, Kernel, RecvReturnsData, RecvReturnsEof, RecvFails,
       Returned, vars
  <2>2. UNCHANGED <<owner_pc, sem_owned>>
    BY <1>3 DEF ServerActs, SendReaches, Kernel, RecvReturnsData, RecvReturnsEof, RecvFails,
       Returned, vars
  <2>3. Ended' <=> Ended
    BY <1>3, OthersLeaveEnd DEF Ended
  <2> QED
    BY <2>1, <2>2, <2>3 DEF SemLife
<1> QED
  BY <1>1, <1>2, <1>3, OthersLeaveEnd DEF Next, Connect

(* The crash: nobody has taken the semaphore before it, so that it was     *)
(* never made.                                                             *)
LEMMA NextCrash ==
  TypeInv /\ OneEnder /\ SemLife /\ CrashLeavesNoReceiver /\ [Next]_vars
    => CrashLeavesNoReceiver'
<1> SUFFICES ASSUME TypeInv, OneEnder, SemLife, CrashLeavesNoReceiver, [Next]_vars, Crashed'
             PROVE  receiver_pc' = "unborn"
  BY DEF CrashLeavesNoReceiver
<1>1. CASE UNCHANGED vars
  BY <1>1 DEF vars, thread_vars, Crashed, CrashLeavesNoReceiver
<1>2. CASE Next
  <2>1. ~Crashed
    BY <1>2 DEF Next
  <2>2. PICK c \in Closers : ExchangeFinished(c) \/ CloserStep(c)
    BY <1>2, <2>1, OthersLeaveEnd DEF Next, Connect, Crashed
  <2>3. DerefNullSem(c)
    BY <2>1, <2>2 DEF Crashed, ExchangeFinished, CloserStep, QueueFinish, TestBeginPick,
       WaitForFinishPick, TestConnected, TakeSem, CloseSocket, CloserGoes, TypeInv, TypeOK
  <2>4. ~sem_owned /\ closer_pc[c] = "sem" /\ receiver_pc' = receiver_pc
    BY <2>3 DEF DerefNullSem, CloserGoes
  <2>5. ~Ended
    BY <2>4 DEF Ended, OneEnder, Ender
  <2> QED
    BY <2>4, <2>5 DEF SemLife
<1> QED
  BY <1>1, <1>2

LEMMA InitEnd == Init => OneEnder /\ SemLife /\ CrashLeavesNoReceiver
  BY DEF Init, OneEnder, Ender, SemLife, Ended, CrashLeavesNoReceiver, Crashed

EndInv == OneEnder /\ SemLife /\ CrashLeavesNoReceiver

LEMMA EndInvariance == Spec => []EndInv
  BY InitEnd, NextOneEnder, NextSemLife, NextCrash, TypeInvariance, PTL DEF Spec, EndInv

(* The null semaphore that end_communication() may meet is the one that    *)
(* connect() has not made, and the receiver is not yet started: no thread  *)
(* is running on the stream when the process goes down.                    *)
THEOREM CrashComesFirst == Spec => []CrashLeavesNoReceiver
  BY EndInvariance, PTL DEF EndInv

-----------------------------------------------------------------------------
(* The end of the stream comes behind all the data: once recv() has        *)
(* returned 0 there is no more data to come, and what was read before it   *)
(* is in front of it in the queue.                                         *)

Eof(i) == msg_q[i].type = "disconnect_unexpectly"

EofSeen ==
  \/ ret = "eof" /\ receiver_pc \in {"lock", "acquire", "body"}
  \/ \E i \in 1 .. Len(msg_q) : Eof(i)
  \/ owner_pc = "disconnected"

EofFinal ==
  /\ EofSeen => server # "up" /\ queued = sent
  /\ \A i, j \in 1 .. Len(msg_q) : i < j /\ Eof(i) => ~Data(j)
  /\ owner_pc = "disconnected" => handled = queued

(* A message behind the others is no data if the end was seen.             *)
LEMMA EnqueueKeepsEof ==
  ASSUME TypeInv, EofFinal, NEW m \in Message, Enqueue(m),
         UNCHANGED <<owner_pc, server, sent, handled>>,
         m.type = "msg" => ~EofSeen /\ ret' # "eof",
         m.type # "msg" => queued' = queued,
         m.type = "disconnect_unexpectly" => EofSeen,
         ret' = "eof" /\ receiver_pc' \in {"lock", "acquire", "body"} => EofSeen
  PROVE  EofFinal'
<1>1. msg_q \in Seq(Message) /\ msg_q' = Append(msg_q, m)
  BY DEF TypeInv, TypeOK, Enqueue
<1>2. /\ Len(msg_q') = Len(msg_q) + 1 /\ Len(msg_q) \in Nat /\ msg_q'[Len(msg_q) + 1] = m
      /\ \A i \in 1 .. Len(msg_q) : i \in 1 .. Len(msg_q') /\ msg_q'[i] = msg_q[i]
      /\ \A i \in 1 .. Len(msg_q') : i \in 1 .. Len(msg_q) \/ i = Len(msg_q) + 1
  BY <1>1
<1>3. EofSeen' => EofSeen /\ m.type # "msg"
  BY <1>2 DEF EofSeen, Eof
<1>4. EofSeen' => server' # "up" /\ queued' = sent'
  BY <1>3 DEF EofFinal
<1>5. ASSUME NEW i \in 1 .. Len(msg_q'), NEW j \in 1 .. Len(msg_q'), i < j, Eof(i)'
      PROVE  ~Data(j)'
  <2>1. i \in 1 .. Len(msg_q) /\ Eof(i) /\ EofSeen
    BY <1>2, <1>5 DEF Eof, EofSeen
  <2> QED
    BY <1>2, <1>5, <2>1 DEF EofFinal, Data, Eof
<1>6. owner_pc' = "disconnected" => handled' = queued'
  BY DEF EofFinal, EofSeen
<1> QED
  BY <1>4, <1>5, <1>6 DEF EofFinal

(* What is picked as the end has all the data before it.                   *)
LEMMA PickKeepsEof ==
  ASSUME TypeInv, EofFinal, PickMsg
  PROVE  EofFinal'
<1>1. /\ msg_q \in Seq(Message) /\ msg_q # <<>> /\ msg_q' = Tail(msg_q)
      /\ UNCHANGED <<receiver_pc, ret, server, sent, queued>>
      /\ Head(msg_q) = msg_q[1] /\ msg_q[1] \in Message
      /\ handled \in Nat /\ queued \in Nat
  BY BoundsAssumption DEF TypeInv, TypeOK, PickMsg, LeavePick, OwnerGoes, server_vars
<1>2. /\ Len(msg_q') = Len(msg_q) - 1 /\ Len(msg_q) \in Nat \ {0}
      /\ \A i \in 1 .. Len(msg_q') : i + 1 \in 1 .. Len(msg_q) /\ msg_q'[i] = msg_q[i + 1]
  BY <1>1
<1>3. owner_pc' = "disconnected" => Eof(1) /\ handled' = handled
  BY <1>1 DEF PickMsg, LeavePick, OwnerGoes, Dispatch, Message, Eof
<1>4. EofSeen' => EofSeen
  BY <1>1, <1>2, <1>3 DEF EofSeen, Eof
<1>5. EofSeen' => server' # "up" /\ queued' = sent'
  BY <1>1, <1>4 DEF EofFinal
<1>6. \A i, j \in 1 .. Len(msg_q') : i < j /\ Eof(i)' => ~Data(j)'
  <2> SUFFICES ASSUME NEW i \in 1 .. Len(msg_q'), NEW j \in 1 .. Len(msg_q'), i < j, Eof(i)'
               PROVE  ~Data(j)'
    OBVIOUS
  <2>1. i + 1 < j + 1 /\ Eof(i + 1) /\ (Data(j)' <=> Data(j + 1))
    BY <1>2 DEF Eof, Data
  <2> QED
    BY <1>2, <2>1 DEF EofFinal
<1>7. Eof(1) => handled = queued
  <2>1. ASSUME Eof(1), handled # queued PROVE FALSE
    <3>1. handled + 1 \in handled + 1 .. queued
      BY <1>1, <2>1 DEF TypeInv, QueueOK
    <3>2. PICK i \in 1 .. Len(msg_q) : Data(i) /\ msg_q[i].n = handled + 1
      BY <3>1 DEF TypeInv, QueueOK
    <3>3. i = 1
      BY <1>2, <2>1, <3>2 DEF EofFinal
    <3> QED
      BY <2>1, <3>2, <3>3 DEF Eof, Data
  <2> QED
    BY <2>1
<1>8. owner_pc' = "disconnected" => handled' = queued'
  BY <1>1, <1>3, <1>7
<1> QED
  BY <1>5, <1>6, <1>8 DEF EofFinal

LEMMA NextEofFinal == TypeInv /\ EofFinal /\ [Next]_vars => EofFinal'
<1> SUFFICES ASSUME TypeInv, EofFinal, [Next]_vars PROVE EofFinal'
  OBVIOUS
<1> USE DEF flag_vars, sem_vars, thread_vars, server_vars
<1>1. CASE UNCHANGED vars
  BY <1>1 DEF vars, EofFinal, EofSeen, Eof, Data
<1>2. CASE ServerActs
  BY <1>2 DEF ServerActs, EofFinal, EofSeen, Eof, Data
<1>3. CASE SendReaches
  BY <1>3 DEF SendReaches, EofFinal, EofSeen, Eof, Data
<1>4. CASE Kernel
  <2>1. CASE RecvReturnsData
    <3>1. queued < sent /\ sent \in Nat /\ queued \in Nat
      BY <2>1, BoundsAssumption DEF RecvReturnsData, TypeInv, TypeOK
    <3>2. ~EofSeen
      BY <3>1 DEF EofFinal
    <3> QED
      BY <2>1, <3>2 DEF RecvReturnsData, Returned, EofFinal, EofSeen, Eof, Data
  <2>2. CASE RecvReturnsEof
    BY <2>2 DEF RecvReturnsEof, Returned, EofFinal, EofSeen, Eof, Data
  <2>3. CASE RecvFails
    BY <2>3 DEF RecvFails, Returned, EofFinal, EofSeen, Eof, Data
  <2> QED
    BY <1>4, <2>1, <2>2, <2>3 DEF Kernel
<1>5. CASE LockWeakPtr \/ Acquire \/ LoopTest \/ ReadRecvArgs \/ ReceiverThrows
  <2>1. UNCHANGED <<msg_q, owner_pc, ret, server, sent, queued, handled>>
    BY <1>5 DEF LockWeakPtr, Acquire, LoopTest, ReadRecvArgs, ReceiverThrows
  <2>2. ret = "eof" /\ receiver_pc' \in {"lock", "acquire", "body"}
          => receiver_pc \in {"lock", "acquire", "body"}
    BY <1>5 DEF LockWeakPtr, Acquire, LoopTest, ReadRecvArgs, ReceiverThrows
  <2>3. EofSeen' => EofSeen
    BY <2>1, <2>2 DEF EofSeen, Eof
  <2> QED
    BY <2>1, <2>3 DEF EofFinal, Eof, Data
<1>6. CASE ReportRecvError /\ UNCHANGED msg_q
  BY <1>6 DEF ReportRecvError, Body, EofFinal, EofSeen, Eof, Data
<1>7. CASE ReportRecvError /\ Enqueue([type |-> "critical_error"])
  <2>1. [type |-> "critical_error"] \in Message
    BY DEF Message
  <2> QED
    BY <1>7, <2>1, EnqueueKeepsEof DEF ReportRecvError, Body
<1>8. CASE QueueDisconnect
  <2>1. [type |-> "disconnect_unexpectly"] \in Message
    BY DEF Message
  <2>2. EofSeen
    BY <1>8 DEF QueueDisconnect, Body, EofSeen
  <2> QED
    BY <1>8, <2>1, <2>2, EnqueueKeepsEof DEF QueueDisconnect, Body
<1>9. CASE QueueData
  <2>1. queued < sent /\ sent \in 0 .. MaxChunks /\ queued \in Nat
    BY <1>9, BoundsAssumption DEF QueueData, Body, TypeInv, TypeOK, DataPending
  <2>2. [type |-> "msg", n |-> queued + 1] \in Message
    BY <2>1, BoundsAssumption DEF Message
  <2>3. ~EofSeen /\ ret = "data"
    BY <1>9, <2>1 DEF QueueData, Body, EofFinal
  <2> QED
    BY <1>9, <2>2, <2>3, EnqueueKeepsEof DEF QueueData, Body
<1>10. CASE ReportException
  <2>1. [type |-> "critical_error"] \in Message
    BY DEF Message
  <2> QED
    BY <1>10, <2>1, EnqueueKeepsEof DEF ReportException
<1>11. CASE ConnectChecks \/ (OwnerStep /\ ~PickMsg)
  <2>1. /\ UNCHANGED <<msg_q, ret, server, sent, queued, handled>>
        /\ owner_pc' = "disconnected" => owner_pc = "disconnected"
    BY <1>11 DEF ConnectChecks, OwnerStep, Connects, FailsToConnect, OnConnectEnds, MakeSem,
       StartReceiver, FailsToStart, BeginPick, HandlerEnds, LeavePick, Destroy, OwnerGoes
  <2>2. receiver_pc' = receiver_pc \/ (receiver_pc' = "lock" /\ ret = "none")
    BY <1>11 DEF ConnectChecks, OwnerStep, Connects, FailsToConnect, OnConnectEnds, MakeSem,
       StartReceiver, FailsToStart, BeginPick, HandlerEnds, LeavePick, Destroy, OwnerGoes,
       TypeInv, StartedOnce
  <2>3. EofSeen' => EofSeen
    BY <2>1, <2>2 DEF EofSeen, Eof
  <2> QED
    BY <2>1, <2>3 DEF EofFinal, Eof, Data
<1>12. CASE PickMsg
  BY <1>12, PickKeepsEof
<1>13. ASSUME NEW c \in Closers, ExchangeFinished(c) \/ CloserStep(c)
       PROVE  EofFinal'
  <2>1. UNCHANGED <<owner_pc, receiver_pc, ret, server, sent, queued, handled>>
    BY <1>13 DEF ExchangeFinished, CloserStep, QueueFinish, TestBeginPick, WaitForFinishPick,
       TestConnected, TakeSem, DerefNullSem, CloseSocket, CloserGoes
  <2>2. CASE Enqueue([type |-> "finish"])
    <3>1. [type |-> "finish"] \in Message
      BY DEF Message
    <3>2. ret' = "eof" /\ receiver_pc' \in {"lock", "acquire", "body"} => EofSeen
      BY <2>1 DEF EofSeen
    <3> QED
      BY <2>1, <2>2, <3>1, <3>2, EnqueueKeepsEof
  <2>3. CASE UNCHANGED msg_q
    BY <2>1, <2>3 DEF EofFinal, EofSeen, Eof, Data
  <2> QED
    BY <1>13, <2>2, <2>3 DEF ExchangeFinished, CloserStep, QueueFinish, TestBeginPick,
       WaitForFinishPick, TestConnected, TakeSem, DerefNullSem, CloseSocket
<1> QED
  BY <1>1, <1>2, <1>3, <1>4, <1>5, <1>6, <1>7, <1>8, <1>9, <1>10, <1>11, <1>12, <1>13
     DEF Next, Receiver, Connect, ReportRecvError

LEMMA InitEofFinal == Init => EofFinal
  BY DEF Init, EofFinal, EofSeen

LEMMA EofInvariance == Spec => []EofFinal
  BY InitEofFinal, NextEofFinal, TypeInvariance, PTL DEF Spec

(* When connect() throws disconnect_unexpectedly, on_receive was called    *)
(* with every chunk that the server sent and no reset threw away.          *)
THEOREM DisconnectComesLast == Spec => []DataBeforeDisconnect
<1>1. EofFinal => DataBeforeDisconnect
  BY DEF EofFinal, EofSeen, DataBeforeDisconnect
<1> QED
  BY <1>1, EofInvariance, PTL

-----------------------------------------------------------------------------
(* The stream is quiet when it has ended, if the end does not come between *)
(* connect()'s checks and the connection: it would find nothing to close,  *)
(* and connect() would go on.                                              *)

NoEarlyEnd == is_finished => owner_pc # "checked"

Connectedness ==
  /\ is_connected => owner_pc \notin {"idle", "checked"}
  /\ ~is_connected => owner_pc \in {"idle", "checked", "threw"} /\ receiver_pc = "unborn"

EndOK ==
  /\ is_finished => closed \/ ~is_connected \/ \E c \in Closers : closer_pc[c] \in Ender
  /\ closer_pc[Owner] # "out" => \A o \in Others : closer_pc[o] \in {"out", "returned"}
  /\ destroyed => closer_pc[Owner] = "returned"

LEMMA NextConnectedness == TypeInv /\ Connectedness /\ [Next]_vars => Connectedness'
<1> SUFFICES ASSUME TypeInv, Connectedness, [Next]_vars PROVE Connectedness'
  OBVIOUS
<1> USE DEF Connectedness, flag_vars, thread_vars
<1>1. CASE ServerActs \/ SendReaches \/ Kernel \/ UNCHANGED vars
  BY <1>1 DEF ServerActs, SendReaches, Kernel, RecvReturnsData, RecvReturnsEof, RecvFails,
     Returned, vars
<1>2. CASE Receiver
  BY <1>2 DEF Receiver, LockWeakPtr, Acquire, LoopTest, ReadRecvArgs, ReceiverThrows,
     ReportRecvError, QueueDisconnect, QueueData, ReportException, Body
<1>3. CASE Connects
  BY <1>3 DEF Connects, OwnerGoes
<1>4. CASE ConnectChecks \/ FailsToConnect
  BY <1>4 DEF ConnectChecks, FailsToConnect, OwnerGoes
<1>5. CASE OwnerStep /\ ~Connects /\ ~FailsToConnect
  <2>1. is_connected' = is_connected /\ (owner_pc \notin {"idle", "checked", "threw"} \/ Destroy)
    BY <1>5 DEF OwnerStep, OnConnectEnds, MakeSem, StartReceiver,
       FailsToStart, BeginPick, PickMsg, HandlerEnds, LeavePick, Destroy, OwnerGoes
  <2>2. CASE Destroy
    BY <2>2 DEF Destroy
  <2>3. CASE ~Destroy
    <3>1. is_connected
      BY <2>1, <2>3
    <3>2. owner_pc' \notin {"idle", "checked"}
      BY <1>5, <2>3, DispatchRange DEF Left, OwnerStep, OnConnectEnds, MakeSem, StartReceiver,
         FailsToStart, BeginPick, PickMsg, HandlerEnds, LeavePick, OwnerGoes
    <3> QED
      BY <2>1, <3>1, <3>2
  <2> QED
    BY <2>2, <2>3
<1>6. ASSUME NEW c \in Closers, ExchangeFinished(c) \/ CloserStep(c)
      PROVE  Connectedness'
  BY <1>6 DEF ExchangeFinished, CloserStep, QueueFinish, TestBeginPick, WaitForFinishPick,
     TestConnected, TakeSem, DerefNullSem, CloseSocket, CloserGoes
<1> QED
  BY <1>1, <1>2, <1>3, <1>4, <1>5, <1>6 DEF Next, Connect

LEMMA ConnectednessInvariance == Spec => []Connectedness
<1>1. Init => Connectedness
  BY DEF Init, Connectedness
<1> QED
  BY <1>1, NextConnectedness, TypeInvariance, PTL DEF Spec

LEMMA NextEndOK ==
  TypeInv /\ OneEnder /\ NoEarlyEnd /\ EndOK /\ [Next]_vars => EndOK'
<1> SUFFICES ASSUME TypeInv, OneEnder, NoEarlyEnd, EndOK, [Next]_vars PROVE EndOK'
  OBVIOUS
<1> USE DEF flag_vars, thread_vars
<1>1. Owner \in Closers /\ \A o \in Others : o \in Closers /\ o # Owner
  BY ActorsAssumption DEF Closers
<1>2. ASSUME NEW c \in Closers, ExchangeFinished(c)
      PROVE  EndOK'
  <2>1. /\ closer_pc[c] = "out" /\ is_connected' = is_connected
        /\ closer_pc'[c] = IF is_finished THEN "returned" ELSE "emplace"
        /\ \A d \in Closers : d # c => closer_pc'[d] = closer_pc[d]
        /\ UNCHANGED <<closed, destroyed>>
    BY <1>2 DEF ExchangeFinished, CloserGoes, TypeInv, TypeOK
  <2>2. is_finished' => closed' \/ ~is_connected' \/ \E d \in Closers : closer_pc'[d] \in Ender
    BY <2>1 DEF EndOK, Ender
  <2>3. closer_pc'[Owner] # "out" => \A o \in Others : closer_pc'[o] \in {"out", "returned"}
    <3>1. CASE c = Owner
      <4>1. \A o \in Others : closer_pc[o] \in {"out", "returned"}
        <5>1. ~Crashed
          BY <1>2, <2>1 DEF Next, vars, Crashed, OneEnder, Ender
        <5> QED
          BY <1>1, <1>2, <3>1, <5>1 DEF ExchangeFinished, MayEnd, InEnd, Crashed
      <4> QED
        BY <1>1, <2>1, <3>1, <4>1
    <3>2. CASE c # Owner
      BY <1>1, <1>2, <2>1, <3>2 DEF ExchangeFinished, MayEnd
    <3> QED
      BY <3>1, <3>2
  <2>4. destroyed' => closer_pc'[Owner] = "returned"
    BY <1>1, <2>1 DEF EndOK
  <2> QED
    BY <2>2, <2>3, <2>4 DEF EndOK
<1>3. ASSUME NEW c \in Closers, CloserStep(c)
      PROVE  EndOK'
  <2>1. /\ closer_pc[c] \in Ender /\ closer_pc'[c] \in Ender \cup {"returned"}
        /\ \A d \in Closers : d # c => closer_pc'[d] = closer_pc[d]
        /\ is_finished' = is_finished
    BY <1>3, EnderGoesOn
  <2>2. /\ UNCHANGED <<is_connected, destroyed>>
        /\ closed => closed'
        /\ closer_pc'[c] = "returned" => closed' \/ ~is_connected
    BY <1>3 DEF CloserStep, QueueFinish, TestBeginPick, WaitForFinishPick,
       TestConnected, TakeSem, DerefNullSem, CloseSocket, CloserGoes, TypeInv, TypeOK
  <2>3. is_finished' => closed' \/ ~is_connected' \/ \E d \in Closers : closer_pc'[d] \in Ender
    BY <2>1, <2>2
  <2>4. closer_pc'[Owner] # "out" => \A o \in Others : closer_pc'[o] \in {"out", "returned"}
    BY <1>1, <2>1 DEF EndOK, Ender
  <2>5. destroyed' => closer_pc'[Owner] = "returned"
    BY <1>1, <2>1, <2>2 DEF EndOK, Ender
  <2> QED
    BY <2>3, <2>4, <2>5 DEF EndOK
<1>4. ASSUME UNCHANGED <<is_finished, closed, closer_pc>>,
             is_connected' => is_connected \/ owner_pc = "checked",
             destroyed' => destroyed \/ closer_pc[Owner] = "returned"
      PROVE  EndOK'
  BY <1>4 DEF EndOK, NoEarlyEnd
<1>5. CASE ServerActs \/ SendReaches \/ Kernel \/ UNCHANGED vars
  BY <1>4, <1>5, OthersLeaveEnd DEF ServerActs, SendReaches, Kernel, RecvReturnsData,
     RecvReturnsEof, RecvFails, Returned, vars
<1>6. CASE Receiver
  BY <1>4, <1>6, OthersLeaveEnd DEF Receiver, LockWeakPtr, Acquire, LoopTest, ReadRecvArgs,
     ReceiverThrows, ReportRecvError, QueueDisconnect, QueueData, ReportException, Body
<1>7. CASE ConnectChecks \/ OwnerStep
  BY <1>4, <1>7, OthersLeaveEnd DEF ConnectChecks, OwnerStep, Connects, FailsToConnect,
     OnConnectEnds, MakeSem, StartReceiver, FailsToStart, BeginPick, PickMsg, HandlerEnds,
     LeavePick, Destroy, OwnerGoes
<1> QED
  BY <1>2, <1>3, <1>5, <1>6, <1>7 DEF Next, Connect

LEMMA QuietInv ==
  TypeInv /\ OnePermit /\ EndInv /\ Connectedness /\ EndOK => QuietAfterEnd
<1> SUFFICES ASSUME TypeInv, OnePermit, EndInv, Connectedness, EndOK, closed \/ destroyed
             PROVE  receiver_pc \notin Holding
  BY DEF QuietAfterEnd
<1>1. CASE closed
  <2>1. ~sem_owned
    BY <1>1 DEF EndInv, SemLife, Ended
  <2> QED
    BY <2>1 DEF OnePermit
<1>2. CASE ~closed
  <2>1. closer_pc[Owner] = "returned" /\ \A o \in Others : closer_pc[o] \in {"out", "returned"}
    BY <1>2 DEF EndOK
  <2>2. is_finished /\ \A c \in Closers : closer_pc[c] \notin Ender
    BY <2>1 DEF EndInv, OneEnder, Ender, Closers
  <2>3. ~is_connected
    BY <1>2, <2>2 DEF EndOK
  <2> QED
    BY <2>3 DEF Connectedness, Holding
<1> QED
  BY <1>1, <1>2

(* A user who does not call end_communication() before on_connect runs:    *)
(* once the socket is closed or the stream destroyed, the receiver is out  *)
(* of what the semaphore guards, for good.                                 *)
THEOREM QuietUnlessEarly ==
  ASSUME ~EarlyStop
  PROVE  Spec => []QuietAfterEnd
<1>1. Init => NoEarlyEnd /\ EndOK
  BY ActorsAssumption DEF Init, NoEarlyEnd, EndOK, Closers
<1>2. TypeInv /\ Connectedness /\ NoEarlyEnd /\ [Next]_vars => NoEarlyEnd'
  <2> SUFFICES ASSUME TypeInv, Connectedness, NoEarlyEnd, [Next]_vars
               PROVE  NoEarlyEnd'
    OBVIOUS
  <2>1. CASE ConnectChecks
    BY <2>1 DEF ConnectChecks, OwnerGoes, NoEarlyEnd
  <2>2. ASSUME NEW c \in Closers, ExchangeFinished(c)
        PROVE  NoEarlyEnd'
    BY <2>2 DEF ExchangeFinished, CloserGoes, MayEnd, Connectedness, NoEarlyEnd, Left, Closers
  <2>3. ASSUME NEW c \in Closers, CloserStep(c)
        PROVE  NoEarlyEnd'
    <3>1. is_finished' = is_finished /\ owner_pc' = owner_pc
      BY <2>3, EnderGoesOn DEF CloserStep, QueueFinish, TestBeginPick, WaitForFinishPick,
         TestConnected, TakeSem, DerefNullSem, CloseSocket, CloserGoes
    <3> QED
      BY <3>1 DEF NoEarlyEnd
  <2>4. CASE ServerActs \/ SendReaches \/ Kernel \/ Receiver \/ OwnerStep \/ UNCHANGED vars
    <3>1. is_finished' = is_finished
      BY <2>4, OthersLeaveEnd
    <3>2. owner_pc' # "checked" \/ owner_pc' = owner_pc
      <4>1. CASE OwnerStep
        BY <4>1, DispatchRange DEF Left, OwnerStep, Connects, FailsToConnect, OnConnectEnds,
           MakeSem, StartReceiver, FailsToStart, BeginPick, PickMsg, HandlerEnds, LeavePick,
           Destroy, OwnerGoes, thread_vars
      <4>2. CASE Receiver
        BY <4>2 DEF Receiver, LockWeakPtr, Acquire, LoopTest, ReadRecvArgs, ReceiverThrows,
           ReportRecvError, QueueDisconnect, QueueData, ReportException, Body
      <4>3. CASE ServerActs \/ SendReaches \/ Kernel \/ UNCHANGED vars
        BY <4>3 DEF ServerActs, SendReaches, Kernel, RecvReturnsData, RecvReturnsEof, RecvFails,
           Returned, vars, thread_vars
      <4> QED
        BY <2>4, <4>1, <4>2, <4>3
    <3> QED
      BY <3>1, <3>2 DEF NoEarlyEnd
  <2> QED
    BY <2>1, <2>2, <2>3, <2>4 DEF Next, Connect
<1>3. EndInv => OneEnder
  BY DEF EndInv
<1> QED
  BY <1>1, <1>2, <1>3, NextEndOK, QuietInv, TypeInvariance, EndInvariance,
     ConnectednessInvariance, PermitIsSingle, PTL DEF Spec
=============================================================================
