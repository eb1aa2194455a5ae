------------------------- MODULE ServerStreamProofs -------------------------
(***************************************************************************)
(* Proofs about ServerStream, for any number of connections and threads,   *)
(* and, at the end, about ServerSending, which extends it: for any number  *)
(* of messages between the server and a peer, too.  What is shown of the   *)
(* stream holds with the sends as well, although a send can do to a        *)
(* connection what ServerStream's peers do not: reset it after it was      *)
(* closed.                                                                 *)
(***************************************************************************)
EXTENDS ServerSending, FiniteSetTheorems, FunctionTheorems, TLAPS

-----------------------------------------------------------------------------
(* Type correctness.  TypeOK is not inductive: that a chunk put into the   *)
(* queue is within bounds rests on what recv() returned it for, and that a *)
(* receiving thread starts out with no result of recv() rests on one       *)
(* connection being accepted once.                                         *)

(* A worker whose recv() returned data has a chunk left to queue.          *)
DataPending ==
  \A f \in Conns :
    ret[f] = "data" /\ worker_pc[f] \in {"lock", "acquire", "body"}
      => queued[f] < sent[f]

(* A connection is accepted once, and its thread starts once, after that.  *)
AcceptedOnce ==
  \A f \in Conns :
    /\ peer[f] \in {"absent", "backlog"} => worker_pc[f] = "unborn" /\ ret[Acceptor] # f
    /\ ret[Acceptor] = f /\ worker_pc[Acceptor] \in {"lock", "acquire", "body"}
         => worker_pc[f] = "unborn"

(* The accepting thread starts once, and a thread that has not started has *)
(* no result of a system call.                                             *)
StartedOnce ==
  /\ owner_pc \in {"idle", "checked", "bound", "ready", "sem_made"}
       => worker_pc[Acceptor] = "unborn"
  /\ \A w \in Workers : worker_pc[w] = "unborn" => ret[w] = "none"
  /\ worker_pc[Acceptor] \notin {"args", "hung_up"}

TypeInv ==
  /\ TypeOK
  /\ DataPending
  /\ AcceptedOnce
  /\ StartedOnce

LEMMA InitTypeInv == Init => TypeInv
<1> SUFFICES ASSUME Init PROVE TypeInv
  OBVIOUS
<1>1. TypeOK
  <2>1. msg_q \in Seq(Message) /\ client_fds \in SUBSET Conns /\ faults \in 0 .. MaxFaults
    BY BoundsAssumption DEF Init
  <2>2. /\ sem_owned \in [Workers -> BOOLEAN] /\ sem_free \in [Workers -> BOOLEAN]
        /\ worker_pc \in [Workers -> WorkerStates] /\ ret \in [Workers -> Returns]
    BY DEF Init, WorkerStates, Returns
  <2>3. /\ closer_pc \in [Closers -> CloserStates] /\ owner_pc \in OwnerStates
        /\ peer \in [Conns -> PeerStates]
    BY DEF Init, CloserStates, OwnerStates, PeerStates
  <2>4. sent \in [Conns -> 0 .. MaxChunks] /\ queued \in [Conns -> 0 .. MaxChunks]
    BY BoundsAssumption DEF Init
  <2> QED
    BY <2>1, <2>2, <2>3, <2>4 DEF Init, TypeOK
<1>2. DataPending /\ AcceptedOnce /\ StartedOnce
  BY ActorsAssumption DEF Init, DataPending, AcceptedOnce, StartedOnce, Workers
<1> QED
  BY <1>1, <1>2 DEF TypeInv

LEMMA KernelTypeInv == TypeInv /\ Kernel => TypeInv'
<1> USE ActorsAssumption, BoundsAssumption
    DEF Workers, stream_vars, flag_vars, sem_vars, thread_vars, Returned
<1> SUFFICES ASSUME TypeInv, Kernel PROVE TypeInv'
  OBVIOUS
<1>1. CASE AcceptFails
  BY <1>1 DEF AcceptFails, TypeInv, TypeOK, DataPending, AcceptedOnce, StartedOnce, WorkerStates, Returns
<1>2. ASSUME NEW f \in Conns, PeerConnects(f) PROVE TypeInv'
  BY <1>2 DEF PeerConnects, PeerStates,
     TypeInv, TypeOK, DataPending, AcceptedOnce, StartedOnce
<1>3. ASSUME NEW f \in Conns, PeerSends(f) PROVE TypeInv'
  BY <1>3 DEF PeerSends, kernel_vars,
     TypeInv, TypeOK, DataPending, AcceptedOnce, StartedOnce
<1>4. ASSUME NEW f \in Conns, PeerCloses(f) PROVE TypeInv'
  BY <1>4 DEF PeerCloses, PeerStates,
     TypeInv, TypeOK, DataPending, AcceptedOnce, StartedOnce
<1>5. ASSUME NEW f \in Conns, PeerResets(f) PROVE TypeInv'
  BY <1>5 DEF PeerResets, PeerStates,
     TypeInv, TypeOK, DataPending, AcceptedOnce, StartedOnce
<1>6. ASSUME NEW f \in Conns, AcceptReturns(f) PROVE TypeInv'
  BY <1>6 DEF AcceptReturns, PeerStates, WorkerStates, Returns,
     TypeInv, TypeOK, DataPending, AcceptedOnce, StartedOnce
<1>7. ASSUME NEW f \in Conns, RecvReturnsData(f) PROVE TypeInv'
  BY <1>7 DEF RecvReturnsData, WorkerStates, Returns,
     TypeInv, TypeOK, DataPending, AcceptedOnce, StartedOnce
<1>8. ASSUME NEW f \in Conns, RecvReturnsEof(f) PROVE TypeInv'
  BY <1>8 DEF RecvReturnsEof, WorkerStates, Returns,
     TypeInv, TypeOK, DataPending, AcceptedOnce, StartedOnce
<1>9. ASSUME NEW f \in Conns, RecvFails(f) PROVE TypeInv'
  BY <1>9 DEF RecvFails, PeerStates, WorkerStates, Returns,
     TypeInv, TypeOK, DataPending, AcceptedOnce, StartedOnce
<1> QED
  BY <1>1, <1>2, <1>3, <1>4, <1>5, <1>6, <1>7, <1>8, <1>9 DEF Kernel

LEMMA Enqueued ==
  ASSUME TypeInv, NEW m \in Message
  PROVE  Append(msg_q, m) \in Seq(Message)
BY DEF TypeInv, TypeOK

LEMMA WorkerTypeInv ==
  ASSUME TypeInv, NEW w \in Workers, WorkerStep(w) PROVE TypeInv'
<1> USE ActorsAssumption, BoundsAssumption
    DEF Workers, Closers, stream_vars, flag_vars, sem_vars, thread_vars, kernel_vars
<1>1. CASE LockWeakPtr(w)
  BY <1>1 DEF LockWeakPtr, WorkerStates,
     TypeInv, TypeOK, DataPending, AcceptedOnce, StartedOnce
<1>2. CASE Acquire(w)
  BY <1>2 DEF Acquire, WorkerStates,
     TypeInv, TypeOK, DataPending, AcceptedOnce, StartedOnce
<1>3. CASE LoopTest(w)
  BY <1>3 DEF LoopTest, WorkerStates,
     TypeInv, TypeOK, DataPending, AcceptedOnce, StartedOnce
<1>4. CASE ReportSyscallError(w)
  <2>1. [type |-> "error"] \in Message
    BY DEF Message
  <2>2. msg_q' \in Seq(Message)
    <3>1. msg_q' = msg_q \/ msg_q' = Append(msg_q, [type |-> "error"])
      BY <1>4 DEF ReportSyscallError, Enqueue
    <3>2. Append(msg_q, [type |-> "error"]) \in Seq(Message)
      BY <2>1, Enqueued
    <3>3. msg_q \in Seq(Message)
      BY DEF TypeInv, TypeOK
    <3> QED
      BY <3>1, <3>2, <3>3
  <2> QED
    BY <1>4, <2>2 DEF ReportSyscallError, WorkerStates,
     TypeInv, TypeOK, DataPending, AcceptedOnce, StartedOnce
<1>5. CASE WorkerThrows(w)
  BY <1>5 DEF WorkerThrows, WorkerStates, Returns,
     TypeInv, TypeOK, DataPending, AcceptedOnce, StartedOnce
<1>6. CASE ReportException(w)
  <2>1. [type |-> "error"] \in Message /\ [type |-> "critical_error"] \in Message
    BY DEF Message
  <2>2. msg_q' \in Seq(Message)
    <3>1. \/ msg_q' = Append(msg_q, [type |-> "critical_error"])
          \/ msg_q' = Append(msg_q, [type |-> "error"])
      BY <1>6 DEF ReportException, Enqueue
    <3> QED
      BY <2>1, <3>1, Enqueued
  <2> QED
    BY <1>6, <2>2 DEF ReportException, WorkerStates,
     TypeInv, TypeOK, DataPending, AcceptedOnce, StartedOnce
<1>7. ASSUME NEW f \in Conns, w = Acceptor, AcceptClient(f) PROVE TypeInv'
  BY <1>7 DEF AcceptClient, WorkerStates,
     TypeInv, TypeOK, DataPending, AcceptedOnce, StartedOnce
<1>8. ASSUME NEW f \in Conns, w = f, ReadRecvArgs(f) PROVE TypeInv'
  BY <1>8 DEF ReadRecvArgs, WorkerStates,
     TypeInv, TypeOK, DataPending, AcceptedOnce, StartedOnce
<1>9. ASSUME NEW f \in Conns, w = f, QueueData(f) PROVE TypeInv'
  <2>1. [type |-> "msg", fd |-> f, n |-> queued[f] + 1] \in Message
    BY <1>9 DEF QueueData, TypeInv, TypeOK, DataPending, AcceptedOnce, StartedOnce, Message
  <2>2. msg_q' \in Seq(Message)
    BY <1>9, <2>1 DEF QueueData, Enqueue, TypeInv, TypeOK
  <2> QED
    BY <1>9, <2>2 DEF QueueData, WorkerStates,
     TypeInv, TypeOK, DataPending, AcceptedOnce, StartedOnce
<1>10. ASSUME NEW f \in Conns, w = f, HangUp(f) PROVE TypeInv'
  BY <1>10 DEF HangUp, WorkerStates,
     TypeInv, TypeOK, DataPending, AcceptedOnce, StartedOnce
<1>11. ASSUME NEW f \in Conns, w = f, QueueDisconnect(f) PROVE TypeInv'
  <2>1. [type |-> "disconnect", fd |-> f] \in Message
    BY <1>11 DEF QueueDisconnect, TypeInv, TypeOK, DataPending, AcceptedOnce, StartedOnce, Message
  <2>2. msg_q' \in Seq(Message)
    BY <1>11, <2>1 DEF QueueDisconnect, Enqueue, TypeInv, TypeOK
  <2> QED
    BY <1>11, <2>2 DEF QueueDisconnect, WorkerStates,
     TypeInv, TypeOK, DataPending, AcceptedOnce, StartedOnce
<1> QED
  BY <1>1, <1>2, <1>3, <1>4, <1>5, <1>6, <1>7, <1>8, <1>9, <1>10, <1>11 DEF WorkerStep

LEMMA Dispatched ==
  ASSUME TypeInv, PickMsg
  PROVE  /\ msg_q' \in Seq(Message)
         /\ Dispatch(Head(msg_q).type) \in {"returned", "threw", "pick", "handler"}
<1>1. Head(msg_q) \in Message /\ msg_q' \in Seq(Message)
  BY DEF PickMsg, TypeInv, TypeOK
<1>2. Head(msg_q).type \in {"finish", "critical_error", "error", "msg", "disconnect"}
  BY <1>1 DEF Message
<1> QED
  BY <1>1, <1>2 DEF Dispatch

LEMMA OwnerTypeInv ==
  ASSUME TypeInv, OwnerStep PROVE TypeInv'
<1> USE ActorsAssumption, BoundsAssumption
    DEF Workers, Closers, stream_vars, flag_vars, sem_vars, thread_vars, kernel_vars
<1>1. CASE ListenChecks
  BY <1>1 DEF ListenChecks, OwnerStates,
     TypeInv, TypeOK, DataPending, AcceptedOnce, StartedOnce
<1>2. CASE Bind
  BY <1>2 DEF Bind, OwnerStates,
     TypeInv, TypeOK, DataPending, AcceptedOnce, StartedOnce
<1>3. CASE ListenCall
  BY <1>3 DEF ListenCall, OwnerStates,
     TypeInv, TypeOK, DataPending, AcceptedOnce, StartedOnce
<1>4. CASE StartAccepting
  BY <1>4 DEF StartAccepting, OwnerStates, WorkerStates,
     TypeInv, TypeOK, DataPending, AcceptedOnce, StartedOnce
<1>9. CASE MakeAcceptSem
  BY <1>9 DEF MakeAcceptSem, OwnerStates,
     TypeInv, TypeOK, DataPending, AcceptedOnce, StartedOnce
<1>5. CASE BeginPick
  BY <1>5 DEF BeginPick, OwnerStates,
     TypeInv, TypeOK, DataPending, AcceptedOnce, StartedOnce
<1>6. CASE PickMsg
  BY <1>6, Dispatched DEF PickMsg, OwnerStates, LeavePick,
     TypeInv, TypeOK, DataPending, AcceptedOnce, StartedOnce
<1>7. CASE HandlerEnds
  BY <1>7 DEF HandlerEnds, OwnerStates, LeavePick,
     TypeInv, TypeOK, DataPending, AcceptedOnce, StartedOnce
<1>8. CASE Destroy
  BY <1>8 DEF Destroy,
     TypeInv, TypeOK, DataPending, AcceptedOnce, StartedOnce
<1> QED
  BY <1>1, <1>2, <1>3, <1>4, <1>5, <1>6, <1>7, <1>8, <1>9 DEF OwnerStep

LEMMA CloserTypeInv ==
  ASSUME TypeInv, NEW c \in Closers, ExchangeFinished(c) \/ CloserStep(c) PROVE TypeInv'
<1> USE ActorsAssumption, BoundsAssumption
    DEF Workers, Closers, stream_vars, flag_vars, sem_vars, thread_vars, kernel_vars
<1>1. CASE ExchangeFinished(c)
  BY <1>1 DEF ExchangeFinished, CloserStates, CloserGoes,
     TypeInv, TypeOK, DataPending, AcceptedOnce, StartedOnce
<1>2. CASE QueueFinish(c)
  <2>1. [type |-> "finish"] \in Message
    BY <1>2 DEF QueueFinish, TypeInv, TypeOK, DataPending, AcceptedOnce, StartedOnce, Message
  <2>2. msg_q' \in Seq(Message)
    BY <1>2, <2>1 DEF QueueFinish, Enqueue, TypeInv, TypeOK
  <2> QED
    BY <1>2, <2>2 DEF QueueFinish, CloserStates, CloserGoes,
     TypeInv, TypeOK, DataPending, AcceptedOnce, StartedOnce
<1>3. CASE TestBeginPick(c)
  BY <1>3 DEF TestBeginPick, CloserStates, CloserGoes,
     TypeInv, TypeOK, DataPending, AcceptedOnce, StartedOnce
<1>4. CASE WaitForFinishPick(c)
  BY <1>4 DEF WaitForFinishPick, CloserStates, CloserGoes,
     TypeInv, TypeOK, DataPending, AcceptedOnce, StartedOnce
<1>5. CASE TestConnected(c)
  BY <1>5 DEF TestConnected, CloserStates, CloserGoes,
     TypeInv, TypeOK, DataPending, AcceptedOnce, StartedOnce
<1>6. CASE TakeAcceptSem(c)
  BY <1>6 DEF TakeAcceptSem, CloserStates, CloserGoes, TakeForGood,
     TypeInv, TypeOK, DataPending, AcceptedOnce, StartedOnce
<1>7. CASE DerefNullSem(c)
  BY <1>7 DEF DerefNullSem, CloserStates, CloserGoes,
     TypeInv, TypeOK, DataPending, AcceptedOnce, StartedOnce
<1>8. ASSUME NEW f \in Conns, TakeClientSem(c, f) PROVE TypeInv'
  BY <1>8 DEF TakeClientSem, CloserStates, CloserGoes, TakeForGood,
     TypeInv, TypeOK, DataPending, AcceptedOnce, StartedOnce
<1>9. CASE CloseSocket(c)
  BY <1>9 DEF CloseSocket, CloserStates, CloserGoes,
     TypeInv, TypeOK, DataPending, AcceptedOnce, StartedOnce
<1> QED
  BY <1>1, <1>2, <1>3, <1>4, <1>5, <1>6, <1>7, <1>8, <1>9 DEF CloserStep

LEMMA NextTypeInv == TypeInv /\ [Next]_vars => TypeInv'
<1> SUFFICES ASSUME TypeInv, [Next]_vars PROVE TypeInv'
  OBVIOUS
<1>1. CASE UNCHANGED vars
  BY <1>1 DEF vars, stream_vars, flag_vars, sem_vars, thread_vars, kernel_vars,
     TypeInv, TypeOK, DataPending, AcceptedOnce, StartedOnce
<1>2. CASE Next
  BY <1>2, KernelTypeInv, WorkerTypeInv, OwnerTypeInv, CloserTypeInv DEF Next
<1> QED
  BY <1>1, <1>2

LEMMA TypeInvariance == Spec => []TypeInv
BY InitTypeInv, NextTypeInv, PTL DEF Spec

(* Every variable of the stream stays within its type: chunks are numbered *)
(* within bounds, and m_msg_q never holds anything but the messages that   *)
(* pick_msg() knows how to dispatch.                                       *)
THEOREM TypeCorrect == Spec => []TypeOK
<1>1. TypeInv => TypeOK
  BY DEF TypeInv
<1> QED
  BY <1>1, TypeInvariance, PTL

-----------------------------------------------------------------------------
(* One permit per semaphore.  OnePermit is inductive relative to TypeInv:  *)
(* a worker inside its section has a semaphore that is owned, and the end  *)
(* of the communication can take a semaphore only while no worker holds    *)
(* it.                                                                     *)

LEMMA NextOnePermit == TypeInv /\ OnePermit /\ [Next]_vars => OnePermit'
<1> USE DEF stream_vars, flag_vars, sem_vars, thread_vars, kernel_vars, Workers, Holding
<1> SUFFICES ASSUME TypeInv, OnePermit, [Next]_vars PROVE OnePermit'
  OBVIOUS
<1>1. CASE UNCHANGED vars
  BY <1>1 DEF OnePermit, vars
<1>2. CASE Kernel
  BY <1>2 DEF Kernel, PeerConnects, PeerSends, PeerCloses, PeerResets, AcceptReturns,
     AcceptFails, RecvReturnsData, RecvReturnsEof, RecvFails, Returned,
     TypeInv, TypeOK, OnePermit
<1>3. ASSUME NEW w \in Workers, WorkerStep(w) PROVE OnePermit'
  <2>1. CASE LockWeakPtr(w) \/ Acquire(w) \/ LoopTest(w)
    BY <2>1 DEF LockWeakPtr, Acquire, LoopTest, TypeInv, TypeOK, OnePermit
  <2>2. CASE ReportSyscallError(w) \/ ReportException(w)
    BY <2>2 DEF ReportSyscallError, ReportException, TypeInv, TypeOK, OnePermit
  <2>3. CASE WorkerThrows(w)
    BY <2>3 DEF WorkerThrows, TypeInv, TypeOK, AcceptedOnce, StartedOnce, OnePermit
  <2>4. ASSUME NEW f \in Conns, w = Acceptor, AcceptClient(f) PROVE OnePermit'
    BY <2>4 DEF AcceptClient, TypeInv, TypeOK, OnePermit
  <2>5. ASSUME w \in Conns, ReadRecvArgs(w) \/ QueueData(w) \/ HangUp(w) PROVE OnePermit'
    BY <2>5 DEF ReadRecvArgs, QueueData, HangUp, TypeInv, TypeOK, OnePermit
  <2>6. ASSUME w \in Conns, QueueDisconnect(w) PROVE OnePermit'
    BY <2>6 DEF QueueDisconnect, TypeInv, TypeOK, OnePermit
  <2> QED
    BY <1>3, <2>1, <2>2, <2>3, <2>4, <2>5, <2>6 DEF WorkerStep
<1>4. CASE OwnerStep
  <2>1. CASE MakeAcceptSem
    BY <2>1 DEF MakeAcceptSem, TypeInv, TypeOK, StartedOnce, OnePermit
  <2>2. CASE StartAccepting
    BY <2>2 DEF StartAccepting, TypeInv, TypeOK, OnePermit
  <2>3. CASE ListenChecks \/ Bind \/ ListenCall \/ BeginPick \/ PickMsg \/ HandlerEnds \/ Destroy
    BY <2>3 DEF ListenChecks, Bind, ListenCall, BeginPick, PickMsg, HandlerEnds, LeavePick,
       Destroy, TypeInv, TypeOK, OnePermit
  <2> QED
    BY <1>4, <2>1, <2>2, <2>3 DEF OwnerStep
<1>5. ASSUME NEW c \in Closers, ExchangeFinished(c) \/ CloserStep(c) PROVE OnePermit'
  <2>1. CASE TakeAcceptSem(c)
    BY <2>1 DEF TakeAcceptSem, TakeForGood, CloserGoes, TypeInv, TypeOK, OnePermit
  <2>2. ASSUME NEW f \in Conns, TakeClientSem(c, f) PROVE OnePermit'
    BY <2>2 DEF TakeClientSem, TakeForGood, CloserGoes, TypeInv, TypeOK, OnePermit
  <2>3. CASE \/ ExchangeFinished(c) \/ QueueFinish(c) \/ TestBeginPick(c)
             \/ WaitForFinishPick(c) \/ TestConnected(c) \/ DerefNullSem(c) \/ CloseSocket(c)
    BY <2>3 DEF ExchangeFinished, QueueFinish, TestBeginPick, WaitForFinishPick, TestConnected,
       DerefNullSem, CloseSocket, CloserGoes, OnePermit
  <2> QED
    BY <1>5, <2>1, <2>2, <2>3 DEF CloserStep
<1> QED
  BY <1>1, <1>2, <1>3, <1>4, <1>5 DEF Next

(* No semaphore of the stream is ever released twice, and none that        *)
(* end_communication() has taken is held by a worker.                      *)
THEOREM OnePermitHolds == Spec => []OnePermit
<1>1. Init => OnePermit
  BY DEF Init, OnePermit, Holding
<1> QED
  BY <1>1, NextOnePermit, TypeInvariance, PTL DEF Spec

(* assert(0), "Here shouldn't approach", stays out of reach: a worker that *)
(* releases finds its semaphore alive, even where weak_ptrs expire.        *)
THEOREM AssertNotReached == Spec => []AssertUnreached
<1>1. OnePermit => AssertUnreached
  BY DEF OnePermit, AssertUnreached, Alive
<1> QED
  BY <1>1, OnePermitHolds, PTL

-----------------------------------------------------------------------------
(* The stream is quiet after its end, when no thread ends it before it     *)
(* picks messages (EarlyStop = FALSE).  QuietAfterEnd is not inductive;    *)
(* EndInv adds how far the owner, the one closer at work and the set of    *)
(* owned semaphores can be apart.                                          *)

NoWorkers == \A w \in Workers : worker_pc[w] = "unborn"

(* One thread at a time is inside, and it has set m_is_finished.           *)
OneEnder ==
  /\ \A c \in Closers : closer_pc[c] # "out" => is_finished
  /\ \A c, d \in Closers : InEnd(c) /\ InEnd(d) => c = d

(* listen() has started its threads by the time anyone may end it, or      *)
(* never will.                                                             *)
StartedByThen ==
  /\ is_finished \/ begin_pick_msg => owner_pc \in {"pick", "handler", "returned", "threw"}
  /\ ~is_connected => owner_pc \in {"idle", "checked", "threw"} /\ NoWorkers

(* Semaphores that were taken for good stay taken.                         *)
StayTaken ==
  /\ \A c \in Closers : closer_pc[c] = "visit" => ~sem_owned[Acceptor]
  /\ closed => is_finished /\ \A w \in Workers : ~sem_owned[w]

(* Whoever returns from the end leaves nothing running.                    *)
NothingLeft ==
  /\ is_finished => \/ closed \/ NoWorkers \/ Crashed
                    \/ \E c \in Closers : InEnd(c)
  /\ closer_pc[Owner] = "returned" => closed \/ NoWorkers
  /\ destroyed => closer_pc[Owner] = "returned"

EndInv == OneEnder /\ StartedByThen /\ StayTaken /\ NothingLeft

LEMMA NextEndInv ==
  ASSUME ~EarlyStop
  PROVE  TypeInv /\ OnePermit /\ EndInv /\ [Next]_vars => EndInv'
<1> USE ActorsAssumption
    DEF stream_vars, flag_vars, sem_vars, thread_vars, kernel_vars, Workers, Closers
<1> SUFFICES ASSUME TypeInv, OnePermit, EndInv, [Next]_vars PROVE EndInv'
  OBVIOUS
<1>1. CASE UNCHANGED vars
  BY <1>1 DEF EndInv, OneEnder, StartedByThen, StayTaken, NothingLeft, NoWorkers, Crashed, InEnd, vars
<1>2. CASE Kernel
  <2>1. /\ UNCHANGED <<flag_vars, sem_vars, owner_pc, closer_pc>>
        /\ NoWorkers => NoWorkers'
    BY <1>2 DEF Kernel, PeerConnects, PeerSends, PeerCloses, PeerResets, AcceptReturns,
       AcceptFails, RecvReturnsData, RecvReturnsEof, RecvFails, Returned, NoWorkers
  <2> QED
    BY <2>1 DEF EndInv, OneEnder, StartedByThen, StayTaken, NothingLeft, Crashed, InEnd
<1>3. ASSUME NEW w \in Workers, WorkerStep(w) PROVE EndInv'
  <2>1. UNCHANGED <<flag_vars, owner_pc, closer_pc>>
    BY <1>3 DEF WorkerStep, LockWeakPtr, Acquire, LoopTest, ReportSyscallError, WorkerThrows,
       ReportException, AcceptClient, ReadRecvArgs, QueueData, HangUp, QueueDisconnect
  <2>2. ~NoWorkers
    BY <1>3 DEF NoWorkers, WorkerStep, LockWeakPtr, Acquire, LoopTest, ReportSyscallError,
       WorkerThrows, ReportException, AcceptClient, ReadRecvArgs, QueueData, HangUp, QueueDisconnect
  <2>3. ~sem_owned[Acceptor] => UNCHANGED sem_owned
    <3>1. CASE WorkerThrows(w)
      BY <3>1 DEF WorkerThrows, TypeInv, TypeOK, OnePermit, Holding, StartedOnce
    <3>2. CASE \E f \in Conns : w = Acceptor /\ AcceptClient(f)
      BY <3>2 DEF AcceptClient, OnePermit, Holding
    <3> QED
      BY <1>3, <3>1, <3>2 DEF WorkerStep, LockWeakPtr, Acquire, LoopTest, ReportSyscallError,
         ReportException, ReadRecvArgs, QueueData, HangUp, QueueDisconnect
  <2> QED
    BY <2>1, <2>2, <2>3 DEF EndInv, OneEnder, StartedByThen, StayTaken, NothingLeft, Crashed, InEnd
<1>4. CASE OwnerStep
  <2> USE DEF TypeInv, TypeOK, InEnd, Crashed, NoWorkers,
          EndInv, OneEnder, StartedByThen, StayTaken, NothingLeft
  <2>1. CASE ListenChecks
    BY <2>1 DEF ListenChecks
  <2>2. CASE Bind
    BY <2>2 DEF Bind
  <2>3. CASE ListenCall
    BY <2>3 DEF ListenCall
  <2>4. CASE StartAccepting
    BY <2>4 DEF StartAccepting
  <2>9. CASE MakeAcceptSem
    BY <2>9 DEF MakeAcceptSem
  <2>5. CASE BeginPick
    BY <2>5 DEF BeginPick
  <2>6. CASE PickMsg
    BY <2>6, Dispatched DEF PickMsg, LeavePick
  <2>7. CASE HandlerEnds
    BY <2>7 DEF HandlerEnds, LeavePick
  <2>8. CASE Destroy
    BY <2>8 DEF Destroy
  <2> QED
    BY <1>4, <2>1, <2>2, <2>3, <2>4, <2>5, <2>6, <2>7, <2>8, <2>9 DEF OwnerStep
<1>5. ASSUME NEW c \in Closers, ~Crashed, ExchangeFinished(c) \/ CloserStep(c) PROVE EndInv'
  <2> USE <1>5 DEF CloserGoes, TypeInv, TypeOK, InEnd, Crashed, NoWorkers,
          EndInv, OneEnder, StartedByThen, StayTaken, NothingLeft
  <2>1. CASE ExchangeFinished(c)
    BY <2>1 DEF ExchangeFinished, MayEnd
  <2>2. CASE QueueFinish(c)
    BY <2>2 DEF QueueFinish
  <2>3. CASE TestBeginPick(c)
    BY <2>3 DEF TestBeginPick
  <2>4. CASE WaitForFinishPick(c)
    BY <2>4 DEF WaitForFinishPick
  <2>5. CASE TestConnected(c)
    BY <2>5 DEF TestConnected
  <2>6. CASE TakeAcceptSem(c)
    BY <2>6 DEF TakeAcceptSem, TakeForGood
  <2>7. CASE DerefNullSem(c)
    BY <2>7 DEF DerefNullSem
  <2>8. ASSUME NEW f \in Conns, TakeClientSem(c, f) PROVE EndInv'
    BY <2>8 DEF TakeClientSem, TakeForGood
  <2>9. CASE CloseSocket(c)
    BY <2>9 DEF CloseSocket
  <2> QED
    BY <1>5, <2>1, <2>2, <2>3, <2>4, <2>5, <2>6, <2>7, <2>8, <2>9 DEF CloserStep
<1> QED
  BY <1>1, <1>2, <1>3, <1>4, <1>5 DEF Next

LEMMA EndInvariance ==
  ASSUME ~EarlyStop
  PROVE  Spec => [](OnePermit /\ EndInv)
<1>1. Init => EndInv
  BY ActorsAssumption DEF Init, EndInv, OneEnder, StartedByThen, StayTaken, NothingLeft,
     NoWorkers, InEnd, Closers, Workers
<1> QED
  BY <1>1, NextEndInv, OnePermitHolds, TypeInvariance, PTL DEF Spec

(* Where end_communication() is not called before listen() picks messages, *)
(* no thread is inside a guarded section once the socket is closed or the  *)
(* stream destroyed.                                                       *)
THEOREM QuietAfterEndHolds ==
  ASSUME ~EarlyStop
  PROVE  Spec => []QuietAfterEnd
<1>1. OnePermit /\ EndInv => QuietAfterEnd
  BY DEF OnePermit, EndInv, StayTaken, NothingLeft, NoWorkers, QuietAfterEnd, Holding
<1> QED
  BY <1>1, EndInvariance, PTL

-----------------------------------------------------------------------------
(* The null semaphore, met when the end of the communication comes before  *)
(* the accepting thread is started (EarlyStop = TRUE is allowed here).     *)

(* Whoever has closed the socket was the last one inside.                  *)
ClosedLast == closed => is_finished /\ \A c \in Closers : ~InEnd(c)

(* The accepting thread comes first, and its semaphore is there until the  *)
(* end of the communication takes it.                                      *)
AcceptorFirst ==
  /\ worker_pc[Acceptor] = "unborn" => NoWorkers
  /\ worker_pc[Acceptor] # "unborn" \/ owner_pc = "sem_made" =>
       sem_owned[Acceptor] \/ closed \/ \E c \in Closers : closer_pc[c] = "visit"

CrashInv == OneEnder /\ ClosedLast /\ AcceptorFirst /\ CrashLeavesNoWorker

(* What the steps of end_communication() do to the threads inside it.      *)
LEMMA EnderGoesOn ==
  ASSUME TypeInv, NEW c \in Closers, CloserStep(c)
  PROVE  /\ InEnd(c) /\ closer_pc'[c] # "out" /\ is_finished' = is_finished
         /\ \A d \in Closers : d # c => closer_pc'[d] = closer_pc[d]
         /\ closed' # closed => closer_pc'[c] = "returned"
         /\ UNCHANGED <<owner_pc, worker_pc>>
<1> USE DEF TypeInv, TypeOK, CloserGoes, InEnd, stream_vars, flag_vars
<1>1. CASE QueueFinish(c) \/ TestBeginPick(c) \/ WaitForFinishPick(c) \/ TestConnected(c)
  BY <1>1 DEF QueueFinish, TestBeginPick, WaitForFinishPick, TestConnected
<1>2. CASE TakeAcceptSem(c) \/ DerefNullSem(c) \/ CloseSocket(c)
  BY <1>2 DEF TakeAcceptSem, TakeForGood, DerefNullSem, CloseSocket
<1>3. CASE \E f \in Conns : TakeClientSem(c, f)
  BY <1>3 DEF TakeClientSem, TakeForGood
<1> QED
  BY <1>1, <1>2, <1>3 DEF CloserStep

LEMMA OthersLeaveEnd ==
  ASSUME \/ Kernel \/ OwnerStep \/ UNCHANGED vars
         \/ \E w \in Workers : WorkerStep(w)
  PROVE  UNCHANGED <<is_finished, closed, closer_pc>>
<1> USE DEF stream_vars, flag_vars, thread_vars
<1>1. CASE Kernel \/ UNCHANGED vars
  BY <1>1 DEF Kernel, PeerConnects, PeerSends, PeerCloses, PeerResets, AcceptReturns,
     AcceptFails, RecvReturnsData, RecvReturnsEof, RecvFails, Returned, vars
<1>2. CASE OwnerStep
  BY <1>2 DEF OwnerStep, ListenChecks, Bind, ListenCall, MakeAcceptSem, StartAccepting, BeginPick, PickMsg,
     HandlerEnds, LeavePick, Destroy
<1>3. CASE \E w \in Workers : WorkerStep(w)
  BY <1>3 DEF WorkerStep, LockWeakPtr, Acquire, LoopTest, ReportSyscallError, WorkerThrows,
     ReportException, AcceptClient, ReadRecvArgs, QueueData, HangUp, QueueDisconnect
<1> QED
  BY <1>1, <1>2, <1>3

LEMMA NextOneEnder ==
  TypeInv /\ OneEnder /\ ClosedLast /\ [Next]_vars => OneEnder' /\ ClosedLast'
<1> SUFFICES ASSUME TypeInv, OneEnder, ClosedLast, [Next]_vars PROVE OneEnder' /\ ClosedLast'
  OBVIOUS
<1>1. ASSUME NEW c \in Closers, ExchangeFinished(c)
      PROVE  OneEnder' /\ ClosedLast'
  <2>1. /\ is_finished' /\ closed' = closed /\ closer_pc[c] = "out"
        /\ closer_pc'[c] = IF is_finished THEN "returned" ELSE "emplace"
        /\ \A d \in Closers : d # c => closer_pc'[d] = closer_pc[d]
    BY <1>1 DEF ExchangeFinished, CloserGoes, TypeInv, TypeOK
  <2>2. CASE is_finished
    BY <2>1, <2>2 DEF OneEnder, ClosedLast, InEnd
  <2>3. CASE ~is_finished
    <3>1. ~closed /\ \A d \in Closers : closer_pc[d] = "out"
      BY <2>3 DEF OneEnder, ClosedLast
    <3> QED
      BY <2>1, <3>1 DEF OneEnder, ClosedLast, InEnd
  <2> QED
    BY <2>2, <2>3
<1>2. ASSUME NEW c \in Closers, CloserStep(c)
      PROVE  OneEnder' /\ ClosedLast'
  <2>1. /\ InEnd(c) /\ closer_pc'[c] # "out" /\ is_finished' = is_finished
        /\ \A d \in Closers : d # c => closer_pc'[d] = closer_pc[d]
        /\ closed' # closed => closer_pc'[c] = "returned"
    BY <1>2, EnderGoesOn
  <2>2. is_finished /\ ~closed /\ \A d \in Closers : d # c => ~InEnd(d)
    BY <2>1 DEF OneEnder, ClosedLast, InEnd
  <2>3. \A d \in Closers : InEnd(d)' => d = c
    BY <2>1, <2>2 DEF InEnd
  <2>4. OneEnder'
    BY <2>1, <2>2, <2>3 DEF OneEnder
  <2>5. ClosedLast'
    BY <2>1, <2>2, <2>3 DEF ClosedLast, InEnd
  <2> QED
    BY <2>4, <2>5
<1>3. CASE UNCHANGED <<is_finished, closed, closer_pc>>
  BY <1>3 DEF OneEnder, ClosedLast, InEnd
<1> QED
  BY <1>1, <1>2, <1>3, OthersLeaveEnd DEF Next

LEMMA NextAcceptorFirst == TypeInv /\ AcceptorFirst /\ [Next]_vars => AcceptorFirst'
<1> SUFFICES ASSUME TypeInv, AcceptorFirst, [Next]_vars PROVE AcceptorFirst'
  OBVIOUS
<1> USE ActorsAssumption
    DEF Workers, stream_vars, flag_vars, sem_vars, thread_vars, kernel_vars
<1>1. CASE Kernel
  <2>1. UNCHANGED <<sem_owned, closed, closer_pc, owner_pc>>
    BY <1>1 DEF Kernel, PeerConnects, PeerSends, PeerCloses, PeerResets, AcceptReturns,
       AcceptFails, RecvReturnsData, RecvReturnsEof, RecvFails, Returned
  <2>2. worker_pc' = worker_pc \/ \E w \in Workers :
          worker_pc[w] = "syscall" /\ worker_pc' = [worker_pc EXCEPT ![w] = "lock"]
    BY <1>1 DEF Kernel, PeerConnects, PeerSends, PeerCloses, PeerResets, AcceptReturns,
       AcceptFails, RecvReturnsData, RecvReturnsEof, RecvFails, Returned
  <2> QED
    BY <2>1, <2>2 DEF AcceptorFirst, NoWorkers, TypeInv, TypeOK
<1>2. ASSUME NEW w \in Workers, WorkerStep(w)
      PROVE  AcceptorFirst'
  <2>1. worker_pc[w] # "unborn" /\ worker_pc[Acceptor] # "unborn"
    BY <1>2 DEF AcceptorFirst, NoWorkers, WorkerStep, LockWeakPtr, Acquire, LoopTest,
       ReportSyscallError, WorkerThrows, ReportException, AcceptClient, ReadRecvArgs, QueueData,
       HangUp, QueueDisconnect
  <2>2. sem_owned[Acceptor] => sem_owned'[Acceptor]
    <3>1. CASE WorkerThrows(w)
      BY <3>1 DEF WorkerThrows, TypeInv, TypeOK
    <3>2. CASE \E f \in Conns : AcceptClient(f)
      BY <3>2 DEF AcceptClient, TypeInv, TypeOK
    <3> QED
      BY <1>2, <3>1, <3>2 DEF WorkerStep, LockWeakPtr, Acquire, LoopTest,
         ReportSyscallError, ReportException, ReadRecvArgs, QueueData, HangUp, QueueDisconnect
  <2>3. worker_pc'[Acceptor] # "unborn"
    BY <1>2, <2>1 DEF TypeInv, TypeOK, WorkerStep, LockWeakPtr, Acquire, LoopTest,
       ReportSyscallError, WorkerThrows, ReportException, AcceptClient, ReadRecvArgs, QueueData,
       HangUp, QueueDisconnect
  <2>4. UNCHANGED <<closed, closer_pc>>
    BY <1>2, OthersLeaveEnd
  <2> QED
    BY <2>1, <2>2, <2>3, <2>4 DEF AcceptorFirst
<1>3. CASE OwnerStep
  <2>1. UNCHANGED <<closed, closer_pc>>
    BY <1>3, OthersLeaveEnd
  <2>2. CASE StartAccepting
    <3>1. owner_pc = "sem_made" /\ sem_owned' = sem_owned
      BY <2>2 DEF StartAccepting
    <3>2. worker_pc'[Acceptor] = "unborn" => worker_pc' = worker_pc
      BY <2>2 DEF StartAccepting, TypeInv, TypeOK
    <3> QED
      BY <2>1, <3>1, <3>2 DEF AcceptorFirst, NoWorkers
  <2>3. CASE MakeAcceptSem
    <3>1. worker_pc' = worker_pc /\ worker_pc[Acceptor] = "unborn"
      BY <2>3 DEF MakeAcceptSem, TypeInv, StartedOnce
    <3>2. owner_pc' = "sem_made" => sem_owned'[Acceptor]
      BY <2>3 DEF MakeAcceptSem, TypeInv, TypeOK
    <3> QED
      BY <2>1, <3>1, <3>2 DEF AcceptorFirst, NoWorkers
  <2>4. CASE ~StartAccepting /\ ~MakeAcceptSem
    <3>1. UNCHANGED <<worker_pc, sem_owned>>
      BY <1>3, <2>4 DEF OwnerStep, ListenChecks, Bind, ListenCall, BeginPick, PickMsg,
         HandlerEnds, LeavePick, Destroy
    <3>2. owner_pc' = "sem_made" => owner_pc = "sem_made"
      BY <1>3, <2>4, Dispatched DEF OwnerStep, ListenChecks, Bind, ListenCall, BeginPick, PickMsg,
         HandlerEnds, LeavePick, Destroy
    <3> QED
      BY <2>1, <3>1, <3>2 DEF AcceptorFirst, NoWorkers
  <2> QED
    BY <2>2, <2>3, <2>4
<1>4. ASSUME NEW c \in Closers, ExchangeFinished(c) \/ CloserStep(c)
      PROVE  AcceptorFirst'
  <2>1. worker_pc' = worker_pc /\ owner_pc' = owner_pc
    BY <1>4, EnderGoesOn DEF ExchangeFinished, CloserGoes
  <2>2. CASE TakeAcceptSem(c) \/ \E f \in Conns : TakeClientSem(c, f)
    <3>1. closer_pc'[c] = "visit"
      BY <2>2 DEF TakeAcceptSem, TakeClientSem, CloserGoes, TypeInv, TypeOK
    <3> QED
      BY <2>1, <3>1 DEF AcceptorFirst, NoWorkers
  <2>3. CASE CloseSocket(c)
    BY <2>1, <2>3 DEF CloseSocket, AcceptorFirst, NoWorkers
  <2>4. CASE \/ ExchangeFinished(c) \/ QueueFinish(c) \/ TestBeginPick(c) \/ WaitForFinishPick(c)
             \/ TestConnected(c) \/ DerefNullSem(c)
    <3>1. /\ UNCHANGED <<sem_owned, closed>>
          /\ \A d \in Closers : closer_pc[d] = "visit" => closer_pc'[d] = "visit"
      BY <2>4 DEF ExchangeFinished, QueueFinish, TestBeginPick, WaitForFinishPick, TestConnected,
         DerefNullSem, CloserGoes, TypeInv, TypeOK
    <3> QED
      BY <2>1, <3>1 DEF AcceptorFirst, NoWorkers
  <2> QED
    BY <1>4, <2>2, <2>3, <2>4 DEF CloserStep
<1>5. CASE UNCHANGED vars
  BY <1>5 DEF vars, AcceptorFirst, NoWorkers
<1> QED
  BY <1>1, <1>2, <1>3, <1>4, <1>5 DEF Next

LEMMA NextCrash == TypeInv /\ CrashInv /\ [Next]_vars => CrashLeavesNoWorker'
<1> SUFFICES ASSUME TypeInv, CrashInv, [Next]_vars, Crashed' PROVE NoWorkers'
  BY DEF CrashLeavesNoWorker, NoWorkers
<1>1. CASE UNCHANGED vars
  BY <1>1 DEF vars, thread_vars, Crashed, CrashInv, CrashLeavesNoWorker, NoWorkers
<1>2. CASE Next
  <2>1. ~Crashed
    BY <1>2 DEF Next
  <2>2. PICK c \in Closers : ExchangeFinished(c) \/ CloserStep(c)
    BY <1>2, <2>1, OthersLeaveEnd DEF Next, Crashed
  <2>3. DerefNullSem(c)
    BY <2>1, <2>2 DEF Crashed, ExchangeFinished, CloserStep, QueueFinish, TestBeginPick,
       WaitForFinishPick, TestConnected, TakeAcceptSem, TakeClientSem, CloseSocket, CloserGoes,
       TypeInv, TypeOK
  <2>4. ~sem_owned[Acceptor] /\ closer_pc[c] = "accept_sem" /\ worker_pc' = worker_pc
    BY <2>3 DEF DerefNullSem, CloserGoes
  <2>5. ~closed /\ \A d \in Closers : closer_pc[d] # "visit"
    BY <2>4 DEF CrashInv, OneEnder, ClosedLast, InEnd
  <2> QED
    BY <2>4, <2>5 DEF CrashInv, AcceptorFirst, NoWorkers
<1> QED
  BY <1>1, <1>2

LEMMA InitCrashInv == Init => CrashInv
  BY ActorsAssumption DEF Init, CrashInv, OneEnder, ClosedLast, AcceptorFirst, InEnd, NoWorkers,
     CrashLeavesNoWorker, Crashed, Workers

LEMMA NextCrashInv == TypeInv /\ CrashInv /\ [Next]_vars => CrashInv'
  BY NextOneEnder, NextAcceptorFirst, NextCrash DEF CrashInv

(* If end_communication() goes down on the null semaphore, no thread is    *)
(* running on the stream: the accepting thread, which would be the first,  *)
(* was never started.                                                      *)
THEOREM CrashComesFirst == Spec => []CrashLeavesNoWorker
<1>1. CrashInv => CrashLeavesNoWorker
  BY DEF CrashInv
<1> QED
  BY <1>1, InitCrashInv, NextCrashInv, TypeInvariance, PTL DEF Spec


-----------------------------------------------------------------------------
(* The messages of one connection in a queue of messages, as the mapping   *)
(* to StreamEvents sees them: what EventsIn makes of the queue when        *)
(* something is appended to it, and when its head is taken.                *)

OfConn(m, f) == m.type \in {"msg", "disconnect"} /\ m.fd = f

LEMMA PlacesFinite ==
  ASSUME NEW S, NEW q \in Seq(S), NEW f
  PROVE  /\ PlacesOf(q, f) \in SUBSET (1 .. Len(q))
         /\ IsFiniteSet(PlacesOf(q, f))
<1>1. Len(q) \in Nat
  OBVIOUS
<1>2. IsFiniteSet(1 .. Len(q))
  BY <1>1, FS_Interval
<1> QED
  BY <1>2, FS_Subset DEF PlacesOf

(* Ranks number the places from 1 on, each rank once.                      *)
LEMMA Ranks ==
  ASSUME NEW P \in SUBSET Nat, IsFiniteSet(P)
  PROVE  /\ Cardinality(P) \in Nat
         /\ \A i \in P : Rank(P, i) \in 1 .. Cardinality(P)
         /\ \A i, j \in P : Rank(P, i) = Rank(P, j) => i = j
         /\ \A k \in 1 .. Cardinality(P) : \E i \in P : Rank(P, i) = k
<1> DEFINE Upto(i) == {j \in P : j <= i}
           n == Cardinality(P)
           r == [i \in P |-> Rank(P, i)]
<1>1. n \in Nat
  BY FS_CardinalityType
<1>2. ASSUME NEW i \in P PROVE IsFiniteSet(Upto(i)) /\ Rank(P, i) \in 1 .. n
  <2>1. Upto(i) \in SUBSET P /\ {i} \in SUBSET Upto(i)
    OBVIOUS
  <2>2. IsFiniteSet(Upto(i)) /\ Cardinality(Upto(i)) <= n
    BY <2>1, FS_Subset
  <2>3. Cardinality({i}) <= Cardinality(Upto(i)) /\ Cardinality({i}) = 1
    BY <2>1, <2>2, FS_Subset, FS_Singleton
  <2>4. Cardinality(Upto(i)) \in Nat
    BY <2>2, FS_CardinalityType
  <2> QED
    BY <1>1, <2>2, <2>3, <2>4 DEF Rank
<1>3. ASSUME NEW i \in P, NEW j \in P, i < j PROVE Rank(P, i) # Rank(P, j)
  <2>0. i \in Nat /\ j \in Nat /\ \A x \in P : x \in Nat
    OBVIOUS
  <2>1. j \in Upto(j) /\ j \notin Upto(i) /\ \A x \in P : x <= i => x <= j
    BY <1>3, <2>0
  <2>4. Upto(i) \in SUBSET Upto(j)
    BY <2>1
  <2>2. Cardinality(Upto(i)) # Cardinality(Upto(j))
    BY <1>2, <2>1, <2>4, FS_Subset
  <2> QED
    BY <2>2 DEF Rank
<1>4. ASSUME NEW i \in P, NEW j \in P, Rank(P, i) = Rank(P, j) PROVE i = j
  BY <1>3, <1>4
<1>5. r \in Injection(P, 1 .. n)
  BY <1>2, <1>4, Fun_IsInj
<1>6. r \in Surjection(P, 1 .. n)
  <2>1. IsFiniteSet(1 .. n) /\ Cardinality(1 .. n) = n
    BY <1>1, FS_Interval
  <2> QED
    BY <1>5, <2>1, FS_Injection
<1>7. \A k \in 1 .. n : \E i \in P : r[i] = k
  BY <1>6 DEF Surjection
<1> QED
  BY <1>1, <1>2, <1>4, <1>7

(* The event of rank k is that of the place of rank k.                     *)
LEMMA EventsByRank ==
  ASSUME NEW S, NEW q \in Seq(S), NEW f
  PROVE  LET P == PlacesOf(q, f)
         IN  /\ EventsIn(q, f) = [k \in 1 .. Cardinality(P) |-> EventsIn(q, f)[k]]
             /\ Cardinality(P) \in Nat
             /\ \A i \in P : /\ Rank(P, i) \in 1 .. Cardinality(P)
                             /\ EventsIn(q, f)[Rank(P, i)] = EventOf(q[i])
             /\ \A k \in 1 .. Cardinality(P) : \E i \in P : Rank(P, i) = k
<1> DEFINE P == PlacesOf(q, f)
<1>1. P \in SUBSET Nat /\ IsFiniteSet(P)
  BY PlacesFinite
<1>2. /\ Cardinality(P) \in Nat
      /\ \A i \in P : Rank(P, i) \in 1 .. Cardinality(P)
      /\ \A i, j \in P : Rank(P, i) = Rank(P, j) => i = j
      /\ \A k \in 1 .. Cardinality(P) : \E i \in P : Rank(P, i) = k
  BY <1>1, Ranks
<1>3. EventsIn(q, f) = [k \in 1 .. Cardinality(P) |->
                          EventOf(q[CHOOSE i \in P : Rank(P, i) = k])]
  BY DEF EventsIn
<1> HIDE DEF P
<1>4. ASSUME NEW i \in P PROVE EventsIn(q, f)[Rank(P, i)] = EventOf(q[i])
  <2>1. (CHOOSE j \in P : Rank(P, j) = Rank(P, i)) = i
    BY <1>2
  <2> QED
    BY <1>2, <1>3, <2>1
<1>5. EventsIn(q, f) = [k \in 1 .. Cardinality(P) |-> EventsIn(q, f)[k]]
  BY <1>3
<1> QED
  BY <1>2, <1>4, <1>5 DEF P

LEMMA EventsAppend ==
  ASSUME NEW S, NEW q \in Seq(S), NEW m \in S, NEW f
  PROVE  EventsIn(Append(q, m), f) =
           IF OfConn(m, f) THEN Append(EventsIn(q, f), EventOf(m)) ELSE EventsIn(q, f)
<1> DEFINE qq == Append(q, m)
           P == PlacesOf(q, f)
           PP == PlacesOf(qq, f)
           l == Len(q) + 1
           n == Cardinality(P)
<1>1. qq \in Seq(S) /\ Len(qq) = l /\ qq[l] = m /\ Len(q) \in Nat
      /\ \A i \in 1 .. Len(q) : qq[i] = q[i]
  OBVIOUS
<1>2. PP = IF OfConn(m, f) THEN P \cup {l} ELSE P
  BY <1>1 DEF PlacesOf, OfConn
<1>3. IsFiniteSet(P) /\ P \in SUBSET (1 .. Len(q)) /\ l \notin P
  BY <1>1, PlacesFinite
<1>4. Cardinality(PP) = IF OfConn(m, f) THEN n + 1 ELSE n
  BY <1>2, <1>3, FS_AddElement
<1>5. ASSUME NEW i \in P PROVE i \in PP /\ Rank(PP, i) = Rank(P, i) /\ qq[i] = q[i]
  <2>1. {j \in PP : j <= i} = {j \in P : j <= i}
    BY <1>1, <1>2, <1>3
  <2> QED
    BY <1>1, <1>2, <1>3, <2>1 DEF Rank
<1>6. /\ EventsIn(q, f) = [k \in 1 .. n |-> EventsIn(q, f)[k]]
      /\ n \in Nat
      /\ \A i \in P : /\ Rank(P, i) \in 1 .. n
                      /\ EventsIn(q, f)[Rank(P, i)] = EventOf(q[i])
      /\ \A k \in 1 .. n : \E i \in P : Rank(P, i) = k
  BY EventsByRank
<1>7. /\ EventsIn(qq, f) = [k \in 1 .. Cardinality(PP) |-> EventsIn(qq, f)[k]]
      /\ \A i \in PP : /\ Rank(PP, i) \in 1 .. Cardinality(PP)
                       /\ EventsIn(qq, f)[Rank(PP, i)] = EventOf(qq[i])
  BY <1>1, EventsByRank
<1> HIDE DEF P, PP, n, qq, l
<1>8. ASSUME NEW k \in 1 .. n PROVE EventsIn(qq, f)[k] = EventsIn(q, f)[k]
  <2>1. PICK i \in P : Rank(P, i) = k
    BY <1>6
  <2>2. EventsIn(q, f)[k] = EventOf(q[i])
    BY <1>6, <2>1
  <2>3. EventsIn(qq, f)[Rank(PP, i)] = EventOf(qq[i])
    BY <1>5, <1>7
  <2> QED
    BY <1>5, <2>1, <2>2, <2>3, Zenon
<1>9. CASE OfConn(m, f)
  <2>1. Rank(PP, l) = n + 1 /\ l \in PP
    <3>1. \A j \in PP : j \in Nat /\ j <= l
      BY <1>1, <1>2, <1>3, <1>9 DEF l
    <3>2. {j \in PP : j <= l} = PP
      BY <3>1
    <3> QED
      BY <1>2, <1>4, <1>9, <3>2 DEF Rank
  <2>2. EventsIn(qq, f)[n + 1] = EventOf(m)
    BY <1>1, <1>7, <2>1
  <2>3. EventsIn(qq, f) = [k \in 1 .. n + 1 |-> IF k = n + 1 THEN EventOf(m) ELSE EventsIn(q, f)[k]]
    BY <1>4, <1>6, <1>7, <1>8, <1>9, <2>2
  <2>4. Append(EventsIn(q, f), EventOf(m)) =
          [k \in 1 .. n + 1 |-> IF k = n + 1 THEN EventOf(m) ELSE EventsIn(q, f)[k]]
    BY <1>6
  <2> QED
    BY <1>9, <2>3, <2>4 DEF qq
<1>10. CASE ~ OfConn(m, f)
  BY <1>4, <1>6, <1>7, <1>8, <1>10 DEF qq
<1> QED
  BY <1>9, <1>10


(* The places move down by one when the head is taken.                     *)
LEMMA ShiftedCardinality ==
  ASSUME NEW P, IsFiniteSet(P), P \in SUBSET (Nat \ {0, 1})
  PROVE  Cardinality({j \in Nat \ {0} : j + 1 \in P}) = Cardinality(P)
<1> DEFINE Q == {j \in Nat \ {0} : j + 1 \in P}
           d == [i \in P |-> i - 1]
<1>0. \A i \in P : i \in Nat /\ i # 0 /\ i # 1
  OBVIOUS
<1>1. d \in [P -> Q]
  BY <1>0
<1>2. \A i, j \in P : d[i] = d[j] => i = j
  BY <1>0
<1>3. \A k \in Q : \E i \in P : d[i] = k
  <2>1. ASSUME NEW k \in Q PROVE k + 1 \in P /\ d[k + 1] = k
    BY <1>0
  <2> QED
    BY <2>1
<1> HIDE DEF Q, d
<1>4. d \in Bijection(P, Q)
  BY <1>1, <1>2, <1>3, Fun_IsBij
<1>5. ExistsBijection(P, Q)
  BY <1>4 DEF ExistsBijection
<1>6. Cardinality(Q) = Cardinality(P)
  BY <1>5, FS_Bijection
<1> QED
  BY <1>6 DEF Q

LEMMA EventsTail ==
  ASSUME NEW S, NEW q \in Seq(S), q # <<>>, NEW f
  PROVE  IF OfConn(Head(q), f)
         THEN /\ EventsIn(q, f) # <<>>
              /\ EventsIn(Tail(q), f) = Tail(EventsIn(q, f))
         ELSE EventsIn(Tail(q), f) = EventsIn(q, f)
<1> DEFINE qq == Tail(q)
           P == PlacesOf(q, f)
           Q == PlacesOf(qq, f)
           n == Cardinality(P)
<1>1. /\ qq \in Seq(S) /\ Len(q) \in Nat /\ Len(q) > 0 /\ Len(qq) = Len(q) - 1
      /\ Head(q) = q[1] /\ \A i \in 1 .. Len(qq) : qq[i] = q[i + 1]
  OBVIOUS
<1>2. IsFiniteSet(P) /\ P \in SUBSET (1 .. Len(q)) /\ IsFiniteSet(Q) /\ Q \in SUBSET (1 .. Len(qq))
  BY <1>1, PlacesFinite
<1>3. Q = {j \in Nat \ {0} : j + 1 \in P}
  BY <1>1 DEF PlacesOf
<1>4. 1 \in P <=> OfConn(Head(q), f)
  BY <1>1 DEF PlacesOf, OfConn
<1>5. /\ EventsIn(q, f) = [k \in 1 .. n |-> EventsIn(q, f)[k]]
      /\ n \in Nat
      /\ \A i \in P : /\ Rank(P, i) \in 1 .. n
                      /\ EventsIn(q, f)[Rank(P, i)] = EventOf(q[i])
      /\ \A k \in 1 .. n : \E i \in P : Rank(P, i) = k
  BY EventsByRank
<1> HIDE DEF P, Q, n, qq
<1>6. /\ EventsIn(qq, f) = [k \in 1 .. Cardinality(Q) |-> EventsIn(qq, f)[k]]
      /\ \A i \in Q : /\ Rank(Q, i) \in 1 .. Cardinality(Q)
                      /\ EventsIn(qq, f)[Rank(Q, i)] = EventOf(qq[i])
      /\ \A k \in 1 .. Cardinality(Q) : \E i \in Q : Rank(Q, i) = k
  BY <1>1, EventsByRank DEF Q
<1>7. \A i \in P : i \in Nat /\ 1 <= i
  BY <1>1, <1>2
<1> DEFINE head == IF OfConn(Head(q), f) THEN 1 ELSE 0
<1>14. head \in {0, 1} /\ (1 \in P => head = 1) /\ (1 \notin P => head = 0)
  BY <1>4
<1> HIDE DEF head
<1>8. Cardinality(P \ {1}) = n - head
  <2>1. Cardinality(P \ {1}) = IF 1 \in P THEN n - 1 ELSE n
    BY <1>2, FS_RemoveElement, Zenon DEF n
  <2> QED
    BY <1>5, <1>14, <2>1
<1>9. Cardinality(Q) = n - head
  <2>1. Q = {j \in Nat \ {0} : j + 1 \in P \ {1}}
    BY <1>3
  <2>2. IsFiniteSet(P \ {1})
    BY <1>2, FS_RemoveElement
  <2>3. P \ {1} \in SUBSET (Nat \ {0, 1})
    BY <1>7
  <2> QED
    BY <1>8, <2>1, <2>2, <2>3, ShiftedCardinality
<1>10. ASSUME NEW j \in Q
       PROVE  j + 1 \in P /\ Rank(P, j + 1) = Rank(Q, j) + head /\ qq[j] = q[j + 1]
  <2> DEFINE U == {i \in P : i <= j + 1}
             V == {i \in Q : i <= j}
  <2>1. j \in Nat \ {0} /\ j + 1 \in P /\ qq[j] = q[j + 1]
    BY <1>1, <1>2, <1>3
  <2>2. IsFiniteSet(U) /\ (1 \in U <=> 1 \in P)
    BY <1>2, <2>1, FS_Subset
  <2>3. Cardinality(U \ {1}) = Cardinality(U) - head /\ Cardinality(U) \in Nat
    <3>1. Cardinality(U \ {1}) = IF 1 \in U THEN Cardinality(U) - 1 ELSE Cardinality(U)
      BY <2>2, FS_RemoveElement, Zenon
    <3>2. Cardinality(U) \in Nat
      BY <2>2, FS_CardinalityType
    <3> QED
      BY <1>14, <2>2, <3>1, <3>2
  <2>4. V = {i \in Nat \ {0} : i + 1 \in U \ {1}}
    BY <1>3, <2>1
  <2>5. IsFiniteSet(U \ {1}) /\ U \ {1} \in SUBSET (Nat \ {0, 1})
    <3>1. IsFiniteSet(U \ {1})
      BY <2>2, FS_RemoveElement
    <3> QED
      BY <1>7, <3>1
  <2>6. Cardinality(V) = Cardinality(U \ {1})
    BY <2>4, <2>5, ShiftedCardinality
  <2> QED
    BY <1>14, <2>1, <2>3, <2>6 DEF Rank
<1>11. ASSUME NEW k \in 1 .. Cardinality(Q)
       PROVE  EventsIn(qq, f)[k] = EventsIn(q, f)[k + head]
  <2>1. PICK j \in Q : Rank(Q, j) = k
    BY <1>6
  <2>2. EventsIn(qq, f)[k] = EventOf(qq[j])
    BY <1>6, <2>1
  <2>3. EventsIn(q, f)[Rank(P, j + 1)] = EventOf(q[j + 1])
    BY <1>5, <1>10
  <2> QED
    BY <1>10, <2>1, <2>2, <2>3
<1>12. CASE OfConn(Head(q), f)
  <2>1. n > 0 /\ Cardinality(Q) = n - 1 /\ head = 1
    <3>1. 1 \in P /\ head = 1
      BY <1>4, <1>12, <1>14
    <3>2. Rank(P, 1) \in 1 .. n
      BY <1>5, <3>1
    <3> QED
      BY <1>5, <1>9, <3>1, <3>2
  <2>2. EventsIn(q, f) # <<>>
    BY <1>5, <2>1
  <2>3. EventsIn(qq, f) = [k \in 1 .. n - 1 |-> EventsIn(q, f)[k + 1]]
    BY <1>6, <1>11, <1>12, <2>1
  <2>4. Tail(EventsIn(q, f)) = [k \in 1 .. n - 1 |-> EventsIn(q, f)[k + 1]]
    BY <1>5, <2>1
  <2> QED
    BY <1>12, <2>2, <2>3, <2>4 DEF qq
<1>13. CASE ~ OfConn(Head(q), f)
  <2>1. Cardinality(Q) = n
    BY <1>4, <1>5, <1>9, <1>13, <1>14
  <2>2. \A k \in 1 .. n : EventsIn(qq, f)[k] = EventsIn(q, f)[k]
    <3>1. head = 0 /\ \A k \in 1 .. n : k + head = k
      BY <1>4, <1>13, <1>14
    <3> QED
      BY <1>11, <2>1, <3>1
  <2> QED
    BY <1>5, <1>6, <1>13, <2>1, <2>2 DEF qq
<1> QED
  BY <1>12, <1>13


(* The life of a connection: it is registered while its thread reads, and  *)
(* until the peer hangs up; a thread that fell out of its loop by an       *)
(* exception has no result of recv() left; m_finish_pick is the end of     *)
(* listen().                                                               *)
Reading   == {"lock", "acquire", "loop", "args", "syscall", "body"}
Accepting == {"lock", "acquire", "body"}

LifeOK ==
  /\ \A f \in Conns :
       /\ worker_pc[f] \in Reading => f \in client_fds
       /\ worker_pc[f] = "hung_up" => f \notin client_fds /\ ret[f] = "eof"
       /\ worker_pc[f] = "report" => ret[f] = "none"
       /\ peer[f] \in {"absent", "backlog"} => f \notin client_fds
       /\ ret[Acceptor] = f /\ worker_pc[Acceptor] \in Accepting => f \notin client_fds
  /\ finish_pick => owner_pc \in {"returned", "threw"}

LEMMA KernelLife == TypeInv /\ LifeOK /\ Kernel => LifeOK'
<1> SUFFICES ASSUME TypeInv, LifeOK, Kernel PROVE LifeOK'
  OBVIOUS
<1> USE ActorsAssumption
    DEF Workers, stream_vars, flag_vars, sem_vars, thread_vars, Returned, Reading, Accepting
<1>0. worker_pc \in [Workers -> WorkerStates] /\ ret \in [Workers -> Returns] /\ peer \in [Conns -> PeerStates]
  BY DEF TypeInv, TypeOK
<1>1. CASE AcceptFails
  BY <1>0, <1>1 DEF AcceptFails, LifeOK
<1>2. ASSUME NEW f \in Conns, PeerConnects(f) PROVE LifeOK'
  BY <1>0, <1>2 DEF PeerConnects, LifeOK
<1>3. ASSUME NEW f \in Conns, PeerSends(f) PROVE LifeOK'
  BY <1>0, <1>3 DEF PeerSends, LifeOK
<1>4. ASSUME NEW f \in Conns, PeerCloses(f) \/ PeerResets(f) PROVE LifeOK'
  BY <1>0, <1>4 DEF PeerCloses, PeerResets, LifeOK
<1>5. ASSUME NEW f \in Conns, AcceptReturns(f) PROVE LifeOK'
  BY <1>0, <1>5 DEF AcceptReturns, LifeOK
<1>6. ASSUME NEW f \in Conns, RecvReturnsData(f) PROVE LifeOK'
  BY <1>0, <1>6 DEF RecvReturnsData, LifeOK
<1>7. ASSUME NEW f \in Conns, RecvReturnsEof(f) PROVE LifeOK'
  BY <1>0, <1>7 DEF RecvReturnsEof, LifeOK
<1>8. ASSUME NEW f \in Conns, RecvFails(f) PROVE LifeOK'
  BY <1>0, <1>8 DEF RecvFails, LifeOK
<1> QED
  BY <1>1, <1>2, <1>3, <1>4, <1>5, <1>6, <1>7, <1>8 DEF Kernel

LEMMA WorkerLife ==
  ASSUME TypeInv, LifeOK, NEW w \in Workers, WorkerStep(w) PROVE LifeOK'
<1> USE ActorsAssumption
    DEF Workers, stream_vars, flag_vars, sem_vars, thread_vars, kernel_vars, Reading, Accepting
<1>0. /\ worker_pc \in [Workers -> WorkerStates] /\ ret \in [Workers -> Returns] /\ peer \in [Conns -> PeerStates]
      /\ AcceptedOnce /\ StartedOnce
  BY DEF TypeInv, TypeOK
<1>1. CASE LockWeakPtr(w)
  BY <1>0, <1>1 DEF LockWeakPtr, LifeOK
<1>2. CASE Acquire(w)
  BY <1>0, <1>2 DEF Acquire, LifeOK
<1>3. CASE LoopTest(w)
  BY <1>0, <1>3 DEF LoopTest, LifeOK
<1>4. CASE ReportSyscallError(w)
  BY <1>0, <1>4 DEF ReportSyscallError, LifeOK
<1>5. CASE WorkerThrows(w)
  <2>1. PICK registered : /\ client_fds' = client_fds \cup registered
                          /\ registered # {} => registered = {ret[w]} /\ w = Acceptor /\ ret[w] \in Conns
    <3>1. CASE w = Acceptor /\ ret[w] \in Conns
      BY <1>5, <3>1 DEF WorkerThrows
    <3>2. CASE ~ (w = Acceptor /\ ret[w] \in Conns)
      BY <1>5, <3>2 DEF WorkerThrows
    <3> QED
      BY <3>1, <3>2
  <2>2. /\ ret' = [ret EXCEPT ![w] = "none"] /\ worker_pc' = [worker_pc EXCEPT ![w] = "report"]
        /\ worker_pc[w] \in {"body", "hung_up", "loop"} /\ (w = Acceptor => worker_pc[w] = "body")
        /\ UNCHANGED <<finish_pick, owner_pc, peer>>
    BY <1>0, <1>5 DEF WorkerThrows, StartedOnce
  <2>3. \A f \in registered \cap Conns : worker_pc[f] = "unborn" /\ peer[f] \notin {"absent", "backlog"}
    BY <1>0, <2>1, <2>2 DEF AcceptedOnce
  <2> QED
    BY <1>0, <2>1, <2>2, <2>3 DEF LifeOK
<1>6. CASE ReportException(w)
  BY <1>0, <1>6 DEF ReportException, LifeOK
<1>7. ASSUME NEW f \in Conns, w = Acceptor, AcceptClient(f) PROVE LifeOK'
  BY <1>0, <1>7 DEF AcceptClient, LifeOK, AcceptedOnce
<1>8. ASSUME NEW f \in Conns, w = f, ReadRecvArgs(f) PROVE LifeOK'
  BY <1>0, <1>8 DEF ReadRecvArgs, LifeOK
<1>9. ASSUME NEW f \in Conns, w = f, QueueData(f) PROVE LifeOK'
  BY <1>0, <1>9 DEF QueueData, LifeOK
<1>10. ASSUME NEW f \in Conns, w = f, HangUp(f) PROVE LifeOK'
  BY <1>0, <1>10 DEF HangUp, LifeOK
<1>11. ASSUME NEW f \in Conns, w = f, QueueDisconnect(f) PROVE LifeOK'
  BY <1>0, <1>11 DEF QueueDisconnect, LifeOK
<1> QED
  BY <1>1, <1>2, <1>3, <1>4, <1>5, <1>6, <1>7, <1>8, <1>9, <1>10, <1>11 DEF WorkerStep

LEMMA NextLife == TypeInv /\ LifeOK /\ [Next]_vars => LifeOK'
<1> SUFFICES ASSUME TypeInv, LifeOK, [Next]_vars PROVE LifeOK'
  OBVIOUS
<1> USE DEF stream_vars, flag_vars, sem_vars, thread_vars, kernel_vars
<1>1. CASE OwnerStep
  <2>1. CASE StartAccepting
    <3>1. \A f \in Conns : worker_pc'[f] = worker_pc[f]
      BY <2>1, ActorsAssumption DEF StartAccepting, TypeInv, TypeOK, Workers
    <3>2. worker_pc[Acceptor] = "unborn" => ret[Acceptor] = "none"
      BY DEF TypeInv, StartedOnce, Workers
    <3>3. worker_pc[Acceptor] = "unborn" /\ "none" \notin Conns
      BY <2>1, ActorsAssumption DEF StartAccepting, TypeInv, StartedOnce
    <3> QED
      BY <2>1, <3>1, <3>2, <3>3 DEF StartAccepting, LifeOK
  <2>5. CASE MakeAcceptSem
    BY <2>5 DEF MakeAcceptSem, LifeOK
  <2>2. CASE PickMsg
    <3>1. Dispatch(Head(msg_q).type) \in {"returned", "threw", "pick", "handler"}
      BY <2>2, Dispatched
    <3> QED
      BY <2>2, <3>1 DEF PickMsg, LeavePick, LifeOK
  <2>3. CASE HandlerEnds
    BY <2>3 DEF HandlerEnds, LeavePick, LifeOK
  <2>4. CASE ListenChecks \/ Bind \/ ListenCall \/ BeginPick \/ Destroy
    BY <2>4 DEF ListenChecks, Bind, ListenCall, BeginPick, Destroy, LifeOK
  <2> QED
    BY <1>1, <2>1, <2>2, <2>3, <2>4, <2>5 DEF OwnerStep
<1>2. ASSUME NEW c \in Closers, ExchangeFinished(c) \/ CloserStep(c) PROVE LifeOK'
  BY <1>2 DEF ExchangeFinished, CloserStep, QueueFinish, TestBeginPick, WaitForFinishPick,
     TestConnected, TakeAcceptSem, DerefNullSem, TakeClientSem, CloseSocket, CloserGoes, TakeForGood,
     LifeOK
<1>3. CASE UNCHANGED vars
  BY <1>3 DEF vars, LifeOK
<1> QED
  BY <1>1, <1>2, <1>3, KernelLife, WorkerLife DEF Next

LEMMA InitLife == Init => LifeOK
  BY DEF Init, LifeOK, Workers, Reading, Accepting


-----------------------------------------------------------------------------
(* The stream implements StreamEvents: what each step is to a user who     *)
(* sees the connections' lives and events only.                            *)

LEMMA PhaseKept ==
  ASSUME NEW f \in Conns, f \in client_fds' <=> f \in client_fds,
         f \notin client_fds => worker_pc'[f] = worker_pc[f] /\ ret'[f] = ret[f]
  PROVE  PhaseOf(f)' = PhaseOf(f)
BY DEF PhaseOf

(* What changes no phase and puts no event into the queue is not seen.     *)
LEMMA Unseen ==
  ASSUME \A f \in Conns : PhaseOf(f)' = PhaseOf(f),
         \A f \in Conns : EventsIn(msg_q', f) = EventsIn(msg_q, f),
         UNCHANGED <<queued, finish_pick>>
  PROVE  UNCHANGED Events!vars
BY DEF Events!vars

(* Errors and the finish message are no events of a connection.            *)
LEMMA NoEvent ==
  ASSUME TypeInv, NEW m \in Message, m.type \notin {"msg", "disconnect"}, msg_q' = Append(msg_q, m),
         NEW f \in Conns
  PROVE  EventsIn(msg_q', f) = EventsIn(msg_q, f)
<1>1. msg_q \in Seq(Message)
  BY DEF TypeInv, TypeOK
<1>2. ~ OfConn(m, f)
  BY DEF OfConn
<1> QED
  BY <1>1, <1>2, EventsAppend

LEMMA KernelUnseen == TypeInv /\ LifeOK /\ Kernel => UNCHANGED Events!vars
<1> SUFFICES ASSUME TypeInv, LifeOK, Kernel PROVE UNCHANGED Events!vars
  OBVIOUS
<1> USE ActorsAssumption DEF stream_vars, flag_vars, sem_vars, thread_vars
<1>0. worker_pc \in [Workers -> WorkerStates] /\ ret \in [Workers -> Returns]
  BY DEF TypeInv, TypeOK
<1>1. UNCHANGED <<client_fds, queued, msg_q, finish_pick>>
  BY DEF Kernel, AcceptFails, PeerConnects, PeerSends, PeerCloses, PeerResets, AcceptReturns,
     RecvReturnsData, RecvReturnsEof, RecvFails, Returned
<1>2. ASSUME NEW w \in Workers, NEW r, Returned(w, r), NEW f \in Conns, f \notin client_fds
      PROVE  worker_pc'[f] = worker_pc[f] /\ ret'[f] = ret[f]
  BY <1>0, <1>2 DEF Returned, LifeOK, Reading, Workers
<1>3. ASSUME NEW f \in Conns, f \notin client_fds
      PROVE  worker_pc'[f] = worker_pc[f] /\ ret'[f] = ret[f]
  <2>1. \/ UNCHANGED <<worker_pc, ret>>
        \/ \E w \in Workers, r \in Returns : Returned(w, r)
    BY DEF Kernel, AcceptFails, PeerConnects, PeerSends, PeerCloses, PeerResets, AcceptReturns,
       RecvReturnsData, RecvReturnsEof, RecvFails, Workers, Returns
  <2> QED
    BY <1>2, <1>3, <2>1
<1> QED
  BY <1>1, <1>3, PhaseKept, Unseen

LEMMA WorkerEvents ==
  ASSUME TypeInv, LifeOK, NEW w \in Workers, WorkerStep(w)
  PROVE  [Events!Next]_(Events!vars)
<1> USE ActorsAssumption
    DEF stream_vars, flag_vars, sem_vars, thread_vars, kernel_vars
<1>0. /\ worker_pc \in [Workers -> WorkerStates] /\ ret \in [Workers -> Returns]
      /\ msg_q \in Seq(Message) /\ Conns \subseteq Workers /\ Acceptor \in Workers
      /\ AcceptedOnce /\ StartedOnce
  BY DEF TypeInv, TypeOK, Workers
<1>1. CASE LockWeakPtr(w) \/ Acquire(w) \/ LoopTest(w) \/ (w \in Conns /\ ReadRecvArgs(w))
  <2>1. UNCHANGED <<client_fds, queued, msg_q, finish_pick, ret>>
    BY <1>1 DEF LockWeakPtr, Acquire, LoopTest, ReadRecvArgs
  <2>2. \A f \in Conns \ client_fds : worker_pc'[f] = worker_pc[f]
    BY <1>0, <1>1 DEF LockWeakPtr, Acquire, LoopTest, ReadRecvArgs, LifeOK, Reading
  <2> QED
    BY <2>1, <2>2, PhaseKept, Unseen
<1>2. CASE ReportSyscallError(w)
  <2>1. /\ UNCHANGED <<client_fds, queued, finish_pick, ret>>
        /\ msg_q' = msg_q \/ msg_q' = Append(msg_q, [type |-> "error"])
    BY <1>2 DEF ReportSyscallError, Enqueue
  <2>2. \A f \in Conns \ client_fds : worker_pc'[f] = worker_pc[f]
    BY <1>0, <1>2 DEF ReportSyscallError, LifeOK, Reading
  <2>3. [type |-> "error"] \in Message /\ [type |-> "error"].type \notin {"msg", "disconnect"}
    BY DEF Message
  <2>4. \A f \in Conns : EventsIn(msg_q', f) = EventsIn(msg_q, f)
    BY <2>1, <2>3, NoEvent
  <2> QED
    BY <2>1, <2>2, <2>4, PhaseKept, Unseen
<1>3. CASE ReportException(w)
  <2>1. /\ UNCHANGED <<client_fds, queued, finish_pick, ret>>
        /\ \/ msg_q' = Append(msg_q, [type |-> "error"])
           \/ msg_q' = Append(msg_q, [type |-> "critical_error"])
    BY <1>3 DEF ReportException, Enqueue
  <2>2. /\ [type |-> "error"] \in Message /\ [type |-> "error"].type \notin {"msg", "disconnect"}
        /\ [type |-> "critical_error"] \in Message
        /\ [type |-> "critical_error"].type \notin {"msg", "disconnect"}
    BY DEF Message
  <2>3. \A f \in Conns : EventsIn(msg_q', f) = EventsIn(msg_q, f)
    BY <2>1, <2>2, NoEvent
  <2>4. ASSUME NEW f \in Conns PROVE PhaseOf(f)' = PhaseOf(f)
    <3>1. CASE f = w
      <4>1. worker_pc[f] = "report" /\ worker_pc'[f] = "done" /\ ret[f] = "none"
        BY <1>0, <1>3, <3>1 DEF ReportException, LifeOK
      <4> QED
        BY <2>1, <4>1 DEF PhaseOf
    <3>2. CASE f # w
      BY <1>0, <1>3, <2>1, <3>2, PhaseKept DEF ReportException
    <3> QED
      BY <3>1, <3>2
  <2> QED
    BY <2>1, <2>3, <2>4, Unseen
<1>4. CASE w \in Conns /\ WorkerThrows(w)
  <2>1. /\ UNCHANGED <<client_fds, queued, msg_q, finish_pick>>
        /\ worker_pc' = [worker_pc EXCEPT ![w] = "report"] /\ ret' = [ret EXCEPT ![w] = "none"]
        /\ worker_pc[w] \in {"body", "hung_up", "loop"}
    BY <1>4 DEF WorkerThrows
  <2>2. ASSUME NEW f \in Conns PROVE PhaseOf(f)' = PhaseOf(f)
    <3>1. CASE f = w
      <4>1. f \in client_fds \/ worker_pc[f] = "hung_up"
        BY <2>1, <3>1 DEF LifeOK, Reading
      <4>2. worker_pc'[f] = "report"
        BY <1>0, <2>1, <3>1
      <4> QED
        BY <2>1, <4>1, <4>2 DEF PhaseOf
    <3>2. CASE f # w
      BY <1>0, <2>1, <3>2, PhaseKept
    <3> QED
      BY <3>1, <3>2
  <2> QED
    BY <2>1, <2>2, Unseen
<1>5. ASSUME NEW f \in Conns, f \notin client_fds, worker_pc[f] = "unborn", client_fds' = client_fds \cup {f},
             UNCHANGED <<queued, msg_q, finish_pick>>,
             \A g \in Conns \ {f} : worker_pc'[g] = worker_pc[g] /\ ret'[g] = ret[g]
      PROVE  Events!Connect(f)
  <2>1. PhaseOf(f) = "new" /\ PhaseOf(f)' = "open"
    BY <1>5 DEF PhaseOf
  <2>2. \A g \in Conns \ {f} : PhaseOf(g)' = PhaseOf(g)
    BY <1>5, PhaseKept
  <2> QED
    BY <1>5, <2>1, <2>2 DEF Events!Connect
<1>6. ASSUME NEW f \in Conns, w = Acceptor, AcceptClient(f) PROVE Events!Connect(f)
  <2>1. worker_pc[f] = "unborn" /\ f \notin client_fds
    BY <1>0, <1>6 DEF AcceptClient, AcceptedOnce, LifeOK, Accepting
  <2>2. /\ client_fds' = client_fds \cup {f} /\ UNCHANGED <<queued, msg_q, finish_pick>>
        /\ \A g \in Conns \ {f} : worker_pc'[g] = worker_pc[g] /\ ret'[g] = ret[g]
    BY <1>0, <1>6 DEF AcceptClient
  <2> QED
    BY <1>5, <2>1, <2>2
<1>7. CASE w = Acceptor /\ WorkerThrows(w)
  <2>1. /\ UNCHANGED <<queued, msg_q, finish_pick>>
        /\ \A g \in Conns : worker_pc'[g] = worker_pc[g] /\ ret'[g] = ret[g]
        /\ worker_pc[Acceptor] = "body"
    BY <1>0, <1>7 DEF WorkerThrows, StartedOnce
  <2>2. CASE client_fds' = client_fds
    BY <2>1, <2>2, PhaseKept, Unseen
  <2>3. CASE client_fds' # client_fds
    <3>1. ret[Acceptor] \in Conns /\ client_fds' = client_fds \cup {ret[Acceptor]}
      BY <1>7, <2>3 DEF WorkerThrows
    <3>2. worker_pc[ret[Acceptor]] = "unborn" /\ ret[Acceptor] \notin client_fds
      BY <1>0, <2>1, <3>1 DEF AcceptedOnce, LifeOK, Accepting
    <3>3. Events!Connect(ret[Acceptor])
      BY <1>5, <2>1, <3>1, <3>2
    <3> QED
      BY <3>1, <3>3 DEF Events!Next
  <2> QED
    BY <2>2, <2>3
<1>8. ASSUME w \in Conns, QueueData(w) PROVE Events!Arrive(w)
  <2> DEFINE m == [type |-> "msg", fd |-> w, n |-> queued[w] + 1]
  <2>1. /\ queued[w] + 1 \in 1 .. MaxChunks /\ queued[w] < MaxChunks /\ m \in Message
        /\ queued' = [queued EXCEPT ![w] = queued[w] + 1]
    BY <1>8, BoundsAssumption DEF QueueData, TypeInv, TypeOK, DataPending, Message
  <2>2. msg_q' = Append(msg_q, m) /\ UNCHANGED <<client_fds, finish_pick, ret>>
    BY <1>8 DEF QueueData, Enqueue
  <2>3. EventOf(m) = queued[w] + 1 /\ OfConn(m, w) /\ \A g \in Conns \ {w} : ~ OfConn(m, g)
    BY DEF EventOf, OfConn
  <2> HIDE DEF m
  <2>4. /\ EventsIn(msg_q', w) = Append(EventsIn(msg_q, w), queued[w] + 1)
        /\ \A g \in Conns \ {w} : EventsIn(msg_q', g) = EventsIn(msg_q, g)
    BY <1>0, <2>1, <2>2, <2>3, EventsAppend
  <2>5. w \in client_fds /\ \A g \in Conns \ {w} : worker_pc'[g] = worker_pc[g]
    BY <1>0, <1>8 DEF QueueData, LifeOK, Reading
  <2>6. PhaseOf(w) = "open" /\ \A g \in Conns : PhaseOf(g)' = PhaseOf(g)
    <3>1. PhaseOf(w) = "open"
      BY <2>5 DEF PhaseOf
    <3> QED
      BY <2>2, <2>5, <3>1, PhaseKept
  <2> QED
    BY <1>8, <2>1, <2>2, <2>4, <2>6 DEF Events!Arrive
<1>9. ASSUME w \in Conns, HangUp(w) PROVE Events!HangUp(w)
  <2>1. /\ w \in client_fds /\ client_fds' = client_fds \ {w} /\ worker_pc'[w] = "hung_up"
        /\ UNCHANGED <<queued, msg_q, finish_pick, ret>>
        /\ \A g \in Conns \ {w} : worker_pc'[g] = worker_pc[g]
    BY <1>0, <1>9 DEF HangUp, LifeOK, Reading
  <2>2. PhaseOf(w) = "open" /\ PhaseOf(w)' = "hung_up"
    BY <2>1 DEF PhaseOf
  <2>3. \A g \in Conns \ {w} : PhaseOf(g)' = PhaseOf(g)
    BY <2>1, PhaseKept
  <2> QED
    BY <1>9, <2>1, <2>2, <2>3 DEF Events!HangUp
<1>10. ASSUME w \in Conns, QueueDisconnect(w) PROVE Events!QueueEof(w)
  <2> DEFINE m == [type |-> "disconnect", fd |-> w]
  <2>1. /\ w \notin client_fds /\ worker_pc[w] = "hung_up" /\ ret[w] = "eof" /\ worker_pc'[w] = "done"
        /\ UNCHANGED <<client_fds, queued, finish_pick, ret>>
        /\ \A g \in Conns \ {w} : worker_pc'[g] = worker_pc[g]
    BY <1>0, <1>10 DEF QueueDisconnect, LifeOK
  <2>2. msg_q' = Append(msg_q, m) /\ m \in Message
    BY <1>10 DEF QueueDisconnect, Enqueue, Message
  <2>3. EventOf(m) = 0 /\ OfConn(m, w) /\ \A g \in Conns \ {w} : ~ OfConn(m, g)
    BY DEF EventOf, OfConn
  <2> HIDE DEF m
  <2>4. /\ EventsIn(msg_q', w) = Append(EventsIn(msg_q, w), 0)
        /\ \A g \in Conns \ {w} : EventsIn(msg_q', g) = EventsIn(msg_q, g)
    BY <1>0, <2>2, <2>3, EventsAppend
  <2>5. PhaseOf(w) = "hung_up" /\ PhaseOf(w)' = "over"
    BY <2>1 DEF PhaseOf
  <2>6. \A g \in Conns \ {w} : PhaseOf(g)' = PhaseOf(g)
    BY <2>1, PhaseKept
  <2> QED
    BY <1>10, <2>1, <2>4, <2>5, <2>6 DEF Events!QueueEof, Events!Eof
<1> QED
  BY <1>1, <1>2, <1>3, <1>4, <1>6, <1>7, <1>8, <1>9, <1>10 DEF WorkerStep, Events!Next, Workers


LEMMA PickIsHandle ==
  ASSUME TypeInv, LifeOK, PickMsg
  PROVE  [Events!Next]_(Events!vars)
<1> DEFINE m == Head(msg_q)
<1>1. /\ msg_q \in Seq(Message) /\ msg_q # <<>> /\ msg_q' = Tail(msg_q) /\ m \in Message
      /\ UNCHANGED <<client_fds, worker_pc, ret, queued>>
  BY DEF PickMsg, LeavePick, TypeInv, TypeOK, kernel_vars
<1>2. /\ finish_pick = FALSE
      /\ finish_pick' \in BOOLEAN
      /\ finish_pick' <=> Dispatch(m.type) \in {"returned", "threw"}
  <2>1. ~finish_pick /\ finish_pick \in BOOLEAN
    BY DEF PickMsg, LifeOK, TypeInv, TypeOK
  <2>2. finish_pick' = (finish_pick \/ Dispatch(m.type) \in {"returned", "threw"})
    BY DEF PickMsg, LeavePick
  <2> HIDE DEF m
  <2>3. finish_pick = FALSE
    BY <2>1
  <2>4. finish_pick' \in BOOLEAN
    BY <2>2
  <2>5. finish_pick' <=> Dispatch(m.type) \in {"returned", "threw"}
    BY <2>1, <2>2
  <2> QED
    BY <2>3, <2>4, <2>5
<1>3. m.type \in {"finish", "critical_error", "error", "msg", "disconnect"}
  BY <1>1 DEF Message
<1>4. \A f \in Conns : PhaseOf(f)' = PhaseOf(f)
  BY <1>1, PhaseKept
<1>5. \A f \in Conns : IF OfConn(m, f)
                       THEN /\ EventsIn(msg_q, f) # <<>>
                            /\ EventsIn(msg_q', f) = Tail(EventsIn(msg_q, f))
                       ELSE EventsIn(msg_q', f) = EventsIn(msg_q, f)
  BY <1>1, EventsTail
<1>6. CASE m.type \in {"msg", "disconnect"}
  <2>1. m.fd \in Conns
    BY <1>1, <1>6 DEF Message
  <2>2. OfConn(m, m.fd) /\ \A g \in Conns \ {m.fd} : ~ OfConn(m, g)
    BY <1>6 DEF OfConn
  <2>3. Dispatch(m.type) = "handler"
    BY <1>6 DEF Dispatch
  <2>4. finish_pick = FALSE /\ finish_pick' = FALSE
    BY <1>2, <2>3
  <2> HIDE DEF m
  <2>5. /\ EventsIn(msg_q, m.fd) # <<>> /\ EventsIn(msg_q', m.fd) = Tail(EventsIn(msg_q, m.fd))
        /\ \A g \in Conns \ {m.fd} : EventsIn(msg_q', g) = EventsIn(msg_q, g)
    BY <1>5, <2>1, <2>2
  <2>6. Events!Handle(m.fd)
    BY <1>1, <1>4, <2>1, <2>4, <2>5 DEF Events!Handle
  <2> QED
    BY <2>1, <2>6 DEF Events!Next
<1>7. CASE m.type \notin {"msg", "disconnect"}
  <2>1. \A f \in Conns : EventsIn(msg_q', f) = EventsIn(msg_q, f)
    BY <1>5, <1>7 DEF OfConn
  <2>2. CASE m.type = "error"
    <3>1. Dispatch(m.type) = "pick"
      BY <2>2 DEF Dispatch
    <3>2. finish_pick' = FALSE
      BY <1>2, <3>1
    <3>3. finish_pick' = finish_pick
      BY <1>2, <3>2
    <3> QED
      BY <1>1, <1>4, <2>1, <3>3, Unseen
  <2>3. CASE m.type \in {"finish", "critical_error"}
    <3>1. Dispatch(m.type) \in {"returned", "threw"}
      BY <2>3 DEF Dispatch
    <3>2. finish_pick = FALSE /\ finish_pick' = TRUE
      BY <1>2, <3>1
    <3>3. Events!Stop
      BY <1>1, <1>4, <2>1, <3>2 DEF Events!Stop
    <3> QED
      BY <3>3 DEF Events!Next
  <2> QED
    BY <1>3, <1>7, <2>2, <2>3
<1> QED
  BY <1>6, <1>7

LEMMA OwnerEvents ==
  ASSUME TypeInv, LifeOK, OwnerStep
  PROVE  [Events!Next]_(Events!vars)
<1> USE DEF stream_vars, flag_vars, sem_vars, thread_vars, kernel_vars
<1>1. CASE \/ ListenChecks \/ Bind \/ ListenCall \/ BeginPick \/ Destroy
           \/ MakeAcceptSem \/ StartAccepting
  <2>1. UNCHANGED <<client_fds, queued, msg_q, finish_pick, ret>>
    BY <1>1 DEF ListenChecks, Bind, ListenCall, BeginPick, Destroy, MakeAcceptSem,
       StartAccepting
  <2>2. \A f \in Conns : worker_pc'[f] = worker_pc[f]
    BY <1>1, ActorsAssumption DEF ListenChecks, Bind, ListenCall, BeginPick, Destroy, MakeAcceptSem, StartAccepting,
       TypeInv, TypeOK, Workers
  <2> QED
    BY <2>1, <2>2, PhaseKept, Unseen
<1>2. CASE HandlerEnds
  <2>1. UNCHANGED <<client_fds, queued, msg_q, worker_pc, ret>> /\ ~finish_pick
    BY <1>2 DEF HandlerEnds, LeavePick, LifeOK
  <2>2. finish_pick' = FALSE \/ finish_pick' = TRUE
    BY <1>2, <2>1 DEF HandlerEnds, LeavePick
  <2>3. \A f \in Conns : PhaseOf(f)' = PhaseOf(f)
    BY <2>1, PhaseKept
  <2>4. CASE finish_pick' = TRUE
    <3>1. Events!Stop
      BY <2>1, <2>3, <2>4 DEF Events!Stop
    <3> QED
      BY <3>1 DEF Events!Next
  <2>5. CASE finish_pick' = FALSE
    <3>1. finish_pick' = finish_pick
      BY <2>1, <2>5 DEF TypeInv, TypeOK
    <3> QED
      BY <2>1, <2>3, <3>1, Unseen
  <2> QED
    BY <2>2, <2>4, <2>5
<1> QED
  BY <1>1, <1>2, PickIsHandle DEF OwnerStep

LEMMA CloserUnseen ==
  ASSUME TypeInv, NEW c \in Closers, ExchangeFinished(c) \/ CloserStep(c)
  PROVE  UNCHANGED Events!vars
<1> USE DEF stream_vars, flag_vars, sem_vars, thread_vars, kernel_vars, CloserGoes
<1>1. UNCHANGED <<client_fds, queued, finish_pick, worker_pc, ret>>
  BY DEF ExchangeFinished, CloserStep, QueueFinish, TestBeginPick, WaitForFinishPick,
     TestConnected, TakeAcceptSem, DerefNullSem, TakeClientSem, CloseSocket, TakeForGood
<1>2. msg_q' = msg_q \/ msg_q' = Append(msg_q, [type |-> "finish"])
  BY DEF ExchangeFinished, CloserStep, QueueFinish, TestBeginPick, WaitForFinishPick,
     TestConnected, TakeAcceptSem, DerefNullSem, TakeClientSem, CloseSocket, TakeForGood, Enqueue
<1>3. [type |-> "finish"] \in Message /\ [type |-> "finish"].type \notin {"msg", "disconnect"}
  BY DEF Message
<1>4. \A f \in Conns : EventsIn(msg_q', f) = EventsIn(msg_q, f)
  BY <1>2, <1>3, NoEvent
<1> QED
  BY <1>1, <1>4, PhaseKept, Unseen

LEMMA NextEvents == TypeInv /\ LifeOK /\ [Next]_vars => [Events!Next]_(Events!vars)
<1> SUFFICES ASSUME TypeInv, LifeOK, [Next]_vars PROVE [Events!Next]_(Events!vars)
  OBVIOUS
<1>1. CASE UNCHANGED vars
  <2>1. UNCHANGED <<client_fds, queued, msg_q, finish_pick, worker_pc, ret>>
    BY <1>1 DEF vars, stream_vars, flag_vars, sem_vars, thread_vars, kernel_vars
  <2> QED
    BY <2>1, PhaseKept, Unseen
<1>2. CASE Next
  BY <1>2, KernelUnseen, WorkerEvents, OwnerEvents, CloserUnseen DEF Next
<1> QED
  BY <1>1, <1>2

LEMMA InitEvents == Init => Events!Init
<1> SUFFICES ASSUME Init PROVE Events!Init
  OBVIOUS
<1>1. \A f \in Conns : PhaseOf(f) = "new"
  BY DEF Init, PhaseOf, Workers
<1>2. ASSUME NEW f \in Conns PROVE EventsIn(msg_q, f) = <<>>
  <2>1. msg_q \in Seq(Message) /\ PlacesOf(msg_q, f) = {}
    BY DEF Init, PlacesOf
  <2>2. Cardinality(PlacesOf(msg_q, f)) = 0
    BY <2>1, FS_EmptySet
  <2> QED
    BY <2>2 DEF EventsIn
<1> QED
  BY <1>1, <1>2 DEF Init, Events!Init

(* To the code that uses it the server's stream is what StreamEvents       *)
(* promises, which is all that the chat server is checked and proved over: *)
(* a connection is announced once, its chunks come in order and none is    *)
(* lost, its disconnect comes once and last, and nothing after the stop.   *)
THEOREM StreamImplementsEvents == Spec => ImplementsEvents
<1>1. Spec => []LifeOK
  BY InitLife, NextLife, TypeInvariance, PTL DEF Spec
<1> QED
  BY <1>1, InitEvents, NextEvents, TypeInvariance, PTL DEF Spec, ImplementsEvents, Events!Spec

-----------------------------------------------------------------------------
(* ServerSending: type correctness.                                        *)

(* A send reaches a peer that has closed, and is answered by a reset.      *)
LateReset ==
  /\ \E f \in Conns : peer[f] = "fin" /\ peer' = [peer EXCEPT ![f] = "rst"]
  /\ UNCHANGED <<stream_vars, sem_vars, thread_vars, sent, queued, faults>>

LEMMA StreamSteps ==
  TypeInv /\ SendTypeOK /\ [SendNext]_all_vars => [Next]_vars \/ LateReset
<1> SUFFICES ASSUME TypeInv, SendTypeOK, [SendNext]_all_vars PROVE [Next]_vars \/ LateReset
  OBVIOUS
<1>1. CASE UNCHANGED all_vars
  BY <1>1 DEF all_vars
<1>2. CASE SendNext
  <2>1. ~Crashed
    BY <1>2 DEF SendNext, Down
  <2>2. CASE SameSends(Kernel) \/ OwnerRuns
    BY <2>1, <2>2 DEF SameSends, OwnerRuns, Next
  <2>3. CASE \E w \in Workers : LockedWorkerStep(w)
    BY <2>1, <2>3 DEF LockedWorkerStep, Next
  <2>4. CASE \E c \in Closers : SameSends(ExchangeFinished(c)) \/ SameSends(CloserStep(c))
    BY <2>1, <2>4 DEF SameSends, Next
  <2>5. CASE Sending
    <3>1. CASE SendReturns
      <4>1. writing \in Conns /\ peer \in [Conns -> PeerStates]
        BY <3>1 DEF SendReturns, SendTypeOK, TypeInv, TypeOK
      <4>2. UNCHANGED <<stream_vars, sem_vars, thread_vars, sent, queued, faults>>
        BY <3>1 DEF SendReturns, CallGoes
      <4>3. CASE peer' = peer
        BY <4>2, <4>3 DEF vars, kernel_vars
      <4>4. CASE peer' # peer
        <5>1. peer[writing] = "fin" /\ peer' = [peer EXCEPT ![writing] = "rst"]
          BY <3>1, <4>1, <4>4 DEF SendReturns
        <5> QED
          BY <4>1, <4>2, <5>1 DEF LateReset
      <4> QED
        BY <4>3, <4>4
    <3>2. CASE ~SendReturns
      BY <2>5, <3>2 DEF Sending, SendToAllClients, SendFails, SendKills, Unlock,
         SendToOneClient, SendMsg, CallGoes, vars, kernel_vars
    <3> QED
      BY <3>1, <3>2
  <2>6. CASE \E f \in Conns : PeerReads(f)
    BY <2>6 DEF PeerReads
  <2> QED
    BY <1>2, <2>2, <2>3, <2>4, <2>5, <2>6 DEF SendNext
<1> QED
  BY <1>1, <1>2

LEMMA ResetKeepsTypes == TypeInv /\ LateReset => TypeInv'
  BY DEF LateReset, stream_vars, flag_vars, sem_vars, thread_vars, PeerStates,
     TypeInv, TypeOK, DataPending, AcceptedOnce, StartedOnce

LEMMA OwnerStays ==
  ASSUME \/ Kernel
         \/ \E w \in Workers : WorkerStep(w)
         \/ \E c \in Closers : ExchangeFinished(c) \/ CloserStep(c)
  PROVE  owner_pc' = owner_pc
<1>1. CASE Kernel
  BY <1>1 DEF Kernel, PeerConnects, PeerSends, PeerCloses, PeerResets, AcceptReturns,
     AcceptFails, RecvReturnsData, RecvReturnsEof, RecvFails, Returned, thread_vars
<1>2. CASE \E w \in Workers : WorkerStep(w)
  BY <1>2 DEF WorkerStep, LockWeakPtr, Acquire, LoopTest, ReportSyscallError, WorkerThrows,
     ReportException, AcceptClient, ReadRecvArgs, QueueData, HangUp, QueueDisconnect
<1>3. CASE \E c \in Closers : ExchangeFinished(c) \/ CloserStep(c)
  BY <1>3 DEF ExchangeFinished, CloserStep, QueueFinish, TestBeginPick, WaitForFinishPick,
     TestConnected, TakeAcceptSem, DerefNullSem, TakeClientSem, CloseSocket, CloserGoes
<1> QED
  BY <1>1, <1>2, <1>3

LEMMA NextSendTypeOK == TypeInv /\ SendTypeOK /\ [SendNext]_all_vars => SendTypeOK'
<1> SUFFICES ASSUME TypeInv, SendTypeOK, [SendNext]_all_vars PROVE SendTypeOK'
  OBVIOUS
<1> USE ActorsAssumption, RoomAssumption DEF SendTypeOK, Locked, send_vars, thread_vars
<1>1. CASE UNCHANGED all_vars
  BY <1>1 DEF all_vars, vars
<1>2. CASE SameSends(Kernel)
  BY <1>2, OwnerStays DEF SameSends
<1>3. CASE \E w \in Workers : LockedWorkerStep(w)
  BY <1>3, OwnerStays DEF LockedWorkerStep
<1>4. CASE \E c \in Closers : SameSends(ExchangeFinished(c)) \/ SameSends(CloserStep(c))
  BY <1>4, OwnerStays DEF SameSends
<1>5. CASE OwnerRuns
  BY <1>5 DEF OwnerRuns
<1>6. CASE SendToAllClients \/ SendFails \/ SendKills \/ Unlock
  BY <1>6 DEF SendToAllClients, SendFails, SendKills, Unlock, CallGoes, TypeInv, TypeOK, vars
<1>7. ASSUME NEW f \in Conns, SendToOneClient(f) \/ SendMsg(f) PROVE SendTypeOK'
  BY <1>7 DEF SendToOneClient, SendMsg, CallGoes
<1>8. CASE SendReturns
  <2>1. writing \in Conns
    BY <1>8 DEF SendReturns
  <2>2. unread' \in [Conns -> 0 .. Room]
    BY <1>8, <2>1 DEF SendReturns
  <2> QED
    BY <1>8, <2>2 DEF SendReturns, CallGoes
<1>9. ASSUME NEW f \in Conns, PeerReads(f) PROVE SendTypeOK'
  BY <1>9 DEF PeerReads, vars
<1> QED
  BY <1>1, <1>2, <1>3, <1>4, <1>5, <1>6, <1>7, <1>8, <1>9 DEF SendNext, Sending

LEMMA InitSendTypeOK == SendInit => TypeInv /\ SendTypeOK
<1>1. SendInit => SendTypeOK
  <2>1. 0 \in 0 .. Room
    BY RoomAssumption
  <2>2. SendInit => unread \in [Conns -> 0 .. Room]
    BY <2>1 DEF SendInit
  <2> QED
    BY <2>2 DEF SendInit, SendTypeOK, Locked
<1> QED
  BY <1>1, InitTypeInv DEF SendInit

LEMMA SendTypeInvariance == SendSpec => [](TypeInv /\ SendTypeOK)
<1>1. TypeInv /\ SendTypeOK /\ [SendNext]_all_vars => TypeInv' /\ SendTypeOK'
  BY StreamSteps, NextTypeInv, ResetKeepsTypes, NextSendTypeOK
<1> QED
  BY <1>1, InitSendTypeOK, PTL DEF SendSpec

(* m_client_fds_lock is held by the picking thread only while it is in a   *)
(* callback, and outside of a send nothing is left over of one.            *)
THEOREM SendTypeCorrect == SendSpec => []SendTypeOK
  BY SendTypeInvariance, PTL

-----------------------------------------------------------------------------
(* What holds of the stream holds with the sends.                          *)

LEMMA ResetKeepsThreads ==
  /\ OnePermit /\ LateReset => OnePermit'
  /\ CrashInv /\ LateReset => CrashInv'
  /\ EndInv /\ LateReset => EndInv'
<1> USE DEF LateReset, stream_vars, flag_vars, sem_vars, thread_vars, InEnd, NoWorkers, Crashed
<1>1. OnePermit /\ LateReset => OnePermit'
  BY DEF OnePermit
<1>2. CrashInv /\ LateReset => CrashInv'
  BY DEF CrashInv, OneEnder, ClosedLast, AcceptorFirst, CrashLeavesNoWorker
<1>3. EndInv /\ LateReset => EndInv'
  BY DEF EndInv, OneEnder, StartedByThen, StayTaken, NothingLeft
<1> QED
  BY <1>1, <1>2, <1>3

LEMMA SendPermits == SendSpec => []OnePermit
<1>1. SendInit => OnePermit
  BY DEF SendInit, Init, OnePermit, Holding
<1> QED
  BY <1>1, StreamSteps, NextOnePermit, ResetKeepsThreads, SendTypeInvariance, PTL DEF SendSpec

(* Also while callbacks send, a null semaphore is met only before the      *)
(* accepting thread, and with it any other, was started.                   *)
THEOREM SendersCrashComesFirst == SendSpec => []CrashLeavesNoWorker
<1>1. SendInit => CrashInv
  BY InitCrashInv DEF SendInit
<1>2. CrashInv => CrashLeavesNoWorker
  BY DEF CrashInv
<1> QED
  BY <1>1, <1>2, StreamSteps, NextCrashInv, ResetKeepsThreads, SendTypeInvariance, PTL
     DEF SendSpec

(* Also while callbacks send, the stream is quiet once it has ended.       *)
THEOREM QuietWithSends ==
  ASSUME ~EarlyStop
  PROVE  SendSpec => []QuietAfterEnd
<1>1. SendInit => EndInv
  BY ActorsAssumption DEF SendInit, Init, EndInv, OneEnder, StartedByThen, StayTaken, NothingLeft,
     NoWorkers, InEnd, Closers, Workers
<1>2. OnePermit /\ EndInv => QuietAfterEnd
  BY DEF OnePermit, EndInv, StayTaken, NothingLeft, NoWorkers, QuietAfterEnd, Holding
<1> QED
  BY <1>1, <1>2, StreamSteps, NextEndInv, ResetKeepsThreads, SendPermits, SendTypeInvariance, PTL
     DEF SendSpec

(* Also while callbacks send, the code's assert(0) is out of reach: where  *)
(* a worker releases, its semaphore is still there.                        *)
THEOREM AssertNotReachedBySenders == SendSpec => []AssertUnreached
<1>1. OnePermit => AssertUnreached
  BY DEF OnePermit, AssertUnreached, Alive
<1> QED
  BY <1>1, SendPermits, PTL

LEMMA ResetLife == TypeInv /\ LifeOK /\ LateReset => LifeOK'
<1> SUFFICES ASSUME TypeInv, LifeOK, LateReset PROVE LifeOK'
  OBVIOUS
<1>1. UNCHANGED <<client_fds, finish_pick, worker_pc, ret, owner_pc>>
  BY DEF LateReset, stream_vars, flag_vars, thread_vars
<1>2. ASSUME NEW f \in Conns, peer'[f] \in {"absent", "backlog"} PROVE peer[f] = peer'[f]
  BY <1>2 DEF LateReset, TypeInv, TypeOK
<1> QED
  BY <1>1, <1>2 DEF LifeOK

LEMMA ResetUnseen == LateReset => UNCHANGED Events!vars
<1> SUFFICES ASSUME LateReset PROVE UNCHANGED Events!vars
  OBVIOUS
<1>1. UNCHANGED <<client_fds, queued, msg_q, finish_pick, worker_pc, ret>>
  BY DEF LateReset, stream_vars, flag_vars, thread_vars
<1> QED
  BY <1>1, PhaseKept, Unseen

(* The chat server, which sends from its callbacks, may rely on the same   *)
(* events as a user that does not: whatever a send waits for, and whatever *)
(* it does to a connection, connections are announced once, their chunks   *)
(* come in order, their disconnect once and last, and nothing after the    *)
(* stop.                                                                   *)
THEOREM SendersSeeTheEvents == SendSpec => ImplementsEvents
<1>1. SendInit => LifeOK /\ Events!Init
  BY InitLife, InitEvents DEF SendInit
<1>2. TypeInv /\ SendTypeOK /\ LifeOK /\ [SendNext]_all_vars => LifeOK'
  BY StreamSteps, NextLife, ResetLife
<1>3. TypeInv /\ SendTypeOK /\ LifeOK /\ [SendNext]_all_vars => [Events!Next]_(Events!vars)
  BY StreamSteps, NextEvents, ResetUnseen
<1> QED
  BY <1>1, <1>2, <1>3, SendTypeInvariance, PTL
     DEF SendSpec, ImplementsEvents, Events!Spec

-----------------------------------------------------------------------------
(* What the lock is for: a descriptor that is written to, or is still to   *)
(* be, stays in m_client_fds, as whoever would erase it waits for the lock.*)

SentWhileRegistered ==
  Locked => to_send \cup ({writing} \ {"none"}) \subseteq client_fds

LEMMA NextRegistered ==
  TypeInv /\ SendTypeOK /\ SentWhileRegistered /\ [SendNext]_all_vars => SentWhileRegistered'
<1> SUFFICES ASSUME TypeInv, SendTypeOK, SentWhileRegistered, [SendNext]_all_vars
             PROVE  SentWhileRegistered'
  OBVIOUS
<1> USE DEF SentWhileRegistered, SendTypeOK, Locked, send_vars, stream_vars
<1>1. CASE UNCHANGED all_vars
  BY <1>1 DEF all_vars, vars
<1>2. CASE SameSends(Kernel)
  BY <1>2 DEF SameSends, Kernel, PeerConnects, PeerSends, PeerCloses, PeerResets, AcceptReturns,
     AcceptFails, RecvReturnsData, RecvReturnsEof, RecvFails, Returned
<1>3. ASSUME NEW w \in Workers, LockedWorkerStep(w) PROVE SentWhileRegistered'
  <2>1. Locked => client_fds \subseteq client_fds'
    BY <1>3 DEF LockedWorkerStep, Erases, WorkerStep, LockWeakPtr, Acquire, LoopTest,
       ReportSyscallError, WorkerThrows, ReportException, AcceptClient, ReadRecvArgs, QueueData,
       HangUp, QueueDisconnect
  <2> QED
    BY <1>3, <2>1 DEF LockedWorkerStep
<1>4. ASSUME NEW c \in Closers, SameSends(ExchangeFinished(c)) \/ SameSends(CloserStep(c))
      PROVE  SentWhileRegistered'
  BY <1>4 DEF SameSends, ExchangeFinished, CloserStep, QueueFinish, TestBeginPick,
     WaitForFinishPick, TestConnected, TakeAcceptSem, DerefNullSem, TakeClientSem, TakeForGood,
     CloseSocket
<1>5. CASE OwnerRuns
  BY <1>5 DEF OwnerRuns
<1>6. CASE SendToAllClients \/ SendReturns \/ SendFails \/ SendKills \/ Unlock
  BY <1>6 DEF SendToAllClients, SendReturns, SendFails, SendKills, Unlock, CallGoes, vars
<1>7. ASSUME NEW f \in Conns, SendToOneClient(f) \/ SendMsg(f) PROVE SentWhileRegistered'
  BY <1>7 DEF SendToOneClient, SendMsg, CallGoes
<1>8. ASSUME NEW f \in Conns, PeerReads(f) PROVE SentWhileRegistered'
  BY <1>8 DEF PeerReads, vars
<1> QED
  BY <1>1, <1>2, <1>3, <1>4, <1>5, <1>6, <1>7, <1>8 DEF SendNext, Sending

(* Whose disconnect is in the queue: its descriptor is erased, and its     *)
(* thread is through, so that nothing registers it again.                  *)
Gone(f) == f \notin client_fds /\ worker_pc[f] = "done"

DisconnectedGone ==
  \A i \in 1 .. Len(msg_q) : msg_q[i].type = "disconnect" => Gone(msg_q[i].fd)

LEMMA GoneStays ==
  ASSUME TypeInv, [Next]_vars, NEW f \in Conns, Gone(f)
  PROVE  Gone(f)'
<1> USE ActorsAssumption
    DEF Gone, Workers, stream_vars, flag_vars, sem_vars, thread_vars, kernel_vars
<1>0. worker_pc \in [Workers -> WorkerStates] /\ AcceptedOnce /\ StartedOnce
  BY DEF TypeInv, TypeOK
<1>1. CASE Kernel
  BY <1>0, <1>1 DEF Kernel, PeerConnects, PeerSends, PeerCloses, PeerResets, AcceptReturns,
     AcceptFails, RecvReturnsData, RecvReturnsEof, RecvFails, Returned
<1>2. ASSUME NEW w \in Workers, WorkerStep(w) PROVE Gone(f)'
  <2>1. CASE WorkerThrows(w)
    <3>1. w # f
      BY <2>1 DEF WorkerThrows
    <3>2. ret[Acceptor] # f \/ w # Acceptor
      BY <1>0, <2>1 DEF WorkerThrows, AcceptedOnce, StartedOnce
    <3>3. PICK registered : /\ client_fds' = client_fds \cup registered
                            /\ registered # {} => registered = {ret[w]} /\ w = Acceptor
      <4>1. CASE w = Acceptor /\ ret[w] \in Conns
        BY <2>1, <4>1 DEF WorkerThrows
      <4>2. CASE ~ (w = Acceptor /\ ret[w] \in Conns)
        BY <2>1, <4>2 DEF WorkerThrows
      <4> QED
        BY <4>1, <4>2
    <3>4. f \notin client_fds'
      BY <3>2, <3>3
    <3> QED
      BY <1>0, <2>1, <3>1, <3>4 DEF WorkerThrows
  <2>2. ASSUME NEW g \in Conns, AcceptClient(g) PROVE Gone(f)'
    BY <1>0, <2>2 DEF AcceptClient, AcceptedOnce
  <2>3. CASE \/ LockWeakPtr(w) \/ Acquire(w) \/ LoopTest(w) \/ ReportSyscallError(w)
             \/ ReportException(w)
    BY <1>0, <2>3 DEF LockWeakPtr, Acquire, LoopTest, ReportSyscallError, ReportException
  <2>4. CASE ReadRecvArgs(w) \/ QueueData(w) \/ HangUp(w) \/ QueueDisconnect(w)
    BY <1>0, <2>4 DEF ReadRecvArgs, QueueData, HangUp, QueueDisconnect
  <2> QED
    BY <1>2, <2>1, <2>2, <2>3, <2>4 DEF WorkerStep
<1>3. CASE OwnerStep
  BY <1>0, <1>3 DEF OwnerStep, ListenChecks, Bind, ListenCall, MakeAcceptSem, StartAccepting,
     BeginPick, PickMsg, HandlerEnds, LeavePick, Destroy
<1>4. ASSUME NEW c \in Closers, ExchangeFinished(c) \/ CloserStep(c) PROVE Gone(f)'
  BY <1>4 DEF ExchangeFinished, CloserStep, QueueFinish, TestBeginPick, WaitForFinishPick,
     TestConnected, TakeAcceptSem, DerefNullSem, TakeClientSem, TakeForGood, CloseSocket, CloserGoes
<1>5. CASE UNCHANGED vars
  BY <1>5 DEF vars
<1> QED
  BY <1>1, <1>2, <1>3, <1>4, <1>5 DEF Next

(* What a step does to the queue.                                          *)
LEMMA QueueSteps ==
  ASSUME [Next]_vars
  PROVE  \/ msg_q' = msg_q
         \/ msg_q # <<>> /\ msg_q' = Tail(msg_q)
         \/ \E m : m.type # "disconnect" /\ msg_q' = Append(msg_q, m)
         \/ \E f \in Conns : QueueDisconnect(f)
<1> USE DEF stream_vars, flag_vars, Enqueue
<1>1. CASE Kernel \/ UNCHANGED vars
  BY <1>1 DEF Kernel, PeerConnects, PeerSends, PeerCloses, PeerResets, AcceptReturns,
     AcceptFails, RecvReturnsData, RecvReturnsEof, RecvFails, Returned, vars
<1>2. ASSUME NEW w \in Workers, WorkerStep(w), \A f \in Conns : ~QueueDisconnect(f)
      PROVE  msg_q' = msg_q \/ \E m : m.type # "disconnect" /\ msg_q' = Append(msg_q, m)
  <2>1. CASE ReportSyscallError(w)
    BY <2>1 DEF ReportSyscallError
  <2>2. CASE ReportException(w)
    BY <2>2 DEF ReportException
  <2>3. CASE QueueData(w)
    BY <2>3 DEF QueueData
  <2>4. CASE ~ReportSyscallError(w) /\ ~ReportException(w) /\ ~QueueData(w)
    BY <1>2, <2>4 DEF WorkerStep, LockWeakPtr, Acquire, LoopTest, WorkerThrows, AcceptClient,
       ReadRecvArgs, HangUp
  <2> QED
    BY <2>1, <2>2, <2>3, <2>4
<1>3. CASE OwnerStep
  BY <1>3 DEF OwnerStep, ListenChecks, Bind, ListenCall, MakeAcceptSem, StartAccepting,
     BeginPick, PickMsg, HandlerEnds, Destroy
<1>4. ASSUME NEW c \in Closers, ExchangeFinished(c) \/ CloserStep(c)
      PROVE  msg_q' = msg_q \/ \E m : m.type # "disconnect" /\ msg_q' = Append(msg_q, m)
  <2>1. CASE QueueFinish(c)
    BY <2>1 DEF QueueFinish
  <2>2. CASE ~QueueFinish(c)
    BY <1>4, <2>2 DEF ExchangeFinished, CloserStep, TestBeginPick, WaitForFinishPick,
       TestConnected, TakeAcceptSem, DerefNullSem, TakeClientSem, TakeForGood, CloseSocket
  <2> QED
    BY <2>1, <2>2
<1> QED
  BY <1>1, <1>2, <1>3, <1>4 DEF Next

LEMMA NextDisconnectedGone ==
  TypeInv /\ LifeOK /\ DisconnectedGone /\ [Next]_vars => DisconnectedGone'
<1> SUFFICES ASSUME TypeInv, LifeOK, DisconnectedGone, [Next]_vars,
                    NEW i \in 1 .. Len(msg_q'), msg_q'[i].type = "disconnect"
             PROVE  /\ msg_q'[i].fd \notin client_fds'
                    /\ worker_pc'[msg_q'[i].fd] = "done"
  BY DEF DisconnectedGone, Gone
<1>0. msg_q \in Seq(Message)
  BY DEF TypeInv, TypeOK
<1>1. ASSUME NEW j \in 1 .. Len(msg_q), msg_q'[i] = msg_q[j]
      PROVE  msg_q'[i].fd \notin client_fds' /\ worker_pc'[msg_q'[i].fd] = "done"
  <2>1. msg_q[j].fd \in Conns
    <3>1. msg_q[j] \in Message
      BY <1>0
    <3> QED
      BY <1>1, <3>1 DEF Message
  <2>2. Gone(msg_q[j].fd)
    BY <1>1 DEF DisconnectedGone
  <2>3. msg_q[j].fd \notin client_fds' /\ worker_pc'[msg_q[j].fd] = "done"
    <3> DEFINE f == msg_q[j].fd
    <3>1. f \in Conns /\ Gone(f)
      BY <2>1, <2>2
    <3> HIDE DEF f
    <3>2. f \notin client_fds' /\ worker_pc'[f] = "done"
      BY <3>1, GoneStays DEF Gone
    <3> QED
      BY <3>2 DEF f
  <2> QED
    BY <1>1, <2>3
<1>2. CASE msg_q' = msg_q
  BY <1>1, <1>2
<1>3. CASE msg_q # <<>> /\ msg_q' = Tail(msg_q)
  <2>1. i + 1 \in 1 .. Len(msg_q) /\ msg_q'[i] = msg_q[i + 1]
    BY <1>0, <1>3
  <2> QED
    BY <1>1, <2>1
<1>4. ASSUME NEW m, m.type # "disconnect", msg_q' = Append(msg_q, m)
      PROVE  msg_q'[i].fd \notin client_fds' /\ worker_pc'[msg_q'[i].fd] = "done"
  <2>1. i \in 1 .. Len(msg_q) /\ msg_q'[i] = msg_q[i]
    BY <1>0, <1>4
  <2> QED
    BY <1>1, <2>1
<1>5. ASSUME NEW f \in Conns, QueueDisconnect(f)
      PROVE  msg_q'[i].fd \notin client_fds' /\ worker_pc'[msg_q'[i].fd] = "done"
  <2>1. CASE i \in 1 .. Len(msg_q)
    BY <1>0, <1>1, <1>5, <2>1 DEF QueueDisconnect, Enqueue
  <2>2. CASE i = Len(msg_q) + 1
    <3>1. msg_q'[i].fd = f
      BY <1>0, <1>5, <2>2 DEF QueueDisconnect, Enqueue
    <3>2. f \notin client_fds' /\ worker_pc'[f] = "done"
      BY <1>5 DEF QueueDisconnect, LifeOK, TypeInv, TypeOK, Workers
    <3> QED
      BY <3>1, <3>2
  <2>3. i \in 1 .. Len(msg_q) \/ i = Len(msg_q) + 1
    BY <1>0, <1>5 DEF QueueDisconnect, Enqueue
  <2> QED
    BY <2>1, <2>2, <2>3
<1> QED
  BY <1>2, <1>3, <1>4, <1>5, QueueSteps

(* Before a connection's disconnect is in the queue, every send to it is   *)
(* over, and none follows as long as it waits there: its receiving thread  *)
(* can only erase the descriptor when no send is going on, nobody puts it  *)
(* back, and whoever sends finds it in m_client_fds.                       *)
THEOREM DisconnectsFollowSends == SendSpec => []DisconnectEndsSends
<1> DEFINE Inv == SentWhileRegistered /\ LifeOK /\ DisconnectedGone
<1>1. SendInit => Inv
  BY InitLife DEF SendInit, Init, SentWhileRegistered, Locked, DisconnectedGone
<1>2. TypeInv /\ SendTypeOK /\ Inv /\ [SendNext]_all_vars => Inv'
  <2>1. DisconnectedGone /\ LateReset => DisconnectedGone'
    BY DEF DisconnectedGone, Gone, LateReset, stream_vars, thread_vars
  <2> QED
    BY <2>1, NextRegistered, StreamSteps, NextLife, ResetLife, NextDisconnectedGone
<1>3. TypeInv /\ SendTypeOK /\ Inv => DisconnectEndsSends
  <2> SUFFICES ASSUME TypeInv, SendTypeOK, Inv,
                      NEW i \in 1 .. Len(msg_q), msg_q[i].type = "disconnect"
               PROVE  msg_q[i].fd \notin to_send \cup {writing}
    BY DEF DisconnectEndsSends
  <2>1. msg_q[i] \in Message
    BY DEF TypeInv, TypeOK
  <2>2. msg_q[i].fd \in Conns /\ msg_q[i].fd # "none"
    BY <2>1, ActorsAssumption DEF Message
  <2>3. msg_q[i].fd \notin client_fds
    BY DEF DisconnectedGone, Gone
  <2> QED
    BY <2>2, <2>3 DEF SentWhileRegistered, SendTypeOK
<1> HIDE DEF Inv
<1> QED
  BY <1>1, <1>2, <1>3, SendTypeInvariance, PTL DEF SendSpec
=============================================================================
