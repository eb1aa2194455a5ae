---------------------------- MODULE ServerStream ----------------------------
(***************************************************************************)
(* tmsocket::server_stream: the thread that called listen() and now runs   *)
(* pick_msg(), the accept_clients thread, one receive_from_client thread   *)
(* per connection, and whoever calls end_communication().                  *)
(*                                                                         *)
(* The detached threads ("workers") are kept off a stream that has ended   *)
(* by one binary semaphore each: a worker gives its semaphore back before  *)
(* a blocking system call and takes it again afterwards; ending the        *)
(* communication takes every semaphore for good.                           *)
(*                                                                         *)
(* A connection and its file descriptor are one thing here, because        *)
(* nothing in server_stream.cpp closes a client descriptor: the kernel     *)
(* never hands the same number out twice.                                  *)
(***************************************************************************)
EXTENDS Naturals, Sequences, FiniteSets

CONSTANTS
  Conns,            (* the connections clients may open                       *)
  Acceptor,         (* the accept_clients thread                              *)
  Owner,            (* the thread that calls listen() and then destroys       *)
  Others,           (* other threads that call end_communication()            *)
  EarlyStop,        (* may Others call it before listen() begins to pick?     *)
  ThreadKeepsArgs,  (* does a std::thread keep its copy of sem_ptr while it   *)
                    (* runs, so that the weak_ptr it was given never expires? *)
  MaxChunks,        (* bound: chunks of data one peer sends                   *)
  MaxFaults         (* bound: resets, failed accepts and failed allocations   *)

ASSUME ActorsAssumption ==
  /\ Acceptor \notin Conns
  /\ Owner \notin Others
  /\ "none" \notin Conns /\ "error" \notin Conns
ASSUME SwitchesAssumption ==
  /\ EarlyStop \in BOOLEAN
  /\ ThreadKeepsArgs \in BOOLEAN
ASSUME BoundsAssumption ==
  /\ MaxChunks \in Nat
  /\ MaxFaults \in Nat

Workers == Conns \cup {Acceptor}
Closers == Others \cup {Owner}

VARIABLES
  is_finished, is_connected, (* the atomic flags of socket_stream             *)
  begin_pick_msg,            (* m_begin_pick_msg                              *)
  finish_pick,               (* m_finish_pick                                 *)
  msg_q,                     (* m_msg_q                                       *)
  client_fds,                (* m_client_fds                                  *)
  sem_owned,                 (* the stream's shared_ptr to a worker's         *)
                             (* semaphore is set                              *)
  sem_free,                  (* the count of that semaphore is 1              *)
  closed,                    (* m_fd was closed and reset by the end          *)
  destroyed,                 (* the destructor has returned                   *)
  owner_pc,                  (* where Owner is in listen() and pick_msg()     *)
  worker_pc,                 (* where each worker is                          *)
  ret,                       (* what a worker's last system call returned     *)
  closer_pc,                 (* where each thread is in end_communication()   *)
  peer,                      (* external: the other end of each connection    *)
  sent,                      (* external: chunks each peer has written        *)
  queued,                    (* chunks of it that were put into m_msg_q       *)
  faults                     (* faults so far                                 *)

flag_vars   == <<is_finished, is_connected, begin_pick_msg, finish_pick,
                 closed, destroyed>>
stream_vars == <<flag_vars, msg_q, client_fds>>
sem_vars    == <<sem_owned, sem_free>>
thread_vars == <<owner_pc, worker_pc, ret, closer_pc>>
kernel_vars == <<peer, sent, queued, faults>>
vars == <<stream_vars, sem_vars, thread_vars, kernel_vars>>

-----------------------------------------------------------------------------
(* Messages of m_msg_q; fd is the connection, n numbers its chunks.        *)

Message ==
       [type : {"finish", "error", "critical_error"}]
  \cup [type : {"disconnect"}, fd : Conns]
  \cup [type : {"msg"}, fd : Conns, n : 1 .. MaxChunks]

OwnerStates  == {"idle", "checked", "bound", "ready", "sem_made", "begin", "pick",
                 "handler", "returned", "threw"}
WorkerStates == {"unborn", "lock", "acquire", "loop", "args", "syscall",
                 "body", "hung_up", "report", "done"}
CloserStates == {"out", "emplace", "picking", "wait", "connected",
                 "accept_sem", "visit", "returned", "crashed"}
PeerStates   == {"absent", "backlog", "up", "fin", "rst"}
Returns      == {"none", "data", "eof", "error"} \cup Conns

TypeOK ==
  /\ is_finished \in BOOLEAN /\ is_connected \in BOOLEAN
  /\ begin_pick_msg \in BOOLEAN /\ finish_pick \in BOOLEAN
  /\ msg_q \in Seq(Message)
  /\ client_fds \in SUBSET Conns
  /\ sem_owned \in [Workers -> BOOLEAN]
  /\ sem_free \in [Workers -> BOOLEAN]
  /\ closed \in BOOLEAN /\ destroyed \in BOOLEAN
  /\ owner_pc \in OwnerStates
  /\ worker_pc \in [Workers -> WorkerStates]
  /\ ret \in [Workers -> Returns]
  /\ closer_pc \in [Closers -> CloserStates]
  /\ peer \in [Conns -> PeerStates]
  /\ sent \in [Conns -> 0 .. MaxChunks] /\ queued \in [Conns -> 0 .. MaxChunks]
  /\ faults \in 0 .. MaxFaults

Init ==
  /\ is_finished = FALSE /\ is_connected = FALSE
  /\ begin_pick_msg = FALSE /\ finish_pick = FALSE
  /\ msg_q = <<>>
  /\ client_fds = {}
  /\ sem_owned = [w \in Workers |-> FALSE]
  /\ sem_free = [w \in Workers |-> FALSE]
  /\ closed = FALSE /\ destroyed = FALSE
  /\ owner_pc = "idle"
  /\ worker_pc = [w \in Workers |-> "unborn"]
  /\ ret = [w \in Workers |-> "none"]
  /\ closer_pc = [c \in Closers |-> "out"]
  /\ peer = [f \in Conns |-> "absent"]
  /\ sent = [f \in Conns |-> 0] /\ queued = [f \in Conns |-> 0]
  /\ faults = 0

-----------------------------------------------------------------------------
(* The peers and the kernel.  A peer connects, writes, and closes; a reset *)
(* costs it what it wrote and was not read yet.                            *)

PeerConnects(f) ==
  /\ peer[f] = "absent"
  /\ owner_pc \in {"ready", "sem_made", "begin", "pick", "handler"}
  /\ peer' = [peer EXCEPT ![f] = "backlog"]
  /\ UNCHANGED <<stream_vars, sem_vars, thread_vars, sent, queued, faults>>

PeerSends(f) ==
  /\ peer[f] = "up" /\ sent[f] < MaxChunks
  /\ sent' = [sent EXCEPT ![f] = @ + 1]
  /\ UNCHANGED <<stream_vars, sem_vars, thread_vars, peer, queued, faults>>

PeerCloses(f) ==
  /\ peer[f] = "up"
  /\ peer' = [peer EXCEPT ![f] = "fin"]
  /\ UNCHANGED <<stream_vars, sem_vars, thread_vars, sent, queued, faults>>

PeerResets(f) ==
  /\ peer[f] = "up" /\ faults < MaxFaults
  /\ faults' = faults + 1
  /\ peer' = [peer EXCEPT ![f] = "rst"]
  /\ UNCHANGED <<stream_vars, sem_vars, thread_vars, sent, queued>>

(* A system call of worker w returns r.                                    *)
Returned(w, r) ==
  /\ worker_pc[w] = "syscall"
  /\ ret' = [ret EXCEPT ![w] = r]
  /\ worker_pc' = [worker_pc EXCEPT ![w] = "lock"]
  /\ UNCHANGED <<stream_vars, sem_vars, owner_pc, closer_pc, queued>>

AcceptReturns(f) ==
  /\ peer[f] = "backlog"
  /\ peer' = [peer EXCEPT ![f] = "up"]
  /\ Returned(Acceptor, f)
  /\ UNCHANGED <<sent, faults>>

(* accept() fails, for want of descriptors or on a closed socket.          *)
AcceptFails ==
  /\ closed \/ faults < MaxFaults
  /\ faults' = IF closed THEN faults ELSE faults + 1
  /\ Returned(Acceptor, "error")
  /\ UNCHANGED <<peer, sent>>

RecvReturnsData(f) ==
  /\ peer[f] # "rst" /\ queued[f] < sent[f]
  /\ Returned(f, "data")
  /\ UNCHANGED <<peer, sent, faults>>

RecvReturnsEof(f) ==
  /\ peer[f] = "fin" /\ queued[f] = sent[f]
  /\ Returned(f, "eof")
  /\ UNCHANGED <<peer, sent, faults>>

(* A reset is reported once; what was unread is gone.                      *)
RecvFails(f) ==
  /\ peer[f] = "rst"
  /\ peer' = [peer EXCEPT ![f] = "fin"]
  /\ sent' = [sent EXCEPT ![f] = queued[f]]
  /\ Returned(f, "error")
  /\ UNCHANGED faults

-----------------------------------------------------------------------------
(* The worker threads.                                                     *)

(* Is the semaphore object of w alive, so that weak_ptr::lock() succeeds?  *)
Alive(w) == sem_owned[w] \/ ThreadKeepsArgs

(* try_operate_sem(true): lock() the weak_ptr, then acquire().             *)
LockWeakPtr(w) ==
  /\ worker_pc[w] = "lock"
  /\ worker_pc' = [worker_pc EXCEPT ![w] = IF Alive(w) THEN "acquire" ELSE "done"]
  /\ UNCHANGED <<stream_vars, sem_vars, owner_pc, ret, closer_pc, kernel_vars>>

Acquire(w) ==
  /\ worker_pc[w] = "acquire"
  /\ sem_free[w]
  /\ sem_free' = [sem_free EXCEPT ![w] = FALSE]
  /\ worker_pc' = [worker_pc EXCEPT ![w] = IF ret[w] = "none" THEN "loop" ELSE "body"]
  /\ UNCHANGED <<stream_vars, sem_owned, owner_pc, ret, closer_pc, kernel_vars>>

(* The loop test and the release() behind it.  accept_clients copies m_fd  *)
(* before it releases; receive_from_client goes on to read buf_size().     *)
LoopTest(w) ==
  /\ worker_pc[w] = "loop"
  /\ sem_free' = [sem_free EXCEPT ![w] = TRUE]
  /\ worker_pc' = [worker_pc EXCEPT ![w] =
       IF is_finished THEN "done" ELSE IF w = Acceptor THEN "syscall" ELSE "args"]
  /\ UNCHANGED <<stream_vars, sem_owned, owner_pc, ret, closer_pc, kernel_vars>>

(* The arguments of recv() are evaluated, this->buf_size() among them.     *)
ReadRecvArgs(f) ==
  /\ worker_pc[f] = "args"
  /\ worker_pc' = [worker_pc EXCEPT ![f] = "syscall"]
  /\ UNCHANGED <<stream_vars, sem_vars, owner_pc, ret, closer_pc, kernel_vars>>

(* accept() gave connection f: the descriptor is registered, on_connect    *)
(* runs, and the receiving thread starts with a semaphore of its own.      *)
AcceptClient(f) ==
  /\ worker_pc[Acceptor] = "body" /\ ret[Acceptor] = f
  /\ client_fds' = client_fds \cup {f}
  /\ sem_owned' = [sem_owned EXCEPT ![f] = TRUE]
  /\ sem_free' = [sem_free EXCEPT ![f] = TRUE]
  /\ worker_pc' = [worker_pc EXCEPT ![Acceptor] = "loop", ![f] = "lock"]
  /\ UNCHANGED <<flag_vars, msg_q, owner_pc, ret, closer_pc, kernel_vars>>

Enqueue(m) == msg_q' = Append(msg_q, m)

(* Mutant: a failed recv() ends the loop as an orderly shutdown does.      *)
ReportSyscallErrorBreaks(w) ==
  /\ worker_pc[w] = "body" /\ ret[w] = "error"
  /\ IF is_finished THEN UNCHANGED msg_q ELSE Enqueue([type |-> "error"])
  /\ worker_pc' = [worker_pc EXCEPT ![w] = "done"]
  /\ sem_free' = [sem_free EXCEPT ![w] = TRUE]
  /\ UNCHANGED <<flag_vars, client_fds, sem_owned, owner_pc, ret, closer_pc, kernel_vars>>

ReportSyscallError(w) ==
  /\ worker_pc[w] = "body" /\ ret[w] = "error"
  /\ IF is_finished THEN UNCHANGED msg_q ELSE Enqueue([type |-> "error"])
  /\ worker_pc' = [worker_pc EXCEPT ![w] = "loop"]
  /\ UNCHANGED <<flag_vars, client_fds, sem_vars, owner_pc, ret, closer_pc, kernel_vars>>

(* Mutant: the chunks are numbered from 0.                                 *)
QueueDataFromZero(f) ==
  /\ worker_pc[f] = "body" /\ ret[f] = "data"
  /\ queued' = [queued EXCEPT ![f] = @ + 1]
  /\ Enqueue([type |-> "msg", fd |-> f, n |-> queued[f]])
  /\ worker_pc' = [worker_pc EXCEPT ![f] = "loop"]
  /\ UNCHANGED <<flag_vars, client_fds, sem_vars, owner_pc, ret, closer_pc, peer, sent, faults>>

QueueData(f) ==
  /\ worker_pc[f] = "body" /\ ret[f] = "data"
  /\ queued' = [queued EXCEPT ![f] = @ + 1]
  /\ Enqueue([type |-> "msg", fd |-> f, n |-> queued[f] + 1])
  /\ worker_pc' = [worker_pc EXCEPT ![f] = "loop"]
  /\ UNCHANGED <<flag_vars, client_fds, sem_vars, owner_pc, ret, closer_pc, peer, sent, faults>>

(* Mutant: the descriptor is never taken out of m_client_fds.              *)
HangUpKeepsFd(f) ==
  /\ worker_pc[f] = "body" /\ ret[f] = "eof"
  /\ worker_pc' = [worker_pc EXCEPT ![f] = "hung_up"]
  /\ UNCHANGED <<stream_vars, sem_vars, owner_pc, ret, closer_pc, kernel_vars>>

(* The peer closed: first the descriptor leaves m_client_fds ...           *)
HangUp(f) ==
  /\ worker_pc[f] = "body" /\ ret[f] = "eof"
  /\ client_fds' = client_fds \ {f}
  /\ worker_pc' = [worker_pc EXCEPT ![f] = "hung_up"]
  /\ UNCHANGED <<flag_vars, msg_q, sem_vars, owner_pc, ret, closer_pc, kernel_vars>>

(* ... then the disconnect is queued, and the thread releases and ends.    *)
QueueDisconnect(f) ==
  /\ worker_pc[f] = "hung_up"
  /\ Enqueue([type |-> "disconnect", fd |-> f])
  /\ sem_free' = [sem_free EXCEPT ![f] = TRUE]
  /\ worker_pc' = [worker_pc EXCEPT ![f] = "done"]
  /\ UNCHANGED <<flag_vars, client_fds, sem_owned, owner_pc, ret, closer_pc, kernel_vars>>

(* Something throws while worker w holds its semaphore: the inner handler  *)
(* releases it and rethrows.  accept_clients may by then have registered   *)
(* the descriptor, and pushed the semaphore, of a thread that never starts.*)
WorkerThrows(w) ==
  /\ \/ worker_pc[w] \in {"body", "hung_up"}
     \/ worker_pc[w] = "loop" /\ ret[w] = "none" /\ w # Acceptor   \* its buffer
  /\ faults < MaxFaults /\ faults' = faults + 1
  /\ \E registered, pushed \in (IF w = Acceptor /\ ret[w] \in Conns
                                THEN {{}, {ret[w]}} ELSE {{}}) :
       /\ pushed \subseteq registered
       /\ client_fds' = client_fds \cup registered
       /\ sem_owned' = [v \in Workers |-> sem_owned[v] \/ v \in pushed]
       /\ sem_free' = [v \in Workers |-> sem_free[v] \/ v \in pushed \cup {w}]
  /\ ret' = [ret EXCEPT ![w] = "none"]
  /\ worker_pc' = [worker_pc EXCEPT ![w] = "report"]
  /\ UNCHANGED <<flag_vars, msg_q, owner_pc, closer_pc, peer, sent, queued>>

(* The outer handler tells the picking thread, without the semaphore.      *)
ReportException(w) ==
  /\ worker_pc[w] = "report"
  /\ \/ Enqueue([type |-> "critical_error"])
     \/ w # Acceptor /\ Enqueue([type |-> "error"])
  /\ worker_pc' = [worker_pc EXCEPT ![w] = "done"]
  /\ UNCHANGED <<flag_vars, client_fds, sem_vars, owner_pc, ret, closer_pc, kernel_vars>>

-----------------------------------------------------------------------------
(* Owner: listen(), which ends in pick_msg().                              *)

(* The prologue of connect_impl().                                         *)
ListenChecks ==
  /\ owner_pc = "idle"
  /\ owner_pc' = IF is_finished \/ is_connected THEN "threw" ELSE "checked"
  /\ UNCHANGED <<stream_vars, sem_vars, worker_pc, ret, closer_pc, kernel_vars>>

(* connect_impl() makes and binds the socket, or throws.                   *)
Bind ==
  /\ owner_pc = "checked"
  /\ \E bound \in BOOLEAN :
       /\ is_connected' = (is_connected \/ bound)
       /\ owner_pc' = IF bound THEN "bound" ELSE "threw"
  /\ UNCHANGED <<is_finished, begin_pick_msg, finish_pick, closed, destroyed, msg_q,
                 client_fds, sem_vars, worker_pc, ret, closer_pc, kernel_vars>>

(* ::listen() succeeds, or the socket is closed and listen() throws;       *)
(* m_is_connected stays set.                                               *)
ListenCall ==
  /\ owner_pc = "bound"
  /\ owner_pc' \in {"ready", "threw"}
  /\ UNCHANGED <<stream_vars, sem_vars, worker_pc, ret, closer_pc, kernel_vars>>

(* The user's on_listen throws, or the accepting thread's semaphore is made.*)
MakeAcceptSem ==
  /\ owner_pc = "ready"
  /\ \/ owner_pc' = "threw" /\ UNCHANGED sem_vars
     \/ /\ owner_pc' = "sem_made"
        /\ sem_owned' = [sem_owned EXCEPT ![Acceptor] = TRUE]
        /\ sem_free' = [sem_free EXCEPT ![Acceptor] = TRUE]
  /\ UNCHANGED <<stream_vars, worker_pc, ret, closer_pc, kernel_vars>>

(* The thread starts, or std::thread throws.  If the end has taken the     *)
(* semaphore by then, the thread gets a null pointer and returns at once.  *)
StartAccepting ==
  /\ owner_pc = "sem_made"
  /\ \/ owner_pc' = "threw" /\ UNCHANGED worker_pc
     \/ /\ owner_pc' = "begin"
        /\ worker_pc' = [worker_pc EXCEPT ![Acceptor] =
                           IF sem_owned[Acceptor] THEN "lock" ELSE "done"]
  /\ UNCHANGED <<stream_vars, sem_vars, ret, closer_pc, kernel_vars>>

BeginPick ==
  /\ owner_pc = "begin"
  /\ begin_pick_msg' = TRUE
  /\ owner_pc' = "pick"
  /\ UNCHANGED <<is_finished, is_connected, finish_pick, closed, destroyed, msg_q,
                 client_fds, sem_vars, worker_pc, ret, closer_pc, kernel_vars>>

(* Where a message leaves pick_msg().                                      *)
Dispatch(type) ==
  CASE type = "finish"                 -> "returned"
    [] type = "critical_error"         -> "threw"
    [] type = "error"                  -> "pick"
    [] type \in {"msg", "disconnect"}  -> "handler"

(* Mutant: m_finish_pick is set at the label quit only, not in the catch.  *)
LeavePickNoCatch(pc) ==
  /\ owner_pc' = pc
  /\ finish_pick' = (finish_pick \/ pc = "returned")
  /\ UNCHANGED <<is_finished, is_connected, begin_pick_msg, closed, destroyed,
                 client_fds, sem_vars, worker_pc, ret, closer_pc, kernel_vars>>

(* pick_msg() is left: m_finish_pick is set on the way out.                *)
LeavePick(pc) ==
  /\ owner_pc' = pc
  /\ finish_pick' = (finish_pick \/ pc \in {"returned", "threw"})
  /\ UNCHANGED <<is_finished, is_connected, begin_pick_msg, closed, destroyed,
                 client_fds, sem_vars, worker_pc, ret, closer_pc, kernel_vars>>

PickMsg ==
  /\ owner_pc = "pick" /\ msg_q # <<>>
  /\ msg_q' = Tail(msg_q)
  /\ LeavePick(Dispatch(Head(msg_q).type))

(* The user's on_receive or on_disconnect comes back, or throws.           *)
HandlerEnds ==
  /\ owner_pc = "handler"
  /\ \E pc \in {"pick", "threw"} : LeavePick(pc)
  /\ UNCHANGED msg_q

-----------------------------------------------------------------------------
(* end_communication(), called by the destructor in Owner or by another    *)
(* thread.  The user must not destroy the stream under a thread that is    *)
(* still inside it: Owner waits for them, as client.cpp does with join().  *)

InEnd(c) == closer_pc[c] \notin {"out", "returned", "crashed"}

MayEnd(c) ==
  IF c = Owner THEN /\ owner_pc \in {"returned", "threw"}
                    /\ \A o \in Others : ~InEnd(o)
               ELSE /\ EarlyStop \/ begin_pick_msg
                    /\ closer_pc[Owner] = "out"

CloserGoes(c, from, to) ==
  /\ closer_pc[c] = from
  /\ closer_pc' = [closer_pc EXCEPT ![c] = to]
  /\ UNCHANGED <<owner_pc, ret, worker_pc, kernel_vars>>

(* Mutant: m_is_finished is stored to, not exchanged.                      *)
StoreFinished(c) ==
  /\ MayEnd(c)
  /\ is_finished' = TRUE
  /\ CloserGoes(c, "out", "emplace")
  /\ UNCHANGED <<is_connected, begin_pick_msg, finish_pick, closed, destroyed,
                 msg_q, client_fds, sem_vars>>

ExchangeFinished(c) ==
  /\ MayEnd(c)
  /\ is_finished' = TRUE
  /\ CloserGoes(c, "out", IF is_finished THEN "returned" ELSE "emplace")
  /\ UNCHANGED <<is_connected, begin_pick_msg, finish_pick, closed, destroyed,
                 msg_q, client_fds, sem_vars>>

QueueFinish(c) ==
  /\ CloserGoes(c, "emplace", "picking")
  /\ Enqueue([type |-> "finish"])
  /\ UNCHANGED <<flag_vars, client_fds, sem_vars>>

TestBeginPick(c) ==
  /\ CloserGoes(c, "picking", IF begin_pick_msg THEN "wait" ELSE "connected")
  /\ UNCHANGED <<stream_vars, sem_vars>>

WaitForFinishPick(c) ==
  /\ finish_pick
  /\ CloserGoes(c, "wait", "connected")
  /\ UNCHANGED <<stream_vars, sem_vars>>

(* Mutant: the accepting thread is not waited for.                         *)
TestConnectedSkipsAcceptor(c) ==
  /\ CloserGoes(c, "connected", IF is_connected THEN "visit" ELSE "returned")
  /\ UNCHANGED <<stream_vars, sem_vars>>

TestConnected(c) ==
  /\ CloserGoes(c, "connected", IF is_connected THEN "accept_sem" ELSE "returned")
  /\ UNCHANGED <<stream_vars, sem_vars>>

(* Mutant: the pointer is reset without acquire().                         *)
ResetOnly(w) ==
  /\ sem_owned' = [sem_owned EXCEPT ![w] = FALSE]
  /\ UNCHANGED <<stream_vars, sem_free>>

(* acquire() on a worker's semaphore, then reset() of the pointer to it.   *)
TakeForGood(w) ==
  /\ sem_free[w]
  /\ sem_free' = [sem_free EXCEPT ![w] = FALSE]
  /\ sem_owned' = [sem_owned EXCEPT ![w] = FALSE]
  /\ UNCHANGED stream_vars

TakeAcceptSem(c) ==
  /\ sem_owned[Acceptor]
  /\ TakeForGood(Acceptor)
  /\ CloserGoes(c, "accept_sem", "visit")

(* The pointer is null before MakeAcceptSem: the process goes down.        *)
DerefNullSem(c) ==
  /\ ~sem_owned[Acceptor]
  /\ CloserGoes(c, "accept_sem", "crashed")
  /\ UNCHANGED <<stream_vars, sem_vars>>

TakeClientSem(c, f) ==
  /\ sem_owned[f]
  /\ TakeForGood(f)
  /\ CloserGoes(c, "visit", "visit")

(* Mutant: the visit stops at the first semaphore it has taken.            *)
CloseSocketAfterOne(c) ==
  /\ \E f \in Conns : ~sem_owned[f]
  /\ closed' = TRUE
  /\ CloserGoes(c, "visit", "returned")
  /\ UNCHANGED <<is_finished, is_connected, begin_pick_msg, finish_pick, destroyed,
                 msg_q, client_fds, sem_vars>>

CloseSocket(c) ==
  /\ \A f \in Conns : ~sem_owned[f]
  /\ closed' = TRUE
  /\ CloserGoes(c, "visit", "returned")
  /\ UNCHANGED <<is_finished, is_connected, begin_pick_msg, finish_pick, destroyed,
                 msg_q, client_fds, sem_vars>>

Destroy ==
  /\ closer_pc[Owner] = "returned" /\ ~destroyed
  /\ destroyed' = TRUE
  /\ UNCHANGED <<is_finished, is_connected, begin_pick_msg, finish_pick, closed,
                 msg_q, client_fds, sem_vars, thread_vars, kernel_vars>>

-----------------------------------------------------------------------------
Kernel ==
  \/ AcceptFails
  \/ \E f \in Conns :
       \/ PeerConnects(f) \/ PeerSends(f) \/ PeerCloses(f) \/ PeerResets(f)
       \/ AcceptReturns(f)
       \/ RecvReturnsData(f) \/ RecvReturnsEof(f) \/ RecvFails(f)

WorkerStep(w) ==
  \/ LockWeakPtr(w) \/ Acquire(w) \/ LoopTest(w)
  \/ ReportSyscallError(w) \/ WorkerThrows(w) \/ ReportException(w)
  \/ w = Acceptor /\ \E f \in Conns : AcceptClient(f)
  \/ w \in Conns /\ (ReadRecvArgs(w) \/ QueueData(w) \/ HangUp(w) \/ QueueDisconnect(w))

OwnerStep ==
  \/ ListenChecks \/ Bind \/ ListenCall \/ MakeAcceptSem \/ StartAccepting
  \/ BeginPick \/ PickMsg \/ HandlerEnds \/ Destroy

CloserStep(c) ==
  \/ QueueFinish(c) \/ TestBeginPick(c) \/ WaitForFinishPick(c) \/ TestConnected(c)
  \/ TakeAcceptSem(c) \/ DerefNullSem(c)
  \/ \E f \in Conns : TakeClientSem(c, f)
  \/ CloseSocket(c)

Crashed == \E c \in Closers : closer_pc[c] = "crashed"

Next ==
  /\ ~Crashed
  /\ \/ Kernel
     \/ \E w \in Workers : WorkerStep(w)
     \/ OwnerStep
     \/ \E c \in Closers : ExchangeFinished(c) \/ CloserStep(c)

Spec == Init /\ [][Next]_vars

(* The scheduler runs every thread and the kernel completes a system call  *)
(* that can complete; peers owe nothing, and another thread need never     *)
(* call end_communication().  Handlers return.                             *)
KernelAnswers(f) ==
  \/ AcceptReturns(f)
  \/ RecvReturnsData(f) \/ RecvReturnsEof(f) \/ RecvFails(f)

FairSpec ==
  /\ Spec
  /\ \A f \in Conns : WF_vars(~Crashed /\ KernelAnswers(f))
  /\ \A w \in Workers : WF_vars(~Crashed /\ WorkerStep(w))
  /\ WF_vars(~Crashed /\ OwnerStep)
  /\ WF_vars(~Crashed /\ ExchangeFinished(Owner))
  /\ \A c \in Closers : WF_vars(~Crashed /\ CloserStep(c))

-----------------------------------------------------------------------------
(* Safety.                                                                 *)

(* Where a worker is between taking its semaphore and giving it back.      *)
Holding == {"loop", "body", "hung_up"}

(* A semaphore's one permit is free, or held by the worker, or was taken   *)
(* for good by end_communication(): release() never overflows, and no      *)
(* worker holds a semaphore that the end of the communication has taken.   *)
OnePermit ==
  \A w \in Workers :
    /\ worker_pc[w] \in Holding => ~sem_free[w]
    /\ ~sem_owned[w] => ~sem_free[w] /\ worker_pc[w] \notin Holding

(* Once end_communication() has closed the socket, or the destructor has   *)
(* returned, no thread is in a section that its semaphore guards: what the *)
(* comment in accept_clients() asks of the order of the waits.             *)
QuietAfterEnd ==
  closed \/ destroyed => \A w \in Workers : worker_pc[w] \notin Holding

(* assert(0), "Here shouldn't approach": wherever the code releases, the   *)
(* semaphore object is still there.                                        *)
AssertUnreached ==
  \A w \in Workers : worker_pc[w] \in Holding => Alive(w)

(* If end_communication() goes down on a null semaphore, no worker thread  *)
(* exists that could still be running on the stream.                       *)
CrashLeavesNoWorker ==
  Crashed => \A w \in Workers : worker_pc[w] = "unborn"

(* No thread reads or writes the stream once it is destroyed, whether or   *)
(* not a semaphore guards the place: receive_from_client reads buf_size()  *)
(* behind the release.                                                     *)
NoTouchAfterDestroy ==
  destroyed => \A w \in Workers : worker_pc[w] \notin Holding \cup {"args", "report"}

-----------------------------------------------------------------------------
(* Liveness, under FairSpec.                                               *)

(* "Communication has been closed": a worker that comes back from its      *)
(* system call after the end sees it and returns.                          *)
ClosedWorkersReturn ==
  \A w \in Workers : closed /\ worker_pc[w] = "lock" ~> worker_pc[w] = "done"

-----------------------------------------------------------------------------
(* The stream implements StreamEvents.                                     *)

(* The events of connection f in m_msg_q, in their order, without a        *)
(* recursive filter: the k-th is the message at the place of rank k.       *)
PlacesOf(q, f) ==
  {i \in 1 .. Len(q) : q[i].type \in {"msg", "disconnect"} /\ q[i].fd = f}

Rank(places, i) == Cardinality({j \in places : j <= i})

EventOf(m) == IF m.type = "msg" THEN m.n ELSE 0

EventsIn(q, f) ==
  LET places == PlacesOf(q, f)
  IN  [k \in 1 .. Cardinality(places) |->
         EventOf(q[CHOOSE i \in places : Rank(places, i) = k])]

PhaseOf(f) ==
  CASE f \in client_fds                                -> "open"
    [] f \notin client_fds /\ worker_pc[f] = "unborn"  -> "new"
    [] f \notin client_fds /\ worker_pc[f] = "done"
         /\ ret[f] = "eof"                             -> "over"
    [] OTHER                                           -> "hung_up"

Events == INSTANCE StreamEvents WITH
  phase   <- [f \in Conns |-> PhaseOf(f)],
  arrived <- queued,
  pipe    <- [f \in Conns |-> EventsIn(msg_q, f)],
  stopped <- finish_pick

ImplementsEvents == Events!Spec
=============================================================================
