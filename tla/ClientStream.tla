---------------------------- MODULE ClientStream ----------------------------
(***************************************************************************)
(* tmsocket::client_stream: the thread that called connect() and now runs  *)
(* pick_msg(), the receive_from_server thread it starts, and whoever calls *)
(* end_communication(), as the chat client's user interface does from the  *)
(* moment on_connect runs.                                                 *)
(*                                                                         *)
(* The receiver is kept off a stream that has ended as in ServerStream, by *)
(* one binary semaphore; but it is made after on_connect, so that there is *)
(* a time when the communication may end and there is no semaphore yet.    *)
(***************************************************************************)
EXTENDS Naturals, Sequences, FiniteSets

CONSTANTS
  Owner,            (* the thread that calls connect() and then destroys      *)
  Others,           (* other threads that call end_communication()            *)
  EarlyStop,        (* may Others call it before on_connect runs?             *)
  ThreadKeepsArgs,  (* does a std::thread keep its copy of sem_ptr while it   *)
                    (* runs?                                                  *)
  MaxChunks,        (* bound: chunks of data the server sends                 *)
  MaxEofs,          (* bound: recv() calls that return 0; the code has none   *)
  MaxFaults         (* bound: resets, failed connects and allocations         *)

ASSUME ActorsAssumption == Owner \notin Others
ASSUME SwitchesAssumption == EarlyStop \in BOOLEAN /\ ThreadKeepsArgs \in BOOLEAN
ASSUME BoundsAssumption == MaxChunks \in Nat /\ MaxEofs \in Nat /\ MaxFaults \in Nat

Closers == Others \cup {Owner}

VARIABLES
  is_finished, is_connected, (* the atomic flags of socket_stream             *)
  begin_pick_msg,            (* m_begin_pick_msg                              *)
  finish_pick,               (* m_finish_pick                                 *)
  msg_q,                     (* m_msg_q                                       *)
  sem_owned,                 (* m_receive_from_server_sem is set              *)
  sem_free,                  (* the count of that semaphore is 1              *)
  closed,                    (* m_fd was closed and reset by the end          *)
  destroyed,                 (* the destructor has returned                   *)
  owner_pc,                  (* where Owner is in connect() and pick_msg()    *)
  receiver_pc,               (* where the receiver is                         *)
  ret,                       (* what its last recv() returned                 *)
  closer_pc,                 (* where each thread is in end_communication()   *)
  server,                    (* external: the other end of the connection     *)
  sent,                      (* external: chunks the server has written       *)
  queued,                    (* chunks of it that were put into m_msg_q       *)
  handled,                   (* chunks of it that on_receive was called with  *)
  eofs, faults               (* so far                                        *)

flag_vars   == <<is_finished, is_connected, begin_pick_msg, finish_pick,
                 closed, destroyed>>
sem_vars    == <<sem_owned, sem_free>>
thread_vars == <<owner_pc, receiver_pc, ret, closer_pc>>
server_vars == <<server, sent, eofs, faults>>
vars == <<flag_vars, msg_q, sem_vars, thread_vars, server_vars, queued, handled>>

-----------------------------------------------------------------------------
Message ==
       [type : {"finish", "critical_error", "disconnect_unexpectly"}]
  \cup [type : {"msg"}, n : 1 .. MaxChunks]

Left == {"returned", "threw", "disconnected"}   \* where connect() has ended

OwnerStates == Left \cup {"idle", "checked", "on_connect", "make_sem", "start",
                          "begin", "pick", "handler"}
ReceiverStates == {"unborn", "lock", "acquire", "loop", "args", "syscall",
                   "body", "report", "done"}
CloserStates == {"out", "emplace", "picking", "wait", "connected", "sem",
                 "close", "returned", "crashed"}

TypeOK ==
  /\ is_finished \in BOOLEAN /\ is_connected \in BOOLEAN
  /\ begin_pick_msg \in BOOLEAN /\ finish_pick \in BOOLEAN
  /\ msg_q \in Seq(Message)
  /\ sem_owned \in BOOLEAN /\ sem_free \in BOOLEAN
  /\ closed \in BOOLEAN /\ destroyed \in BOOLEAN
  /\ owner_pc \in OwnerStates
  /\ receiver_pc \in ReceiverStates
  /\ ret \in {"none", "data", "eof", "error"}
  /\ closer_pc \in [Closers -> CloserStates]
  /\ server \in {"up", "fin", "rst"}
  /\ sent \in 0 .. MaxChunks /\ queued \in 0 .. MaxChunks /\ handled \in 0 .. MaxChunks
  /\ eofs \in 0 .. MaxEofs /\ faults \in 0 .. MaxFaults

Init ==
  /\ is_finished = FALSE /\ is_connected = FALSE
  /\ begin_pick_msg = FALSE /\ finish_pick = FALSE
  /\ msg_q = <<>>
  /\ sem_owned = FALSE /\ sem_free = FALSE
  /\ closed = FALSE /\ destroyed = FALSE
  /\ owner_pc = "idle" /\ receiver_pc = "unborn" /\ ret = "none"
  /\ closer_pc = [c \in Closers |-> "out"]
  /\ server = "up" /\ sent = 0 /\ queued = 0 /\ handled = 0
  /\ eofs = 0 /\ faults = 0

-----------------------------------------------------------------------------
(* The server and the kernel.                                              *)

(* send_to_server(): what is sent to a server that has closed is answered  *)
(* by a reset.                                                             *)
SendReaches ==
  /\ is_connected /\ ~closed /\ server # "rst"
  /\ server' \in IF server = "fin" THEN {"fin", "rst"} ELSE {server}
  /\ UNCHANGED <<flag_vars, msg_q, sem_vars, thread_vars, sent, eofs, faults,
                 queued, handled>>

SendFails == ~is_connected \/ closed \/ server # "up"

ServerActs ==
  /\ is_connected /\ server = "up"
  /\ \/ sent < MaxChunks /\ sent' = sent + 1 /\ UNCHANGED <<server, faults>>
     \/ server' = "fin" /\ UNCHANGED <<sent, faults>>
     \/ faults < MaxFaults /\ faults' = faults + 1 /\ server' = "rst" /\ UNCHANGED sent
  /\ UNCHANGED <<flag_vars, msg_q, sem_vars, thread_vars, queued, handled, eofs>>

Returned(r) ==
  /\ receiver_pc = "syscall"
  /\ ret' = r
  /\ receiver_pc' = "lock"
  /\ UNCHANGED <<flag_vars, msg_q, sem_vars, owner_pc, closer_pc, queued, handled>>

RecvReturnsData ==
  /\ server # "rst" /\ queued < sent
  /\ Returned("data")
  /\ UNCHANGED server_vars

(* The end of the stream is reported as often as it is asked for.          *)
RecvReturnsEof ==
  /\ server = "fin" /\ queued = sent /\ eofs < MaxEofs
  /\ eofs' = eofs + 1
  /\ Returned("eof")
  /\ UNCHANGED <<server, sent, faults>>

(* A reset is reported once, and costs what was not read; a descriptor     *)
(* that end_communication() has closed fails as well.                      *)
RecvFails ==
  /\ \/ server = "rst" /\ server' = "fin" /\ sent' = queued
     \/ closed /\ UNCHANGED <<server, sent>>
  /\ Returned("error")
  /\ UNCHANGED <<eofs, faults>>

-----------------------------------------------------------------------------
(* The thread of receive_from_server().                                    *)

(* connect() has a copy of sem_ptr until it ends.                          *)
Alive == sem_owned \/ ThreadKeepsArgs \/ owner_pc \notin Left

LockWeakPtr ==
  /\ receiver_pc = "lock"
  /\ receiver_pc' = IF Alive THEN "acquire" ELSE "done"
  /\ UNCHANGED <<flag_vars, msg_q, sem_vars, owner_pc, ret, closer_pc, server_vars,
                 queued, handled>>

Acquire ==
  /\ receiver_pc = "acquire" /\ sem_free
  /\ sem_free' = FALSE
  /\ receiver_pc' = IF ret = "none" THEN "loop" ELSE "body"
  /\ UNCHANGED <<flag_vars, msg_q, sem_owned, owner_pc, ret, closer_pc, server_vars,
                 queued, handled>>

LoopTest ==
  /\ receiver_pc = "loop"
  /\ sem_free' = TRUE
  /\ receiver_pc' = IF is_finished THEN "done" ELSE "args"
  /\ UNCHANGED <<flag_vars, msg_q, sem_owned, owner_pc, ret, closer_pc, server_vars,
                 queued, handled>>

(* this->m_fd and this->buf_size() are read behind the release.            *)
ReadRecvArgs ==
  /\ receiver_pc = "args"
  /\ receiver_pc' = "syscall"
  /\ UNCHANGED <<flag_vars, msg_q, sem_vars, owner_pc, ret, closer_pc, server_vars,
                 queued, handled>>

Enqueue(m) == msg_q' = Append(msg_q, m)

Body(r) ==
  /\ receiver_pc = "body" /\ ret = r
  /\ receiver_pc' = "loop"
  /\ UNCHANGED <<flag_vars, sem_vars, owner_pc, ret, closer_pc, server_vars, handled>>

ReportRecvError ==
  /\ Body("error")
  /\ IF is_finished THEN UNCHANGED msg_q ELSE Enqueue([type |-> "critical_error"])
  /\ UNCHANGED queued

(* Mutant: the end of the stream ends the loop without a word.             *)
DropDisconnect == Body("eof") /\ UNCHANGED <<msg_q, queued>>

(* Mutant: the disconnect is put in front of what waits.                   *)
QueueDisconnectFirst ==
  /\ Body("eof")
  /\ msg_q' = <<[type |-> "disconnect_unexpectly"]>> \o msg_q
  /\ UNCHANGED queued

(* The loop goes on: the next recv() returns 0 again.                      *)
QueueDisconnect ==
  /\ Body("eof")
  /\ Enqueue([type |-> "disconnect_unexpectly"])
  /\ UNCHANGED queued

QueueData ==
  /\ Body("data")
  /\ queued' = queued + 1
  /\ Enqueue([type |-> "msg", n |-> queued + 1])

(* The buffer or a message cannot be allocated: the inner handler releases *)
(* and rethrows, the outer one reports, without the semaphore.             *)
ReceiverThrows ==
  /\ \/ receiver_pc = "body"
     \/ receiver_pc = "loop" /\ ret = "none"     \* its buffer
  /\ faults < MaxFaults /\ faults' = faults + 1
  /\ sem_free' = TRUE
  /\ receiver_pc' = "report"
  /\ UNCHANGED <<flag_vars, msg_q, sem_owned, owner_pc, ret, closer_pc, server, sent, eofs,
                 queued, handled>>

ReportException ==
  /\ receiver_pc = "report"
  /\ Enqueue([type |-> "critical_error"])
  /\ receiver_pc' = "done"
  /\ UNCHANGED <<flag_vars, sem_vars, owner_pc, ret, closer_pc, server_vars, queued, handled>>

-----------------------------------------------------------------------------
(* Owner: connect(), which ends in pick_msg().                             *)

OwnerGoes(from, to) ==
  /\ owner_pc = from
  /\ owner_pc' = to
  /\ UNCHANGED <<is_finished, closed, destroyed, ret, closer_pc, server, sent, eofs, queued>>

(* The prologue of connect_impl(); whoever gets its logic_error may not    *)
(* connect this stream at all.                                             *)
ConnectChecks ==
  /\ OwnerGoes("idle", IF is_finished \/ is_connected THEN "threw" ELSE "checked")
  /\ UNCHANGED <<is_connected, begin_pick_msg, finish_pick, msg_q, sem_vars,
                 receiver_pc, faults, handled>>

Connects ==
  /\ OwnerGoes("checked", "on_connect")
  /\ is_connected' = TRUE
  /\ UNCHANGED <<begin_pick_msg, finish_pick, msg_q, sem_vars, receiver_pc, faults, handled>>

(* connect_impl() throws; the user may try again or destroy the stream.    *)
FailsToConnect ==
  /\ OwnerGoes("checked", "idle")
  /\ faults < MaxFaults /\ faults' = faults + 1
  /\ UNCHANGED <<is_connected, begin_pick_msg, finish_pick, msg_q, sem_vars,
                 receiver_pc, handled>>

(* The user's on_connect comes back, or throws out of connect().           *)
OnConnectEnds ==
  /\ \E to \in {"make_sem", "threw"} : OwnerGoes("on_connect", to)
  /\ UNCHANGED <<is_connected, begin_pick_msg, finish_pick, msg_q, sem_vars,
                 receiver_pc, faults, handled>>

MakeSem ==
  /\ OwnerGoes("make_sem", "start")
  /\ sem_owned' = TRUE /\ sem_free' = TRUE
  /\ UNCHANGED <<is_connected, begin_pick_msg, finish_pick, msg_q, receiver_pc,
                 faults, handled>>

(* Mutant: connect()'s copy of sem_ptr is not the stream's any more.       *)
StartReceiverUnowned ==
  /\ OwnerGoes("start", "begin")
  /\ receiver_pc' = "lock" /\ sem_owned' = FALSE
  /\ UNCHANGED <<is_connected, begin_pick_msg, finish_pick, msg_q, sem_free, faults, handled>>

StartReceiver ==
  /\ OwnerGoes("start", "begin")
  /\ receiver_pc' = "lock"
  /\ UNCHANGED <<is_connected, begin_pick_msg, finish_pick, msg_q, sem_vars, faults, handled>>

(* There is no thread to be had: std::system_error leaves connect().       *)
FailsToStart ==
  /\ OwnerGoes("start", "threw")
  /\ faults < MaxFaults /\ faults' = faults + 1
  /\ UNCHANGED <<is_connected, begin_pick_msg, finish_pick, msg_q, sem_vars,
                 receiver_pc, handled>>

BeginPick ==
  /\ OwnerGoes("begin", "pick")
  /\ begin_pick_msg' = TRUE
  /\ UNCHANGED <<is_connected, finish_pick, msg_q, sem_vars, receiver_pc, faults, handled>>

(* Where a message leaves pick_msg().                                      *)
Dispatch(type) ==
  CASE type = "finish"                -> "returned"
    [] type = "critical_error"        -> "threw"
    [] type = "disconnect_unexpectly" -> "disconnected"
    [] type = "msg"                   -> "handler"

LeavePick(from, to) ==
  /\ OwnerGoes(from, to)
  /\ finish_pick' = (finish_pick \/ to \in Left)
  /\ UNCHANGED <<is_connected, begin_pick_msg, sem_vars, receiver_pc, faults>>

PickMsg ==
  /\ msg_q # <<>>
  /\ msg_q' = Tail(msg_q)
  /\ handled' = IF Head(msg_q).type = "msg" THEN handled + 1 ELSE handled
  /\ LeavePick("pick", Dispatch(Head(msg_q).type))

(* The user's on_receive comes back, or throws.                            *)
HandlerEnds ==
  /\ \E to \in {"pick", "threw"} : LeavePick("handler", to)
  /\ UNCHANGED <<msg_q, handled>>

-----------------------------------------------------------------------------
(* end_communication(), called by the destructor in Owner or by another    *)
(* thread; Owner does not destroy the stream under a thread inside it.     *)

InEnd(c) == closer_pc[c] \notin {"out", "returned", "crashed"}

MayEnd(c) ==
  IF c = Owner THEN /\ owner_pc \in Left \cup {"idle"}
                    /\ \A o \in Others : ~InEnd(o)
               ELSE /\ EarlyStop \/ is_connected
                    /\ closer_pc[Owner] = "out"

CloserGoes(c, from, to) ==
  /\ closer_pc[c] = from
  /\ closer_pc' = [closer_pc EXCEPT ![c] = to]
  /\ UNCHANGED <<is_connected, begin_pick_msg, finish_pick, owner_pc, receiver_pc, ret,
                 server_vars, queued, handled>>

ExchangeFinished(c) ==
  /\ MayEnd(c)
  /\ is_finished' = TRUE
  /\ CloserGoes(c, "out", IF is_finished THEN "returned" ELSE "emplace")
  /\ UNCHANGED <<closed, destroyed, msg_q, sem_vars>>

(* Mutant: pick_msg() is not told.                                         *)
SkipFinish(c) ==
  /\ CloserGoes(c, "emplace", "picking")
  /\ UNCHANGED <<is_finished, closed, destroyed, msg_q, sem_vars>>

QueueFinish(c) ==
  /\ CloserGoes(c, "emplace", "picking")
  /\ Enqueue([type |-> "finish"])
  /\ UNCHANGED <<is_finished, closed, destroyed, sem_vars>>

TestBeginPick(c) ==
  /\ CloserGoes(c, "picking", IF begin_pick_msg THEN "wait" ELSE "connected")
  /\ UNCHANGED <<is_finished, closed, destroyed, msg_q, sem_vars>>

WaitForFinishPick(c) ==
  /\ finish_pick
  /\ CloserGoes(c, "wait", "connected")
  /\ UNCHANGED <<is_finished, closed, destroyed, msg_q, sem_vars>>

TestConnected(c) ==
  /\ CloserGoes(c, "connected", IF is_connected THEN "sem" ELSE "returned")
  /\ UNCHANGED <<is_finished, closed, destroyed, msg_q, sem_vars>>

(* Mutant: the pointer is reset without acquire().                         *)
ResetSem(c) ==
  /\ sem_owned
  /\ sem_owned' = FALSE
  /\ CloserGoes(c, "sem", "close")
  /\ UNCHANGED <<is_finished, closed, destroyed, msg_q, sem_free>>

TakeSem(c) ==
  /\ sem_owned /\ sem_free
  /\ sem_free' = FALSE /\ sem_owned' = FALSE
  /\ CloserGoes(c, "sem", "close")
  /\ UNCHANGED <<is_finished, closed, destroyed, msg_q>>

(* There is no semaphore before MakeSem: the process goes down.            *)
DerefNullSem(c) ==
  /\ ~sem_owned
  /\ CloserGoes(c, "sem", "crashed")
  /\ UNCHANGED <<is_finished, closed, destroyed, msg_q, sem_vars>>

CloseSocket(c) ==
  /\ CloserGoes(c, "close", "returned")
  /\ closed' = TRUE
  /\ UNCHANGED <<is_finished, destroyed, msg_q, sem_vars>>

Destroy ==
  /\ closer_pc[Owner] = "returned" /\ ~destroyed
  /\ destroyed' = TRUE
  /\ UNCHANGED <<is_finished, is_connected, begin_pick_msg, finish_pick, closed, msg_q,
                 sem_vars, thread_vars, server_vars, queued, handled>>

-----------------------------------------------------------------------------
Crashed == \E c \in Closers : closer_pc[c] = "crashed"

Kernel == RecvReturnsData \/ RecvReturnsEof \/ RecvFails

Receiver ==
  \/ LockWeakPtr \/ Acquire \/ LoopTest \/ ReadRecvArgs
  \/ ReportRecvError \/ QueueDisconnect \/ QueueData
  \/ ReceiverThrows \/ ReportException

(* connect() is called, and called again after a failure, as the user      *)
(* likes; nobody connects a stream that is being destroyed.                *)
Connect == closer_pc[Owner] = "out" /\ ConnectChecks

OwnerStep ==
  \/ Connects \/ FailsToConnect \/ OnConnectEnds \/ MakeSem
  \/ StartReceiver \/ FailsToStart \/ BeginPick \/ PickMsg \/ HandlerEnds \/ Destroy

CloserStep(c) ==
  \/ QueueFinish(c) \/ TestBeginPick(c) \/ WaitForFinishPick(c) \/ TestConnected(c)
  \/ TakeSem(c) \/ DerefNullSem(c) \/ CloseSocket(c)

Next ==
  /\ ~Crashed
  /\ \/ ServerActs \/ SendReaches \/ Kernel \/ Receiver \/ Connect \/ OwnerStep
     \/ \E c \in Closers : ExchangeFinished(c) \/ CloserStep(c)

Spec == Init /\ [][Next]_vars

-----------------------------------------------------------------------------
(* Safety.                                                                 *)

Holding == {"loop", "body"}

(* The one permit is free, or the receiver's, or was taken for good by the *)
(* end of the communication.                                               *)
OnePermit ==
  /\ receiver_pc \in Holding => ~sem_free
  /\ ~sem_owned => ~sem_free /\ receiver_pc \notin Holding

(* Once the socket is closed, or the stream destroyed, the receiver is not *)
(* in a section that the semaphore guards, and stays out.                  *)
QuietAfterEnd == closed \/ destroyed => receiver_pc \notin Holding

(* The end that comes between on_connect and the making of the semaphore   *)
(* goes down on a null pointer; by then there is no thread that could be   *)
(* running on the stream.                                                  *)
CrashLeavesNoReceiver == Crashed => receiver_pc = "unborn"

(* connect() throws disconnect_unexpectedly only when on_receive has seen  *)
(* all that the server sent before it closed, but for what a reset threw   *)
(* away.                                                                   *)
DataBeforeDisconnect == owner_pc = "disconnected" => handled = sent

=============================================================================
