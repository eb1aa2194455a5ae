---------------------------- MODULE ServerSending ----------------------------
(***************************************************************************)
(* What ServerStream leaves out: send_to_one_client() and                  *)
(* send_to_all_clients(), which the callbacks call in the thread that      *)
(* picks messages, and m_client_fds_lock, which is held through the whole  *)
(* of a send, while the peer lets it wait.  The accepting thread and the   *)
(* receiving threads need that lock to add and to remove a descriptor.     *)
(***************************************************************************)
EXTENDS ServerStream

CONSTANT Room   (* bound: messages that fit between the server and a peer    *)

ASSUME RoomAssumption == Room \in Nat \ {0}

VARIABLES
  call,      (* which send the callback is in; bound: one per callback       *)
  to_send,   (* the descriptors that it has not come to                      *)
  writing,   (* the connection that ::send() is called for                   *)
  unread,    (* external: messages each peer has not read                    *)
  killed     (* SIGPIPE ended the process                                    *)

send_vars == <<call, to_send, writing, killed>>
all_vars == <<vars, send_vars, unread>>

(* The picking thread holds m_client_fds_lock.                             *)
Locked == call \in {"one", "all"}

SendTypeOK ==
  /\ call \in {"none", "one", "all", "done"}
  /\ to_send \in SUBSET Conns
  /\ writing \in Conns \cup {"none"}
  /\ unread \in [Conns -> 0 .. Room]
  /\ killed \in BOOLEAN
  /\ IF Locked THEN owner_pc = "handler" ELSE to_send = {} /\ writing = "none"

SendInit ==
  /\ Init
  /\ call = "none" /\ to_send = {} /\ writing = "none" /\ killed = FALSE
  /\ unread = [f \in Conns |-> 0]

-----------------------------------------------------------------------------
CallGoes(from, to) ==
  /\ owner_pc = "handler"
  /\ call = from /\ call' = to
  /\ UNCHANGED <<stream_vars, sem_vars, thread_vars, sent, queued, faults, killed>>

(* It throws, and changes nothing, when the communication has finished or  *)
(* the client does not exist.                                              *)
SendToOneClient(f) ==
  /\ ~is_finished /\ f \in client_fds
  /\ CallGoes("none", "one")
  /\ to_send' = {f} /\ UNCHANGED <<peer, writing, unread>>

SendToAllClients ==
  /\ CallGoes("none", "all")
  /\ to_send' = client_fds /\ UNCHANGED <<peer, writing, unread>>

(* send_msg(): the loop tests m_is_finished, and calls ::send().           *)
SendMsg(f) ==
  /\ Locked /\ writing = "none" /\ f \in to_send
  /\ CallGoes(call, call)
  /\ to_send' = to_send \ {f}
  /\ writing' = IF is_finished THEN "none" ELSE f
  /\ UNCHANGED <<peer, unread>>

(* ::send() returns; that the peer has closed it may not know yet, and     *)
(* then it provokes a reset.                                               *)
SendReturns ==
  /\ writing # "none"
  /\ CallGoes(call, call)
  /\ \/ /\ peer[writing] = "up" /\ unread[writing] < Room
        /\ unread' = [unread EXCEPT ![writing] = @ + 1]
        /\ UNCHANGED peer
     \/ /\ peer[writing] = "fin"
        /\ \E p \in {"fin", "rst"} : peer' = [peer EXCEPT ![writing] = p]
        /\ UNCHANGED unread
  /\ writing' = "none" /\ UNCHANGED to_send

(* ::send() fails: send_to_one_client() throws, send_to_all_clients() goes *)
(* on with the next client.                                                *)
SendFails ==
  /\ writing # "none" /\ peer[writing] # "up"
  /\ CallGoes(call, call)
  /\ writing' = "none" /\ UNCHANGED <<peer, unread, to_send>>

(* Nothing ignores SIGPIPE: writing to a reset connection may end it all.  *)
SendKills ==
  /\ writing # "none" /\ peer[writing] # "up"
  /\ killed' = TRUE
  /\ UNCHANGED <<vars, call, to_send, writing, unread>>

(* The lock goes out of scope: on_receive goes on.                         *)
Unlock ==
  /\ Locked /\ to_send = {} /\ writing = "none"
  /\ CallGoes(call, "done")
  /\ UNCHANGED <<peer, to_send, writing, unread>>

(* client_stream's receiving thread reads until its stream ends.           *)
PeerReads(f) ==
  /\ peer[f] = "up" /\ unread[f] > 0
  /\ unread' = [unread EXCEPT ![f] = @ - 1]
  /\ UNCHANGED <<vars, send_vars>>

-----------------------------------------------------------------------------
Sending ==
  \/ SendToAllClients \/ SendReturns \/ SendFails \/ SendKills \/ Unlock
  \/ \E f \in Conns : SendToOneClient(f) \/ SendMsg(f)

(* The accepting thread is about to insert a descriptor: it keeps the lock *)
(* through on_connect and the start of the receiving thread.               *)
Inserts(w) == w = Acceptor /\ worker_pc[w] = "body" /\ ret[w] \in Conns

(* A receiving thread is about to erase its descriptor.                    *)
Erases(w) == w \in Conns /\ worker_pc[w] = "body" /\ ret[w] = "eof"

(* A worker waits for the lock where it needs it, and nowhere else.        *)
LockedWorkerStep(w) ==
  /\ WorkerStep(w)
  /\ Inserts(w) \/ Erases(w) => ~Locked
  /\ UNCHANGED <<send_vars, unread>>

(* Mutant: the callback returns in the middle of a send.                   *)
OwnerRunsAnyway ==
  /\ OwnerStep
  /\ call' = "none" /\ UNCHANGED <<to_send, writing, killed, unread>>

(* The picking thread is in its callback until the send is over.           *)
OwnerRuns ==
  /\ ~Locked
  /\ OwnerStep
  /\ call' = "none" /\ UNCHANGED <<to_send, writing, killed, unread>>

SameSends(A) == A /\ UNCHANGED <<send_vars, unread>>

Down == Crashed \/ killed

SendNext ==
  /\ ~Down
  /\ \/ SameSends(Kernel) \/ OwnerRuns \/ Sending
     \/ \E f \in Conns : PeerReads(f)
     \/ \E w \in Workers : LockedWorkerStep(w)
     \/ \E c \in Closers : SameSends(ExchangeFinished(c)) \/ SameSends(CloserStep(c))

SendSpec == SendInit /\ [][SendNext]_all_vars

(* As in ServerStream's FairSpec; a peer that is up goes on reading.       *)
FairSendSpec ==
  /\ SendSpec
  /\ \A f \in Conns : /\ WF_all_vars(~Down /\ SameSends(KernelAnswers(f)))
                      /\ WF_all_vars(~Down /\ PeerReads(f))
  /\ \A w \in Workers : WF_all_vars(~Down /\ LockedWorkerStep(w))
  /\ WF_all_vars(~Down /\ (OwnerRuns \/ SendReturns \/ SendFails \/ Unlock
                            \/ \E f \in Conns : SendMsg(f)))
  /\ WF_all_vars(~Down /\ SameSends(ExchangeFinished(Owner)))
  /\ \A c \in Closers : WF_all_vars(~Down /\ SameSends(CloserStep(c)))

-----------------------------------------------------------------------------
(* Once the disconnect of a connection is queued, no send to it is going   *)
(* on or still to come: on_disconnect() finds nothing of it left.          *)
DisconnectEndsSends ==
  \A i \in 1 .. Len(msg_q) :
    msg_q[i].type = "disconnect" => msg_q[i].fd \notin to_send \cup {writing}

(* A thread that set m_is_finished comes back from end_communication():    *)
(* through the wait for pick_msg(), which may be in a send that holds      *)
(* m_client_fds_lock, and for the workers, which may hold their semaphores *)
(* while they wait for that lock.  The null semaphore or SIGPIPE may take  *)
(* the process down instead.                                               *)
EndReturns ==
  \A c \in Closers : InEnd(c) ~> closer_pc[c] = "returned" \/ Down

(* What can keep a hang-up from the user: the communication ends, or an    *)
(* exception ended the thread that would have noticed.                     *)
Excused(f) ==
  \/ is_finished \/ finish_pick \/ Down
  \/ ret[f] = "none" /\ worker_pc[f] \in {"report", "done"}

(* Once its peer has closed, a connection's data and its disconnect        *)
(* message are all handed to the callbacks: resets, failed accepts, sends  *)
(* that fail and sends that hold the lock do not stop the receiving thread.*)
HangUpIsSeen ==
  \A f \in Conns :
    peer[f] = "fin" ~> \/ Excused(f)
                       \/ /\ worker_pc[f] = "done" /\ ret[f] = "eof"
                          /\ \A i \in 1 .. Len(msg_q) :
                               msg_q[i].type \in {"msg", "disconnect"} => msg_q[i].fd # f

=============================================================================
