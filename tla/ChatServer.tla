----------------------------- MODULE ChatServer -----------------------------
(***************************************************************************)
(* tmchat::server: the handlers on_receive() and on_disconnect(), over the *)
(* events of a server_stream (StreamEvents) and the accounts of a          *)
(* local_database (LocalDatabase).                                         *)
(*                                                                         *)
(* The handlers run one at a time, in the thread that picks messages, but  *)
(* the rest of the stream does not wait for them: between two sends of one *)
(* handler a peer may leave and its descriptor may leave m_client_fds.     *)
(*                                                                         *)
(* One event of the stream is one request.  A user's name and password are *)
(* one value of Users: a password is right iff it is the account's own.    *)
(***************************************************************************)
EXTENDS Naturals, Sequences, FiniteSets

CONSTANTS
  Conns,        (* the connections, which are their file descriptors         *)
  Users,        (* a password and a name                                     *)
  IdMax,        (* numeric_limits<id_type>::max()                            *)
  MaxChunks,    (* bound: requests on one connection                         *)
  MaxRequests,  (* bound: requests on all of them                            *)
  Types         (* bound: the types of request that clients send             *)

ASSUME RequestsAssumption ==
  /\ IdMax \in Nat \ {0} /\ MaxChunks \in Nat /\ MaxRequests \in Nat
  /\ Types \subseteq {"register", "login", "chat", "invalid", "cut_register", "bad_login"}

VARIABLES
  phase, arrived, pipe, stopped,  (* of StreamEvents; stopped: pick_msg() is *)
                                  (* left, or the process is gone            *)
  database,                       (* *m_database_ptr                         *)
  fd_to_id,                       (* m_fd_to_id                              *)
  call,                           (* the handler at work                     *)
  request,                        (* external: what each connection asked    *)
  inbox,                          (* external: what each peer was sent       *)
  left                            (* external: the peers that have closed    *)

stream_vars == <<phase, arrived, pipe, stopped>>
handler_vars == <<database, fd_to_id, call>>
peer_vars == <<request, inbox, left>>
vars == <<stream_vars, handler_vars, peer_vars>>

Stream == INSTANCE StreamEvents
DB == INSTANCE LocalDatabase WITH Data <- Users

Ids == 0 .. IdMax - 1

-----------------------------------------------------------------------------
(* A cut_register has no line end behind its password, a bad_login no id   *)
(* that is a number of id_type with a line end somewhere behind it.        *)
Request ==
       [type : {"register"}, user : Users]
  \cup [type : {"login"}, id : Ids, user : Users]
  \cup [type : {"chat", "invalid", "cut_register", "bad_login"}]

(* What the server sends, and for which request of which connection.       *)
Message ==
  [type : {"register_failed", "login_failed", "chat_success", "chat_failed"},
   from : Conns, n : 1 .. MaxChunks]
  \cup [type : {"register_success"}, from : Conns, n : 1 .. MaxChunks, id : Ids]
  \cup [type : {"login_success", "chat"}, from : Conns, n : 1 .. MaxChunks, name : Users]

(* A handler in its try block still has the copies of a chat for rest and  *)
(* then its reply to send; in the catch (...) it sends only fallback.  An  *)
(* exception may have escaped it, it may loop for ever, or the process may *)
(* have been killed in it.                                                 *)
Idle == [stage |-> "idle"]
Call ==
  [stage : {"try", "catch", "escaped", "looping", "killed"}, fd : Conns, n : 1 .. MaxChunks,
   rest : SUBSET Conns, copy : Message, reply : Message, fallback : Message]

TypeOK ==
  /\ Stream!TypeOK
  /\ DB!TypeOK
  /\ fd_to_id \in UNION {[S -> Ids] : S \in SUBSET Conns}
  /\ call \in {Idle} \cup Call
  /\ request \in [Conns -> Seq(Request)]
  /\ inbox \in [Conns -> Seq(Message)]
  /\ left \in SUBSET Conns

Init ==
  /\ Stream!Init
  /\ DB!Init
  /\ fd_to_id = [f \in {} |-> 0]
  /\ call = Idle
  /\ request = [f \in Conns |-> <<>>]
  /\ inbox = [f \in Conns |-> <<>>]
  /\ left = {}

-----------------------------------------------------------------------------
(* The peers, and the threads of the stream.                               *)

Connect(f) ==
  /\ Stream!Connect(f)
  /\ UNCHANGED <<handler_vars, peer_vars>>

Asked == {p \in Conns \X (1 .. MaxChunks) : p[2] <= arrived[p[1]]}

(* A request arrives; it may be the last thing a peer wrote before it left.*)
Ask(f, r) ==
  /\ r.type \in Types /\ Cardinality(Asked) < MaxRequests
  /\ Stream!Arrive(f)
  /\ request' = [request EXCEPT ![f] = Append(@, r)]
  /\ UNCHANGED <<handler_vars, inbox, left>>

Leave(f) ==
  /\ phase[f] = "open" /\ f \notin left
  /\ left' = left \cup {f}
  /\ UNCHANGED <<stream_vars, handler_vars, request, inbox>>

HangUp(f) ==
  /\ f \in left
  /\ Stream!HangUp(f) \/ Stream!QueueEof(f)
  /\ UNCHANGED <<handler_vars, peer_vars>>

-----------------------------------------------------------------------------
(* send_to_one_client(f, m).  It throws client_not_exist if f is not in    *)
(* m_client_fds.  For a peer that has left, send() may still succeed, may  *)
(* fail, and may raise SIGPIPE, whose default is to end the process.       *)

Sends(f, m) ==
  /\ phase[f] = "open"
  /\ inbox' = IF f \in left THEN inbox ELSE [inbox EXCEPT ![f] = Append(@, m)]

SendThrows(f) == (phase[f] # "open" \/ f \in left) /\ UNCHANGED inbox

SendKills(f) == phase[f] = "open" /\ f \in left /\ UNCHANGED inbox

-----------------------------------------------------------------------------
(* on_receive() and on_disconnect().                                       *)

NextEvent(f) == Head(pipe[f])

Begins(f, type) ==
  /\ call = Idle
  /\ pipe[f] # <<>> /\ NextEvent(f) # Stream!Eof
  /\ request[f][NextEvent(f)].type = type
  /\ Stream!Handle(f)

Reply(f, type) == [type |-> type, from |-> f, n |-> NextEvent(f)]

(* The try block of request NextEvent(f): a copy to each of rest, a reply.     *)
Try(f, rest, copy, reply, fallback) ==
  call' = [stage |-> "try", fd |-> f, n |-> NextEvent(f), rest |-> rest, copy |-> copy,
           reply |-> reply, fallback |-> Reply(f, fallback)]

(* Mutant: the exception is swallowed.                                     *)
CatchSilently(f, fallback) == call' = Idle

(* The request is not, or not any more, in its try block.                  *)
Outside(f, stage, fallback) ==
  call' = [stage |-> stage, fd |-> f, n |-> NextEvent(f), rest |-> {},
           copy |-> Reply(f, fallback), reply |-> Reply(f, fallback),
           fallback |-> Reply(f, fallback)]

Catch(f, fallback) == Outside(f, "catch", fallback)

(* f's requests are handled as account id from here on.                    *)
LogIn(f, id) ==
  fd_to_id' = [g \in DOMAIN fd_to_id \cup {f} |-> IF g = f THEN id ELSE fd_to_id[g]]

(* add_data() throws database_full, or the connection is the new account's.*)
Register(f) ==
  /\ Begins(f, "register")
  /\ \/ /\ DB!Full(database)
        /\ Catch(f, "register_failed")
        /\ UNCHANGED <<database, fd_to_id>>
     \/ LET id    == DB!NextId(database)
            reply == [type |-> "register_success", from |-> f, n |-> NextEvent(f), id |-> id]
        IN  /\ DB!AddData(request[f][NextEvent(f)].user)
            /\ LogIn(f, id)
            /\ Try(f, {}, reply, reply, "register_failed")
  /\ UNCHANGED peer_vars

(* getline() meets the end of the text, so that tellg() is -1 and substr() *)
(* throws out_of_range in front of the test that would have made it an     *)
(* invalid_message; no catch of on_receive() takes it.                     *)
CutRegister(f) ==
  /\ Begins(f, "cut_register")
  /\ Outside(f, "escaped", "register_failed")
  /\ UNCHANGED <<database, fd_to_id, peer_vars>>

(* Mutant: the password is not looked at.                                  *)
GrantedByIdOnly(f, id, user) ==
  id \in DOMAIN database /\ f \notin DOMAIN fd_to_id

(* get_data(), correct_passwd(), and no login on this connection yet.      *)
Granted(f, id, user) ==
  id \in DOMAIN database /\ database[id] = user /\ f \notin DOMAIN fd_to_id

Login(f) ==
  /\ Begins(f, "login")
  /\ LET r       == request[f][NextEvent(f)]
         refused == Reply(f, "login_failed")
         reply   == [type |-> "login_success", from |-> f, n |-> NextEvent(f), name |-> r.user]
     IN  IF Granted(f, r.id, r.user)
         THEN LogIn(f, r.id) /\ Try(f, {}, reply, reply, "login_failed")
         ELSE UNCHANGED fd_to_id /\ Try(f, {}, refused, refused, "login_failed")
  /\ UNCHANGED <<database, peer_vars>>

(* sin has failed, or is at its end: get() never returns a line end, and   *)
(* the loop that waits for one does not test sin.                          *)
BadLogin(f) ==
  /\ Begins(f, "bad_login")
  /\ Outside(f, "looping", "login_failed")
  /\ UNCHANGED <<database, fd_to_id, peer_vars>>

(* Mutant: fd_to_id.first != fd is not tested.                             *)
AudienceAndSelf(f) == DOMAIN fd_to_id

(* Who the copies of f's chat go to.                                       *)
Audience(f) == DOMAIN fd_to_id \ {f}

(* Whose name stands on it: itr->second is the sender's account.           *)
Chat(f) ==
  /\ Begins(f, "chat")
  /\ IF f \in DOMAIN fd_to_id
     THEN LET copy == [type |-> "chat", from |-> f, n |-> NextEvent(f),
                       name |-> database[fd_to_id[f]]]
          IN  Try(f, IF fd_to_id[f] \in DOMAIN database THEN Audience(f) ELSE {},
                  copy, Reply(f, "chat_success"), "chat_failed")
     ELSE Catch(f, "chat_failed")
  /\ UNCHANGED <<database, fd_to_id, peer_vars>>

(* The type is no number, no line end follows it, or it is of no request:  *)
(* invalid_message is caught at the bottom of on_receive().                *)
Invalid(f) ==
  /\ Begins(f, "invalid")
  /\ UNCHANGED <<handler_vars, peer_vars>>

(* Mutant: the connection stays in m_fd_to_id.                             *)
ForgetNobody(f) == UNCHANGED fd_to_id

Forget(f) == fd_to_id' = [g \in DOMAIN fd_to_id \ {f} |-> fd_to_id[g]]

Disconnect(f) ==
  /\ call = Idle
  /\ pipe[f] # <<>> /\ NextEvent(f) = Stream!Eof
  /\ Stream!Handle(f)
  /\ Forget(f)
  /\ UNCHANGED <<database, call, peer_vars>>

-----------------------------------------------------------------------------
(* The sends of the handler at work.                                       *)

(* Mutant: an exception on the way to one member goes to no catch (...).   *)
FallBackNever == call' = [call EXCEPT !.stage = "escaped"] /\ UNCHANGED stream_vars

FallBack == call' = [call EXCEPT !.stage = "catch"] /\ UNCHANGED stream_vars

(* SIGPIPE.                                                                *)
Die == call' = [call EXCEPT !.stage = "killed"] /\ Stream!Stop

(* Mutant: the copies stop at the first, and the handler goes on.          *)
SendCopyOnce ==
  /\ call.stage = "try"
  /\ \E g \in call.rest :
       \/ Sends(g, call.copy) /\ call' = [call EXCEPT !.rest = {}] /\ UNCHANGED stream_vars
       \/ SendThrows(g) /\ FallBack
       \/ SendKills(g) /\ Die
  /\ UNCHANGED <<database, fd_to_id, request, left>>

(* The order of m_fd_to_id is that of the descriptors, which the kernel    *)
(* chose: any order.                                                       *)
SendCopy ==
  /\ call.stage = "try"
  /\ \E g \in call.rest :
       \/ Sends(g, call.copy) /\ call' = [call EXCEPT !.rest = @ \ {g}] /\ UNCHANGED stream_vars
       \/ SendThrows(g) /\ FallBack
       \/ SendKills(g) /\ Die
  /\ UNCHANGED <<database, fd_to_id, request, left>>

(* Mutant: after the reply the failure message is sent as well.            *)
SendReplyFallsThrough ==
  /\ call.stage = "try" /\ call.rest = {}
  /\ \/ Sends(call.fd, call.reply) /\ FallBack
     \/ SendThrows(call.fd) /\ FallBack
     \/ SendKills(call.fd) /\ Die
  /\ UNCHANGED <<database, fd_to_id, request, left>>

SendReply ==
  /\ call.stage = "try" /\ call.rest = {}
  /\ \/ Sends(call.fd, call.reply) /\ call' = Idle /\ UNCHANGED stream_vars
     \/ SendThrows(call.fd) /\ FallBack
     \/ SendKills(call.fd) /\ Die
  /\ UNCHANGED <<database, fd_to_id, request, left>>

(* In the catch (...) an exception escapes on_receive().                   *)
SendFallback ==
  /\ call.stage = "catch"
  /\ \/ Sends(call.fd, call.fallback) /\ call' = Idle /\ UNCHANGED stream_vars
     \/ /\ SendThrows(call.fd)
        /\ call' = [call EXCEPT !.stage = "escaped"] /\ UNCHANGED stream_vars
     \/ SendKills(call.fd) /\ Die
  /\ UNCHANGED <<database, fd_to_id, request, left>>

(* ... and leaves pick_msg() and the server's constructor behind it.       *)
Unwind ==
  /\ call # Idle /\ call.stage = "escaped"
  /\ Stream!Stop
  /\ UNCHANGED <<handler_vars, peer_vars>>

-----------------------------------------------------------------------------
Peer(f) == Connect(f) \/ Leave(f) \/ HangUp(f) \/ \E r \in Request : Ask(f, r)

Handler(f) ==
  \/ Register(f) \/ CutRegister(f)
  \/ Login(f) \/ BadLogin(f)
  \/ Chat(f) \/ Invalid(f) \/ Disconnect(f)

Sending == SendCopy \/ SendReply \/ SendFallback \/ Unwind

(* When the server is down it does not matter what its clients do.         *)
Next ==
  /\ ~stopped
  /\ \/ \E f \in Conns : Peer(f) \/ Handler(f)
     \/ Sending

Spec == Init /\ [][Next]_vars

(* The picking thread runs, and as m_msg_q is first-in first-out it passes *)
(* over no connection for ever; the receiving threads notice who left.     *)
FairSpec ==
  /\ Spec
  /\ WF_vars(~stopped /\ Sending)
  /\ \A f \in Conns : SF_vars(~stopped /\ Handler(f)) /\ WF_vars(~stopped /\ HangUp(f))

-----------------------------------------------------------------------------
(* Safety.                                                                 *)

Got(f, type, g, n) ==
  \E i \in 1 .. Len(inbox[f]) :
    inbox[f][i].type = type /\ inbox[f][i].from = g /\ inbox[f][i].n = n

RepliesTo(f, n) ==
  {i \in 1 .. Len(inbox[f]) :
    inbox[f][i].type # "chat" /\ inbox[f][i].from = f /\ inbox[f][i].n = n}

(* The n-th request of f was taken up, and its handler is not at work.     *)
Handled(f, n) ==
  /\ n <= arrived[f]
  /\ \A i \in 1 .. Len(pipe[f]) : pipe[f][i] # n
  /\ call = Idle \/ call.fd # f \/ call.n # n

(* No request is answered twice, whatever threw on the way: the client     *)
(* releases a semaphore of one permit for every answer to a login.         *)
(* A valid request of a client that stays is answered once it is handled.  *)
OneReply ==
  \A f \in Conns : \A n \in 1 .. arrived[f] :
    /\ Cardinality(RepliesTo(f, n)) <= 1
    /\ Handled(f, n) /\ f \notin left /\ request[f][n].type # "invalid"
         => RepliesTo(f, n) # {}

(* When a client is told that its chat was sent, every other member had it *)
(* or is about to be disconnected.                                         *)
SuccessReachesAll ==
  [][\A f \in Conns : \A n \in 1 .. arrived[f] :
       Got(f, "chat_success", f, n)' /\ ~Got(f, "chat_success", f, n) =>
         \A g \in DOMAIN fd_to_id \ {f} : g \in left \/ Got(g, "chat", f, n)]_vars

(* A chat reaches members only, from members only, under the name of the   *)
(* account its sender is logged in to.                                     *)
ChatIsBetweenMembers ==
  [][\A g \in Conns :
       Len(inbox'[g]) > Len(inbox[g]) /\ inbox'[g][Len(inbox'[g])].type = "chat" =>
         LET m == inbox'[g][Len(inbox'[g])]
         IN  /\ {g, m.from} \subseteq DOMAIN fd_to_id /\ g # m.from
             /\ m.name = database[fd_to_id[m.from]]]_vars

(* Whoever is logged in to an account has registered it on this connection *)
(* or has shown its password.                                              *)
MembersAuthenticated ==
  \A f \in DOMAIN fd_to_id : fd_to_id[f] \in DOMAIN database /\
    \E n \in 1 .. arrived[f] :
      LET r == request[f][n]
      IN  /\ r.type \in {"register", "login"}
          /\ r.user = database[fd_to_id[f]]
          /\ r.type = "login" => r.id = fd_to_id[f]

(* A connection of which every event was handled is nobody's: requests     *)
(* that are handled after the hang-up leave no member behind.              *)
GoneAreForgotten ==
  \A f \in Conns : phase[f] = "over" /\ pipe[f] = <<>> => f \notin DOMAIN fd_to_id

(* Whoever was told that it is registered has an account under the id that *)
(* it was told, with the data that it sent: emplace() met no other's there,*)
(* and nothing that was handled since has changed it.                      *)
RegistrationsAreKept ==
  \A f \in Conns : \A i \in 1 .. Len(inbox[f]) :
    LET m == inbox[f][i]
    IN  m.type = "register_success" =>
          /\ m.id \in DOMAIN database
          /\ database[m.id] = request[m.from][m.n].user

(* Two registrations are never told the same id.                           *)
IdsAreDistinct ==
  \A f, g \in Conns : \A i \in 1 .. Len(inbox[f]), j \in 1 .. Len(inbox[g]) :
    LET a == inbox[f][i]
        b == inbox[g][j]
    IN  a.type = "register_success" /\ b.type = "register_success" /\ a.id = b.id
          => f = g /\ i = j

(* An exception ends the server only over a requester that has left, or    *)
(* over a register request without a line end behind its password: that a  *)
(* member is gone in the middle of someone else's chat is survived.        *)
EscapesHaveACause ==
  call # Idle /\ call.stage = "escaped" =>
    call.fd \in left \/ request[call.fd][call.n].type = "cut_register"

(* A member is told that its chat failed only if another member had left.  *)
FailureHasACause ==
  [][\A f \in Conns : \A n \in 1 .. arrived[f] :
       Got(f, "chat_failed", f, n)' /\ ~Got(f, "chat_failed", f, n) =>
         f \notin DOMAIN fd_to_id \/ Audience(f) \cap left # {}]_vars

-----------------------------------------------------------------------------
(* Liveness, under FairSpec.                                               *)

(* The thread that picks messages never comes back from on_receive().      *)
Hung == call # Idle /\ call.stage = "looping"

(* Every request but an invalid one is answered, unless its client leaves, *)
(* the server goes down, or it hangs in somebody's bad_login.              *)
EveryRequestAnswered ==
  \A f \in Conns : \A n \in 1 .. MaxChunks :
    n <= arrived[f] /\ request[f][n].type # "invalid"
      ~> stopped \/ Hung \/ f \in left \/ RepliesTo(f, n) # {}
=============================================================================
