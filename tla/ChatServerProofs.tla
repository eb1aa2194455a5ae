-------------------------- MODULE ChatServerProofs --------------------------
(***************************************************************************)
(* Proofs about ChatServer, for any number of connections, users, accounts *)
(* and requests.                                                           *)
(***************************************************************************)
EXTENDS ChatServer, FiniteSetTheorems, TLAPS

DBProofs == INSTANCE LocalDatabaseProofs WITH Data <- Users

-----------------------------------------------------------------------------
(* The events of the stream, and the requests they stand for.  The pipe of *)
(* a connection ascends, and Eof is the last event of one that is over.    *)

EventsOK ==
  \A f \in Conns :
    /\ Len(request[f]) = arrived[f]
    /\ phase[f] = "new" => pipe[f] = <<>> /\ arrived[f] = 0
    /\ phase[f] \in {"hung_up", "over"} => f \in left
    /\ \A i \in 1 .. Len(pipe[f]) :
         /\ pipe[f][i] = Stream!Eof <=> phase[f] = "over" /\ i = Len(pipe[f])
         /\ pipe[f][i] <= arrived[f]
         /\ \A j \in 1 .. i - 1 : pipe[f][i] # Stream!Eof => pipe[f][j] < pipe[f][i]

StreamInv ==
  /\ Stream!TypeOK
  /\ request \in [Conns -> Seq(Request)]
  /\ left \in SUBSET Conns
  /\ EventsOK

(* What a step may do to the stream.                                       *)
StreamMove ==
  \/ \E f \in Conns : HangUp(f) \/ Leave(f) \/ \E r \in Request : Ask(f, r)
  \/ /\ UNCHANGED <<request, left>>
     /\ \/ \E f \in Conns : Stream!Connect(f) \/ Stream!Handle(f)
        \/ Stream!Stop \/ UNCHANGED stream_vars

LEMMA NextMoves == [Next]_vars => StreamMove
<1> SUFFICES ASSUME [Next]_vars PROVE StreamMove
  OBVIOUS
<1>1. ASSUME NEW f \in Conns, Peer(f) PROVE StreamMove
  BY <1>1 DEF Peer, Connect, peer_vars, StreamMove
<1>2. ASSUME NEW f \in Conns, Handler(f) PROVE StreamMove
  <2>1. Stream!Handle(f) /\ UNCHANGED <<request, left>>
    BY <1>2 DEF Handler, Register, CutRegister, Login, BadLogin, Chat, Invalid, Disconnect,
       Begins, peer_vars
  <2> QED
    BY <2>1 DEF StreamMove
<1>3. CASE Sending
  <2>1. CASE Unwind
    BY <2>1 DEF Unwind, peer_vars, StreamMove
  <2>2. CASE SendCopy \/ SendReply \/ SendFallback
    BY <2>2 DEF SendCopy, SendReply, SendFallback, FallBack, Die, StreamMove
  <2> QED
    BY <1>3, <2>1, <2>2 DEF Sending
<1>4. CASE UNCHANGED vars
  BY <1>4 DEF vars, peer_vars, StreamMove
<1> QED
  BY <1>1, <1>2, <1>3, <1>4 DEF Next

LEMMA MovesKeepStream == StreamInv /\ StreamMove => StreamInv'
<1> SUFFICES ASSUME StreamInv, StreamMove PROVE StreamInv'
  OBVIOUS
<1> USE RequestsAssumption
<1>1. ASSUME NEW f \in Conns, NEW r \in Request, Ask(f, r) PROVE StreamInv'
  <2>1. /\ Stream!Arrive(f)
        /\ request' = [request EXCEPT ![f] = Append(@, r)] /\ left' = left
    BY <1>1 DEF Ask
  <2>2. Stream!TypeOK'
    BY <2>1 DEF StreamInv, Stream!Arrive, Stream!TypeOK, Stream!Phases
  <2>3. EventsOK'
    <3> SUFFICES ASSUME NEW g \in Conns
                 PROVE  /\ Len(request'[g]) = arrived'[g]
                        /\ phase'[g] = "new" => pipe'[g] = <<>> /\ arrived'[g] = 0
                        /\ phase'[g] \in {"hung_up", "over"} => g \in left'
                        /\ \A i \in 1 .. Len(pipe'[g]) :
                             /\ pipe'[g][i] = Stream!Eof <=> phase'[g] = "over" /\ i = Len(pipe'[g])
                             /\ pipe'[g][i] <= arrived'[g]
                             /\ \A j \in 1 .. i - 1 :
                                  pipe'[g][i] # Stream!Eof => pipe'[g][j] < pipe'[g][i]
      BY DEF EventsOK, Stream!Eof
    <3>1. CASE g # f
      BY <2>1, <3>1 DEF StreamInv, Stream!Arrive, Stream!TypeOK, EventsOK
    <3>2. CASE g = f
      <4>1. /\ pipe'[f] = Append(pipe[f], arrived[f] + 1) /\ pipe[f] \in Seq(0 .. MaxChunks)
            /\ arrived'[f] = arrived[f] + 1 /\ arrived[f] \in 0 .. MaxChunks
            /\ phase[f] = "open" /\ phase' = phase
            /\ request'[f] = Append(request[f], r) /\ request[f] \in Seq(Request)
        BY <2>1 DEF StreamInv, Stream!Arrive, Stream!TypeOK
      <4>2. /\ Len(request[f]) = arrived[f]
            /\ \A i \in 1 .. Len(pipe[f]) :
                 /\ pipe[f][i] # Stream!Eof /\ pipe[f][i] <= arrived[f] /\ pipe[f][i] \in Nat
                 /\ \A j \in 1 .. i - 1 : pipe[f][j] < pipe[f][i]
        <5>1. \A i \in 1 .. Len(pipe[f]) : pipe[f][i] \in Nat
          BY <4>1
        <5>2. \A i \in 1 .. Len(pipe[f]) : pipe[f][i] # Stream!Eof
          BY <4>1 DEF StreamInv, EventsOK
        <5>3. /\ Len(request[f]) = arrived[f]
              /\ \A i \in 1 .. Len(pipe[f]) :
                   /\ pipe[f][i] <= arrived[f]
                   /\ \A j \in 1 .. i - 1 : pipe[f][j] < pipe[f][i]
          BY <5>2 DEF StreamInv, EventsOK
        <5> QED
          BY <5>1, <5>2, <5>3
      <4>3. \A i \in 1 .. Len(pipe'[f]) :
              \/ i \in 1 .. Len(pipe[f]) /\ pipe'[f][i] = pipe[f][i]
              \/ i = Len(pipe[f]) + 1 /\ pipe'[f][i] = arrived[f] + 1
        BY <4>1
      <4>4. ASSUME NEW i \in 1 .. Len(pipe'[f])
            PROVE  /\ pipe'[f][i] # Stream!Eof /\ pipe'[f][i] <= arrived'[f]
                   /\ \A j \in 1 .. i - 1 : pipe'[f][j] < pipe'[f][i]
        <5>1. CASE i \in 1 .. Len(pipe[f])
          BY <4>1, <4>2, <4>3, <5>1
        <5>2. CASE i = Len(pipe[f]) + 1
          <6>1. arrived[f] + 1 # Stream!Eof /\ arrived[f] + 1 <= arrived'[f]
            BY <4>1 DEF Stream!Eof
          <6>2. pipe'[f][i] = arrived[f] + 1
            BY <4>1, <5>2
          <6>3. \A j \in 1 .. i - 1 : pipe'[f][j] = pipe[f][j] /\ j \in 1 .. Len(pipe[f])
            BY <4>1, <5>2
          <6>4. \A j \in 1 .. i - 1 : pipe[f][j] \in Nat /\ pipe[f][j] <= arrived[f]
            BY <4>2, <6>3
          <6>5. \A j \in 1 .. i - 1 : pipe[f][j] < arrived[f] + 1
            <7>1. arrived[f] \in Nat
              BY <4>1
            <7>2. \A k, a \in Nat : k <= a => k < a + 1
              OBVIOUS
            <7> QED
              BY <6>4, <7>1, <7>2
          <6>6. \A j \in 1 .. i - 1 : pipe'[f][j] < pipe'[f][i]
            BY <6>2, <6>3, <6>5
          <6>7. pipe'[f][i] # Stream!Eof /\ pipe'[f][i] <= arrived'[f]
            BY <6>1, <6>2
          <6> QED
            BY <6>6, <6>7
        <5> QED
          BY <4>3, <5>1, <5>2
      <4>5. phase'[f] = "open" /\ Len(request'[f]) = arrived'[f]
        BY <4>1, <4>2
      <4> QED
        BY <3>2, <4>4, <4>5
    <3> QED
      BY <3>1, <3>2
  <2> QED
    BY <2>1, <2>2, <2>3 DEF StreamInv
<1>2. ASSUME NEW f \in Conns, HangUp(f) PROVE StreamInv'
  <2>1. f \in left /\ UNCHANGED <<request, left>>
    BY <1>2 DEF HangUp, peer_vars
  <2>2. CASE Stream!HangUp(f)
    BY <2>1, <2>2 DEF StreamInv, Stream!HangUp, Stream!TypeOK, Stream!Phases, EventsOK
  <2>3. CASE Stream!QueueEof(f)
    <3>1. Stream!TypeOK'
      BY <2>3 DEF StreamInv, Stream!QueueEof, Stream!TypeOK, Stream!Phases, Stream!Eof
    <3>2. EventsOK'
      BY <2>1, <2>3 DEF StreamInv, Stream!QueueEof, Stream!TypeOK, Stream!Eof, EventsOK
    <3> QED
      BY <2>1, <3>1, <3>2 DEF StreamInv
  <2> QED
    BY <1>2, <2>2, <2>3 DEF HangUp
<1>3. ASSUME NEW f \in Conns, Leave(f) PROVE StreamInv'
  BY <1>3 DEF Leave, StreamInv, stream_vars, Stream!TypeOK, EventsOK
<1>4. ASSUME NEW f \in Conns, Stream!Connect(f), UNCHANGED <<request, left>> PROVE StreamInv'
  BY <1>4 DEF StreamInv, Stream!Connect, Stream!TypeOK, Stream!Phases, EventsOK
<1>5. ASSUME NEW f \in Conns, Stream!Handle(f), UNCHANGED <<request, left>> PROVE StreamInv'
  <2>1. Stream!TypeOK'
    BY <1>5 DEF StreamInv, Stream!Handle, Stream!TypeOK, Stream!Phases
  <2>2. EventsOK'
    BY <1>5 DEF StreamInv, Stream!Handle, Stream!TypeOK, EventsOK, Stream!Eof
  <2> QED
    BY <1>5, <2>1, <2>2 DEF StreamInv
<1>6. CASE UNCHANGED <<request, left>> /\ (Stream!Stop \/ UNCHANGED stream_vars)
  <2>1. UNCHANGED <<request, left, phase, arrived, pipe>>
    BY <1>6 DEF Stream!Stop, stream_vars
  <2>2. Stream!TypeOK'
    BY <1>6, <2>1 DEF StreamInv, Stream!Stop, stream_vars, Stream!TypeOK
  <2>3. EventsOK'
    BY <2>1 DEF StreamInv, EventsOK
  <2> QED
    BY <2>1, <2>2, <2>3 DEF StreamInv
<1> QED
  BY <1>1, <1>2, <1>3, <1>4, <1>5, <1>6 DEF StreamMove

LEMMA StreamInit == Init => StreamInv
<1> SUFFICES ASSUME Init PROVE StreamInv
  OBVIOUS
<1>1. Stream!Init /\ request = [f \in Conns |-> <<>>] /\ left = {}
  BY DEF Init
<1>2. Stream!TypeOK
  <2>1. 0 \in 0 .. MaxChunks /\ <<>> \in Seq(0 .. MaxChunks)
    BY RequestsAssumption
  <2>2. phase \in [Conns -> Stream!Phases] /\ stopped \in BOOLEAN
    BY <1>1 DEF Stream!Init, Stream!Phases
  <2>3. arrived \in [Conns -> 0 .. MaxChunks] /\ pipe \in [Conns -> Seq(0 .. MaxChunks)]
    BY <1>1, <2>1 DEF Stream!Init
  <2> QED
    BY <2>2, <2>3 DEF Stream!TypeOK
<1>3. EventsOK
  BY <1>1 DEF Stream!Init, EventsOK
<1> QED
  BY <1>1, <1>2, <1>3 DEF StreamInv

-----------------------------------------------------------------------------
(* Type correctness.  That the name on a copy is a user's rests on members *)
(* being logged in to accounts that exist, so MembersAuthenticated is part *)
(* of the inductive invariant.                                             *)

TypeInv ==
  /\ StreamInv
  /\ DB!TypeOK
  /\ fd_to_id \in UNION {[S -> Ids] : S \in SUBSET Conns}
  /\ call \in {Idle} \cup Call
  /\ inbox \in [Conns -> Seq(Message)]
  /\ MembersAuthenticated

(* add_data() on a database that is not full makes one account more.       *)
LEMMA NewAccount ==
  ASSUME DB!TypeOK, NEW u \in Users, DB!AddData(u)
  PROVE  /\ DB!NextId(database) \in Ids \ DOMAIN database
         /\ DB!TypeOK'
         /\ DOMAIN database' = DOMAIN database \cup {DB!NextId(database)}
         /\ database'[DB!NextId(database)] = u
         /\ \A id \in DOMAIN database : database'[id] = database[id]
<1> DEFINE id == DB!NextId(database)
<1>1. DOMAIN database \in SUBSET DBProofs!Ids
  BY DEF DB!TypeOK, DB!Ids, DBProofs!Ids
<1>2. /\ DBProofs!size(database) \in Nat /\ DBProofs!NextId(database) \in Nat
      /\ DBProofs!NextId(database) <= DBProofs!size(database)
      /\ DBProofs!size(database) <= IdMax
      /\ DBProofs!NextId(database) \notin DOMAIN database
  BY <1>1, DBProofs!NextIdAtGap, RequestsAssumption
     DEF DBProofs!NextIdAtGap, DBProofs!IdMaxAssumption
<1>3. DB!size(database) = DBProofs!size(database)
  BY DEF DB!size, DBProofs!size, DB!Cardinality, DBProofs!Cardinality, Cardinality
<1>4. id = DBProofs!NextId(database)
  BY <1>3 DEF DB!NextId, DBProofs!NextId, DB!Breaks, DBProofs!Breaks, DB!FirstBreak,
     DBProofs!FirstBreak, DB!CountAt, DBProofs!CountAt,
     DB!Cardinality, DBProofs!Cardinality, Cardinality
<1>5. DB!size(database) # IdMax
  BY DEF DB!AddData, DB!Full
<1>6. id \in Ids \ DOMAIN database
  BY <1>2, <1>3, <1>4, <1>5, RequestsAssumption DEF Ids
<1>7. database' = [i \in DOMAIN database \cup {id} |->
                     IF i \in DOMAIN database THEN database[i] ELSE u]
  BY DEF DB!AddData
<1> HIDE DEF id
<1>8. DB!TypeOK'
  BY <1>6, <1>7 DEF DB!TypeOK, DB!Ids, Ids
<1> QED
  BY <1>6, <1>7, <1>8 DEF id

(* The event that a handler takes up is a request that has arrived.        *)
LEMMA NextRequest ==
  ASSUME StreamInv, NEW f \in Conns, pipe[f] # <<>>, NextEvent(f) # Stream!Eof
  PROVE  /\ NextEvent(f) \in 1 .. arrived[f] /\ NextEvent(f) \in 1 .. MaxChunks
         /\ request[f][NextEvent(f)] \in Request
<1> USE RequestsAssumption
<1>1. 1 \in 1 .. Len(pipe[f]) /\ pipe[f][1] \in 0 .. MaxChunks /\ arrived[f] \in 0 .. MaxChunks
  BY DEF StreamInv, Stream!TypeOK
<1>2. NextEvent(f) = pipe[f][1]
  BY DEF StreamInv, Stream!TypeOK, NextEvent
<1>3. NextEvent(f) \in 1 .. arrived[f] /\ Len(request[f]) = arrived[f]
  BY <1>1, <1>2 DEF StreamInv, EventsOK, Stream!Eof
<1> QED
  BY <1>1, <1>3 DEF StreamInv

(* What is sent is a message.                                              *)
LEMMA RepliesAreMessages ==
  ASSUME NEW f \in Conns, NEW n \in 1 .. MaxChunks
  PROVE  /\ \A type \in {"register_failed", "login_failed", "chat_success", "chat_failed"} :
              [type |-> type, from |-> f, n |-> n] \in Message
         /\ \A id \in Ids : [type |-> "register_success", from |-> f, n |-> n, id |-> id] \in Message
         /\ \A name \in Users, type \in {"login_success", "chat"} :
              [type |-> type, from |-> f, n |-> n, name |-> name] \in Message
  BY DEF Message

(* A request that has arrived stays what it is.                            *)
LEMMA RequestsStay ==
  ASSUME StreamInv, StreamMove, NEW f \in Conns
  PROVE  /\ arrived[f] \in Nat /\ arrived'[f] \in Nat /\ arrived[f] <= arrived'[f]
         /\ \A n \in 1 .. arrived[f] : request'[f][n] = request[f][n]
<1> USE RequestsAssumption
<1>1. arrived[f] \in 0 .. MaxChunks /\ Len(request[f]) = arrived[f] /\ request[f] \in Seq(Request)
  BY DEF StreamInv, Stream!TypeOK, EventsOK
<1>2. ASSUME NEW g \in Conns, NEW r \in Request, Ask(g, r)
      PROVE  /\ arrived'[f] = arrived[f] \/ arrived'[f] = arrived[f] + 1
             /\ request'[f] = request[f] \/ request'[f] = Append(request[f], r)
  BY <1>1, <1>2 DEF Ask, Stream!Arrive, StreamInv, Stream!TypeOK
<1>3. CASE UNCHANGED <<arrived, request>>
  BY <1>1, <1>3
<1>4. (\E g \in Conns, r \in Request : Ask(g, r)) \/ UNCHANGED <<arrived, request>>
  BY DEF StreamMove, HangUp, Leave, Stream!HangUp, Stream!QueueEof, Stream!Connect,
     Stream!Handle, Stream!Stop, stream_vars, peer_vars
<1> QED
  BY <1>1, <1>2, <1>3, <1>4

(* f is logged in to an account that it has registered or shown to know.   *)
Authentic(f) ==
  fd_to_id[f] \in DOMAIN database /\
    \E n \in 1 .. arrived[f] :
      LET r == request[f][n]
      IN  /\ r.type \in {"register", "login"}
          /\ r.user = database[fd_to_id[f]]
          /\ r.type = "login" => r.id = fd_to_id[f]

(* It remains so while its account remains.                                *)
LEMMA MemberStays ==
  ASSUME StreamInv, StreamMove, NEW f \in Conns, Authentic(f), fd_to_id'[f] = fd_to_id[f],
         fd_to_id[f] \in DOMAIN database', database'[fd_to_id[f]] = database[fd_to_id[f]]
  PROVE  Authentic(f)'
  BY RequestsStay DEF Authentic

LEMMA MembersAre == MembersAuthenticated <=> \A f \in DOMAIN fd_to_id : Authentic(f)
  BY DEF MembersAuthenticated, Authentic

(* LogIn() makes f a member, and no one else another one.                  *)
LEMMA NewMember ==
  ASSUME TypeInv, StreamMove, NEW f \in Conns, NEW id \in Ids, LogIn(f, id),
         Authentic(f)', \A j \in DOMAIN database : j \in DOMAIN database' /\ database'[j] = database[j]
  PROVE  /\ fd_to_id' \in UNION {[S -> Ids] : S \in SUBSET Conns}
         /\ MembersAuthenticated'
<1>1. DOMAIN fd_to_id \in SUBSET Conns /\ fd_to_id \in [DOMAIN fd_to_id -> Ids]
  BY DEF TypeInv
<1>2. /\ DOMAIN fd_to_id' = DOMAIN fd_to_id \cup {f}
      /\ \A g \in DOMAIN fd_to_id' : fd_to_id'[g] = IF g = f THEN id ELSE fd_to_id[g]
  BY DEF LogIn
<1>3. fd_to_id' \in [DOMAIN fd_to_id \cup {f} -> Ids]
  BY <1>1 DEF LogIn
<1>4. ASSUME NEW g \in DOMAIN fd_to_id', g # f PROVE Authentic(g)'
  <2>1. g \in Conns /\ Authentic(g) /\ fd_to_id'[g] = fd_to_id[g]
    BY <1>1, <1>2, <1>4, MembersAre DEF TypeInv
  <2> QED
    BY <2>1, MemberStays DEF TypeInv, Authentic
<1>5. MembersAuthenticated'
  BY <1>4 DEF MembersAuthenticated, Authentic
<1>6. DOMAIN fd_to_id \cup {f} \in SUBSET Conns
  BY <1>1
<1> QED
  BY <1>3, <1>5, <1>6

(* What is called for is messages.                                         *)
LEMMA CallTyped ==
  ASSUME NEW f \in Conns, NEW n \in 1 .. MaxChunks, NEW rest \in SUBSET Conns,
         NEW copy \in Message, NEW reply \in Message, NEW fallback \in Message,
         NEW stage \in {"try", "catch", "escaped", "looping"}
  PROVE  [stage |-> stage, fd |-> f, n |-> n, rest |-> rest, copy |-> copy,
          reply |-> reply, fallback |-> fallback] \in {Idle} \cup Call
  BY DEF Call

(* The steps that leave the handler as it is.                              *)
LEMMA EnvTypeInv ==
  TypeInv /\ StreamMove /\ UNCHANGED <<handler_vars, inbox>> => TypeInv'
<1> SUFFICES ASSUME TypeInv, StreamMove, UNCHANGED <<handler_vars, inbox>> PROVE TypeInv'
  OBVIOUS
<1>1. StreamInv' /\ UNCHANGED <<database, fd_to_id, call, inbox>>
  BY MovesKeepStream DEF TypeInv, handler_vars
<1>2. ASSUME NEW f \in DOMAIN fd_to_id PROVE Authentic(f)'
  <2>1. f \in Conns /\ Authentic(f)
    BY MembersAre DEF TypeInv
  <2> QED
    BY <1>1, <2>1, MemberStays DEF TypeInv, Authentic
<1>3. MembersAuthenticated'
  BY <1>1, <1>2 DEF MembersAuthenticated, Authentic
<1> QED
  BY <1>1, <1>3 DEF TypeInv, DB!TypeOK

(* The sends that a handler at work has before it.                         *)
Speaking == SendCopy \/ SendReply \/ SendFallback

LEMMA SendingTypeInv == TypeInv /\ StreamMove /\ Speaking => TypeInv'
<1> SUFFICES ASSUME TypeInv, StreamMove, Speaking PROVE TypeInv'
  OBVIOUS
<1>1. call \in Call /\ UNCHANGED <<database, fd_to_id>>
  BY DEF Speaking, SendCopy, SendReply, SendFallback, TypeInv, Idle, Call
<1>2. call' \in {Idle} \cup Call
  <2>1. \/ call' = Idle \/ \E S \in SUBSET Conns : call' = [call EXCEPT !.rest = S]
        \/ \E stage \in {"catch", "escaped", "killed"} : call' = [call EXCEPT !.stage = stage]
    <3>1. \A g \in call.rest : call.rest \ {g} \in SUBSET Conns
      BY <1>1 DEF Call
    <3> QED
      BY <3>1 DEF Speaking, SendCopy, SendReply, SendFallback, FallBack, Die
  <2> QED
    BY <1>1, <2>1 DEF Call
<1>3. inbox' \in [Conns -> Seq(Message)]
  <2>1. \A g \in call.rest : g \in Conns
    BY <1>1 DEF Call
  <2>2. call.fd \in Conns /\ {call.copy, call.reply, call.fallback} \subseteq Message
    BY <1>1 DEF Call
  <2>3. inbox' = inbox \/ \E g \in Conns, m \in Message : inbox' = [inbox EXCEPT ![g] = Append(@, m)]
    BY <2>1, <2>2 DEF Speaking, SendCopy, SendReply, SendFallback, Sends, SendThrows, SendKills
  <2>4. inbox \in [Conns -> Seq(Message)]
    BY DEF TypeInv
  <2>5. ASSUME NEW g \in Conns, NEW m \in Message, inbox' = [inbox EXCEPT ![g] = Append(@, m)]
        PROVE  inbox' \in [Conns -> Seq(Message)]
    BY <2>4, <2>5
  <2> QED
    BY <2>3, <2>4, <2>5
<1>4. StreamInv'
  BY MovesKeepStream DEF TypeInv
<1>5. ASSUME NEW f \in DOMAIN fd_to_id PROVE Authentic(f)'
  <2>1. f \in Conns /\ Authentic(f)
    BY MembersAre DEF TypeInv
  <2> QED
    BY <1>1, <2>1, MemberStays DEF TypeInv, Authentic
<1>6. MembersAuthenticated'
  BY <1>1, <1>5 DEF MembersAuthenticated, Authentic
<1> QED
  BY <1>1, <1>2, <1>3, <1>4, <1>6 DEF TypeInv, DB!TypeOK


(* What every handler does with the event it takes up.                     *)
LEMMA HandlerTakes ==
  ASSUME TypeInv, NEW f \in Conns, Handler(f)
  PROVE  Stream!Handle(f) /\ call = Idle /\ UNCHANGED peer_vars /\ StreamMove /\ StreamInv'
<1>1. Stream!Handle(f) /\ call = Idle /\ UNCHANGED peer_vars
  BY DEF Handler, Register, CutRegister, Login, BadLogin, Chat, Invalid, Disconnect, Begins,
     Idle, handler_vars
<1>2. StreamMove
  BY <1>1 DEF StreamMove, peer_vars
<1> QED
  BY <1>1, <1>2, MovesKeepStream DEF TypeInv

LEMMA RegisterTypeInv ==
  ASSUME TypeInv, NEW f \in Conns, Register(f)
  PROVE  TypeInv'
<1>1. Stream!Handle(f) /\ UNCHANGED peer_vars /\ StreamMove /\ StreamInv'
  BY HandlerTakes DEF Handler
<1> DEFINE n == NextEvent(f)
           r == request[f][n]
<1>2. /\ n \in 1 .. arrived[f] /\ n \in 1 .. MaxChunks
      /\ r \in Request /\ r.type = "register"
  BY NextRequest DEF Register, Begins, TypeInv
<1>3. r.user \in Users
  BY <1>2 DEF Request
<1>4. \A type \in {"register_failed"} : Reply(f, type) \in Message
  BY <1>2, RepliesAreMessages DEF Reply
<1>5. CASE Catch(f, "register_failed") /\ UNCHANGED <<database, fd_to_id>>
  <2>1. call' \in {Idle} \cup Call
    BY <1>2, <1>4, <1>5, CallTyped DEF Catch, Outside
  <2>2. ASSUME NEW g \in DOMAIN fd_to_id PROVE Authentic(g)'
    BY <1>1, <1>5, MembersAre, MemberStays DEF TypeInv, Authentic
  <2>3. MembersAuthenticated'
    BY <1>5, <2>2 DEF MembersAuthenticated, Authentic
  <2> QED
    BY <1>1, <1>5, <2>1, <2>3 DEF TypeInv, DB!TypeOK, peer_vars
<1>6. CASE /\ DB!AddData(r.user)
           /\ LogIn(f, DB!NextId(database))
           /\ LET reply == [type |-> "register_success", from |-> f, n |-> n,
                            id |-> DB!NextId(database)]
              IN  Try(f, {}, reply, reply, "register_failed")
  <2> DEFINE id == DB!NextId(database)
  <2>1. /\ id \in Ids \ DOMAIN database /\ DB!TypeOK'
        /\ id \in DOMAIN database' /\ database'[id] = r.user
        /\ \A j \in DOMAIN database : j \in DOMAIN database' /\ database'[j] = database[j]
    BY <1>3, <1>6, NewAccount DEF TypeInv
  <2> HIDE DEF id
  <2>2. Authentic(f)'
    <3>1. fd_to_id'[f] = id
      BY <1>6 DEF LogIn, id
    <3>2. request'[f] = request[f] /\ arrived'[f] = arrived[f]
      BY <1>1 DEF Stream!Handle, peer_vars
    <3> QED
      BY <1>2, <2>1, <3>1, <3>2 DEF Authentic
  <2>3. /\ fd_to_id' \in UNION {[S -> Ids] : S \in SUBSET Conns}
        /\ MembersAuthenticated'
    BY <1>1, <1>6, <2>1, <2>2, NewMember DEF id
  <2>4. call' \in {Idle} \cup Call
    <3>1. [type |-> "register_success", from |-> f, n |-> n, id |-> id] \in Message
      BY <1>2, <2>1, RepliesAreMessages
    <3> QED
      BY <1>2, <1>4, <1>6, <3>1, CallTyped DEF Try, id
  <2> QED
    BY <1>1, <2>1, <2>3, <2>4 DEF TypeInv, peer_vars
<1> QED
  BY <1>5, <1>6 DEF Register

LEMMA LoginTypeInv ==
  ASSUME TypeInv, NEW f \in Conns, Login(f)
  PROVE  TypeInv'
<1>1. Stream!Handle(f) /\ UNCHANGED peer_vars /\ StreamMove /\ StreamInv'
  BY HandlerTakes DEF Handler
<1> DEFINE n == NextEvent(f)
           r == request[f][n]
<1>2. /\ n \in 1 .. arrived[f] /\ n \in 1 .. MaxChunks
      /\ r \in Request /\ r.type = "login" /\ UNCHANGED database
  BY NextRequest DEF Login, Begins, TypeInv
<1>3. r.user \in Users /\ r.id \in Ids
  BY <1>2 DEF Request
<1>4. /\ Reply(f, "login_failed") \in Message
      /\ [type |-> "login_success", from |-> f, n |-> n, name |-> r.user] \in Message
  BY <1>2, <1>3, RepliesAreMessages DEF Reply
<1>5. call' \in {Idle} \cup Call
  <2>1. PICK m \in Message : Try(f, {}, m, m, "login_failed")
    BY <1>4 DEF Login
  <2> QED
    BY <1>2, <1>4, <2>1, CallTyped DEF Try
<1>6. CASE Granted(f, r.id, r.user) /\ LogIn(f, r.id)
  <2>1. Authentic(f)'
    <3>1. fd_to_id'[f] = r.id /\ r.id \in DOMAIN database' /\ database'[r.id] = r.user
      BY <1>2, <1>6 DEF LogIn, Granted
    <3>2. request'[f] = request[f] /\ arrived'[f] = arrived[f]
      BY <1>1 DEF Stream!Handle, peer_vars
    <3> QED
      BY <1>2, <3>1, <3>2 DEF Authentic
  <2>2. /\ fd_to_id' \in UNION {[S -> Ids] : S \in SUBSET Conns}
        /\ MembersAuthenticated'
    BY <1>1, <1>2, <1>3, <1>6, <2>1, NewMember
  <2> QED
    BY <1>1, <1>2, <1>5, <2>2 DEF TypeInv, DB!TypeOK, peer_vars
<1>7. CASE UNCHANGED fd_to_id
  <2>1. ASSUME NEW g \in DOMAIN fd_to_id PROVE Authentic(g)'
    BY <1>1, <1>2, <1>7, MembersAre, MemberStays DEF TypeInv, Authentic
  <2>2. MembersAuthenticated'
    BY <1>7, <2>1 DEF MembersAuthenticated, Authentic
  <2> QED
    BY <1>1, <1>2, <1>5, <1>7, <2>2 DEF TypeInv, DB!TypeOK, peer_vars
<1> QED
  BY <1>6, <1>7 DEF Login

LEMMA ChatTypeInv ==
  ASSUME TypeInv, NEW f \in Conns, Chat(f)
  PROVE  TypeInv'
<1>1. Stream!Handle(f) /\ UNCHANGED peer_vars /\ StreamMove /\ StreamInv'
  BY HandlerTakes DEF Handler
<1> DEFINE n == NextEvent(f)
<1>2. n \in 1 .. MaxChunks /\ UNCHANGED <<database, fd_to_id>>
  BY NextRequest DEF Chat, Begins, TypeInv
<1>3. /\ Reply(f, "chat_success") \in Message /\ Reply(f, "chat_failed") \in Message
  BY <1>2, RepliesAreMessages DEF Reply
<1>4. call' \in {Idle} \cup Call
  <2>1. CASE f \in DOMAIN fd_to_id
    <3> DEFINE copy == [type |-> "chat", from |-> f, n |-> n, name |-> database[fd_to_id[f]]]
               rest == IF fd_to_id[f] \in DOMAIN database THEN Audience(f) ELSE {}
    <3>1. fd_to_id[f] \in DOMAIN database
      BY <2>1 DEF TypeInv, MembersAuthenticated
    <3>2. database[fd_to_id[f]] \in Users
      BY <3>1 DEF TypeInv, DB!TypeOK
    <3>3. copy \in Message
      BY <1>2, <3>2, RepliesAreMessages
    <3>4. rest \in SUBSET Conns
      BY DEF TypeInv, Audience
    <3>5. Try(f, rest, copy, Reply(f, "chat_success"), "chat_failed")
      BY <2>1 DEF Chat
    <3> HIDE DEF copy, rest
    <3> QED
      BY <1>2, <1>3, <3>3, <3>4, <3>5, CallTyped DEF Try
  <2>2. CASE f \notin DOMAIN fd_to_id
    <3>1. Catch(f, "chat_failed")
      BY <2>2 DEF Chat
    <3> QED
      BY <1>2, <1>3, <3>1, CallTyped DEF Catch, Outside
  <2> QED
    BY <2>1, <2>2
<1>5. ASSUME NEW g \in DOMAIN fd_to_id PROVE Authentic(g)'
  BY <1>1, <1>2, MembersAre, MemberStays DEF TypeInv, Authentic
<1>6. MembersAuthenticated'
  BY <1>2, <1>5 DEF MembersAuthenticated, Authentic
<1> QED
  BY <1>1, <1>2, <1>4, <1>6 DEF TypeInv, DB!TypeOK, peer_vars

(* A malformed request that leaves the handler no way back.                *)
Straying(f) == CutRegister(f) \/ BadLogin(f)

LEMMA StrayingTypeInv ==
  ASSUME TypeInv, NEW f \in Conns, Straying(f)
  PROVE  TypeInv'
<1>1. Stream!Handle(f) /\ UNCHANGED peer_vars /\ StreamMove /\ StreamInv'
  BY HandlerTakes DEF Handler, Straying
<1>2. NextEvent(f) \in 1 .. MaxChunks /\ UNCHANGED <<database, fd_to_id>>
  BY NextRequest DEF Straying, CutRegister, BadLogin, Begins, TypeInv
<1>3. Reply(f, "register_failed") \in Message /\ Reply(f, "login_failed") \in Message
  BY <1>2, RepliesAreMessages DEF Reply
<1>4. call' \in {Idle} \cup Call
  <2>1. PICK stage \in {"escaped", "looping"}, type \in {"register_failed", "login_failed"} :
          Outside(f, stage, type)
    BY DEF Straying, CutRegister, BadLogin
  <2>2. {} \in SUBSET Conns /\ Reply(f, type) \in Message
    BY <1>3, <2>1
  <2> QED
    BY <1>2, <2>1, <2>2, CallTyped DEF Outside
<1>5. ASSUME NEW g \in DOMAIN fd_to_id PROVE Authentic(g)'
  BY <1>1, <1>2, MembersAre, MemberStays DEF TypeInv, Authentic
<1>6. MembersAuthenticated'
  BY <1>2, <1>5 DEF MembersAuthenticated, Authentic
<1> QED
  BY <1>1, <1>2, <1>4, <1>6 DEF TypeInv, DB!TypeOK, peer_vars

LEMMA DisconnectTypeInv ==
  ASSUME TypeInv, NEW f \in Conns, Disconnect(f)
  PROVE  TypeInv'
<1>1. Stream!Handle(f) /\ UNCHANGED peer_vars /\ StreamMove /\ StreamInv'
  BY HandlerTakes DEF Handler
<1>2. Forget(f) /\ UNCHANGED <<database, call>>
  BY DEF Disconnect
<1>3. fd_to_id' \in UNION {[S -> Ids] : S \in SUBSET Conns}
  <2>1. DOMAIN fd_to_id \ {f} \in SUBSET Conns
    BY DEF TypeInv
  <2>2. fd_to_id' \in [DOMAIN fd_to_id \ {f} -> Ids]
    BY <1>2 DEF Forget, TypeInv
  <2> QED
    BY <2>1, <2>2
<1>4. ASSUME NEW g \in DOMAIN fd_to_id' PROVE Authentic(g)'
  <2>1. g \in DOMAIN fd_to_id /\ g \in Conns /\ fd_to_id'[g] = fd_to_id[g]
    BY <1>2 DEF Forget, TypeInv
  <2>2. Authentic(g)
    BY <2>1, MembersAre DEF TypeInv
  <2> QED
    BY <1>1, <1>2, <2>1, <2>2, MemberStays DEF TypeInv, Authentic
<1>5. MembersAuthenticated'
  BY <1>4 DEF MembersAuthenticated, Authentic
<1> QED
  BY <1>1, <1>2, <1>3, <1>5 DEF TypeInv, DB!TypeOK, peer_vars

LEMMA TypeInvariance == Spec => []TypeInv
<1>1. Init => TypeInv
  <2> SUFFICES ASSUME Init PROVE TypeInv
    OBVIOUS
  <2>1. DB!TypeOK
    BY DEF Init, DB!Init, DB!TypeOK
  <2>2. fd_to_id \in [{} -> Ids]
    BY DEF Init
  <2>3. MembersAuthenticated /\ call \in {Idle} \cup Call /\ inbox \in [Conns -> Seq(Message)]
    BY DEF Init, MembersAuthenticated
  <2> QED
    BY <2>1, <2>2, <2>3, StreamInit DEF TypeInv
<1>2. TypeInv /\ [Next]_vars => TypeInv'
  <2> SUFFICES ASSUME TypeInv, [Next]_vars PROVE TypeInv'
    OBVIOUS
  <2>1. StreamMove
    BY NextMoves
  <2>2. ASSUME NEW f \in Conns, Peer(f) PROVE TypeInv'
    BY <2>1, <2>2, EnvTypeInv DEF Peer, Connect, Ask, Leave, HangUp, peer_vars
  <2>3. ASSUME NEW f \in Conns, Handler(f) PROVE TypeInv'
    <3>1. CASE Invalid(f)
      BY <2>1, <3>1, EnvTypeInv DEF Invalid, peer_vars
    <3> QED
      BY <2>3, <3>1, RegisterTypeInv, LoginTypeInv, ChatTypeInv, StrayingTypeInv, DisconnectTypeInv
         DEF Handler, Straying
  <2>4. CASE Speaking
    BY <2>1, <2>4, SendingTypeInv
  <2>5. CASE Unwind \/ UNCHANGED vars
    BY <2>1, <2>5, EnvTypeInv DEF Unwind, vars, peer_vars
  <2> QED
    BY <2>2, <2>3, <2>4, <2>5 DEF Next, Sending, Speaking
<1> QED
  BY <1>1, <1>2, PTL DEF Spec

(* Every variable of the chat server has its type, whatever its clients    *)
(* ask and whenever they leave.                                            *)
THEOREM TypeCorrect == Spec => []TypeOK
<1>1. TypeInv => TypeOK
  BY DEF TypeInv, StreamInv, TypeOK
<1> QED
  BY <1>1, TypeInvariance, PTL

(* Whoever is logged in to an account has registered it on this connection *)
(* or has shown its password.                                              *)
THEOREM MembersAreAuthenticated == Spec => []MembersAuthenticated
<1>1. TypeInv => MembersAuthenticated
  BY DEF TypeInv
<1> QED
  BY <1>1, TypeInvariance, PTL

-----------------------------------------------------------------------------
(* The handler at work.  It answers one request that has arrived and that  *)
(* no handler takes up again, and an exception escapes it only when the    *)
(* requester has left or has sent half a registration.                     *)

Failures == {"register_failed", "login_failed", "chat_failed"}

Answers(m, f, n) == m.type # "chat" /\ m.from = f /\ m.n = n

Pending(f, n) == \E i \in 1 .. Len(pipe[f]) : pipe[f][i] = n

CallOK ==
  call # Idle =>
    /\ call.n \in 1 .. arrived[call.fd] /\ ~Pending(call.fd, call.n)
    /\ Answers(call.reply, call.fd, call.n) /\ Answers(call.fallback, call.fd, call.n)
    /\ call.fallback.type \in Failures
    /\ call.stage = "try" => call.reply.type # "chat_failed"
    /\ call.stage = "escaped" =>
         call.fd \in left \/ request[call.fd][call.n].type = "cut_register"

LEMMA PipeMoves ==
  ASSUME StreamInv, StreamMove, NEW f \in Conns
  PROVE  \/ pipe'[f] = pipe[f]
         \/ Stream!Handle(f) /\ pipe'[f] = Tail(pipe[f])
         \/ pipe'[f] = Append(pipe[f], Stream!Eof)
         \/ pipe'[f] = Append(pipe[f], arrived[f] + 1)
<1> pipe \in [Conns -> Seq(0 .. MaxChunks)]
  BY DEF StreamInv, Stream!TypeOK
<1>1. ASSUME NEW g \in Conns, HangUp(g) \/ Leave(g) \/ \E r \in Request : Ask(g, r)
      PROVE  \/ pipe' = pipe \/ pipe' = [pipe EXCEPT ![g] = Append(@, Stream!Eof)]
             \/ pipe' = [pipe EXCEPT ![g] = Append(@, arrived[g] + 1)]
  BY <1>1 DEF HangUp, Leave, Ask, stream_vars, Stream!HangUp, Stream!QueueEof, Stream!Arrive
<1>2. ASSUME NEW g \in Conns, Stream!Handle(g) PROVE pipe' = [pipe EXCEPT ![g] = Tail(@)]
  BY <1>2 DEF Stream!Handle
<1>3. (\E g \in Conns : Stream!Connect(g)) \/ Stream!Stop \/ UNCHANGED stream_vars => pipe' = pipe
  BY DEF Stream!Connect, Stream!Stop, stream_vars
<1> QED
  BY <1>1, <1>2, <1>3 DEF StreamMove

LEMMA NotPendingAgain ==
  ASSUME StreamInv, StreamMove, NEW f \in Conns, NEW n \in 1 .. arrived[f], ~Pending(f, n)
  PROVE  ~Pending(f, n)'
<1> USE RequestsAssumption
<1>1. /\ arrived[f] \in 0 .. MaxChunks /\ pipe[f] \in Seq(0 .. MaxChunks)
      /\ \A i \in 1 .. Len(pipe[f]) : pipe[f][i] # n
  BY DEF StreamInv, Stream!TypeOK, Pending
<1>2. CASE pipe'[f] = pipe[f]
  BY <1>1, <1>2 DEF Pending
<1>3. CASE Stream!Handle(f) /\ pipe'[f] = Tail(pipe[f])
  <2>1. pipe[f] # <<>>
    BY <1>3 DEF Stream!Handle
  <2> QED
    BY <1>1, <1>3, <2>1 DEF Pending
<1>4. ASSUME NEW e \in Nat, pipe'[f] = Append(pipe[f], e), e # n PROVE ~Pending(f, n)'
  BY <1>1, <1>4 DEF Pending
<1>5. Stream!Eof \in Nat \ {n} /\ arrived[f] + 1 \in Nat \ {n}
  BY <1>1 DEF Stream!Eof
<1> QED
  BY <1>2, <1>3, <1>4, <1>5, PipeMoves

LEMMA TakenNotPending ==
  ASSUME StreamInv, NEW f \in Conns, Stream!Handle(f), NEW n, n = NextEvent(f), n # Stream!Eof
  PROVE  ~Pending(f, n)'
<1> USE RequestsAssumption
<1>1. /\ pipe[f] \in Seq(0 .. MaxChunks) /\ pipe[f] # <<>>
      /\ pipe'[f] = Tail(pipe[f]) /\ n = pipe[f][1]
  BY DEF StreamInv, Stream!TypeOK, Stream!Handle, NextEvent
<1>2. \A i \in 2 .. Len(pipe[f]) : pipe[f][i] # n
  <2> SUFFICES ASSUME NEW i \in 2 .. Len(pipe[f]) PROVE pipe[f][i] # pipe[f][1]
    BY <1>1
  <2>1. i \in 1 .. Len(pipe[f]) /\ 1 \in 1 .. i - 1 /\ pipe[f][1] # Stream!Eof
    BY <1>1
  <2>2. pipe[f][i] # Stream!Eof => pipe[f][1] < pipe[f][i]
    BY <2>1 DEF StreamInv, EventsOK
  <2>3. pipe[f][i] \in Nat /\ pipe[f][1] \in Nat
    BY <1>1
  <2> QED
    BY <2>1, <2>2, <2>3
<1>3. \A i \in 1 .. Len(Tail(pipe[f])) : i + 1 \in 2 .. Len(pipe[f]) /\ Tail(pipe[f])[i] = pipe[f][i + 1]
  BY <1>1
<1> QED
  BY <1>1, <1>2, <1>3 DEF Pending

(* The handlers that answer, and what they have the sends do.              *)
Answering(f) == Register(f) \/ Login(f) \/ Chat(f) \/ Straying(f)

LEMMA AnsweringCall ==
  ASSUME TypeInv, NEW f \in Conns, Answering(f), NEW n, n = NextEvent(f)
  PROVE  /\ call = Idle /\ call' # Idle /\ call'.fd = f /\ call'.n = n
         /\ n \in 1 .. arrived[f] /\ ~Pending(f, n)'
         /\ call'.stage \in {"try", "catch", "escaped", "looping"}
         /\ call'.stage = "escaped" => request[f][n].type = "cut_register"
         /\ Answers(call'.reply, f, n) /\ Answers(call'.fallback, f, n)
         /\ call'.fallback.type \in Failures
         /\ call'.stage = "try" => call'.reply.type # "chat_failed"
         /\ Stream!Handle(f) /\ UNCHANGED peer_vars
<1>1. /\ call = Idle /\ Stream!Handle(f) /\ pipe[f] # <<>> /\ n # Stream!Eof
      /\ UNCHANGED peer_vars
  BY DEF Answering, Straying, Register, CutRegister, Login, BadLogin, Chat, Begins
<1>2. n \in 1 .. arrived[f] /\ ~Pending(f, n)'
  BY <1>1, NextRequest, TakenNotPending DEF TypeInv
<1>3. \/ \E type \in Failures, stage \in {"catch", "escaped", "looping"} :
           /\ Outside(f, stage, type)
           /\ stage = "escaped" => request[f][n].type = "cut_register"
      \/ \E type \in Failures : \E rest, copy, reply :
           /\ Try(f, rest, copy, reply, type)
           /\ Answers(reply, f, n) /\ reply.type # "chat_failed"
  <2>1. CASE Register(f)
    BY <2>1 DEF Register, Catch, Failures, Answers
  <2>2. CASE Login(f)
    BY <2>2 DEF Login, Failures, Answers, Reply
  <2>3. CASE Chat(f)
    BY <2>3 DEF Chat, Catch, Failures, Answers, Reply
  <2>4. CASE Straying(f)
    BY <2>4 DEF Straying, CutRegister, BadLogin, Begins, Failures
  <2> QED
    BY <2>1, <2>2, <2>3, <2>4 DEF Answering
<1> DEFINE Good ==
      /\ call' # Idle /\ call'.fd = f /\ call'.n = n
      /\ call'.stage \in {"try", "catch", "escaped", "looping"}
      /\ call'.stage = "escaped" => request[f][n].type = "cut_register"
      /\ Answers(call'.reply, f, n) /\ Answers(call'.fallback, f, n)
      /\ call'.fallback.type \in Failures
      /\ call'.stage = "try" => call'.reply.type # "chat_failed"
<1>4. ASSUME NEW type \in Failures, NEW stage \in {"catch", "escaped", "looping"},
             Outside(f, stage, type),
             stage = "escaped" => request[f][n].type = "cut_register"
      PROVE  Good
  BY <1>4 DEF Outside, Reply, Answers, Failures, Idle
<1>5. ASSUME NEW type \in Failures, NEW rest, NEW copy, NEW reply,
             Try(f, rest, copy, reply, type), Answers(reply, f, n), reply.type # "chat_failed"
      PROVE  Good
  <2>1. Answers(Reply(f, type), f, n) /\ Reply(f, type).type = type
    BY DEF Answers, Reply, Failures
  <2>2. /\ call'.stage = "try" /\ call'.fd = f /\ call'.n = n
        /\ call'.reply = reply /\ call'.fallback = Reply(f, type)
    BY <1>5 DEF Try
  <2>3. call' # Idle
    BY <2>2 DEF Idle
  <2> QED
    BY <1>5, <2>1, <2>2, <2>3
<1> HIDE DEF Good
<1>6. Good
  BY <1>3, <1>4, <1>5
<1> QED
  BY <1>1, <1>2, <1>6 DEF Good

(* The sends take nothing from the call but what is left to send.          *)
LEMMA SendingCall ==
  ASSUME TypeInv, Speaking
  PROVE  /\ call # Idle /\ call \in Call /\ call.stage \in {"try", "catch"}
         /\ UNCHANGED <<database, fd_to_id, request, left, arrived, pipe, phase>>
         /\ \/ call' = Idle
            \/ /\ call' # Idle /\ call'.rest \subseteq call.rest
               /\ call'.stage = call.stage \/ call'.stage \in {"catch", "escaped", "killed"}
               /\ call'.fd = call.fd /\ call'.n = call.n /\ call'.copy = call.copy
               /\ call'.reply = call.reply /\ call'.fallback = call.fallback
<1>1. /\ call # Idle /\ call \in Call /\ call.stage \in {"try", "catch"}
      /\ UNCHANGED <<database, fd_to_id, request, left>>
  BY DEF Speaking, SendCopy, SendReply, SendFallback, TypeInv, Idle
<1>2. UNCHANGED <<arrived, pipe, phase>>
  BY DEF Speaking, SendCopy, SendReply, SendFallback, FallBack, Die, stream_vars, Stream!Stop
<1>3. \/ call' = Idle \/ \E S \in SUBSET call.rest : call' = [call EXCEPT !.rest = S]
      \/ \E stage \in {"catch", "escaped", "killed"} : call' = [call EXCEPT !.stage = stage]
  <2>1. \A g : call.rest \ {g} \in SUBSET call.rest
    OBVIOUS
  <2> QED
    BY <2>1 DEF Speaking, SendCopy, SendReply, SendFallback, FallBack, Die
<1>4. ASSUME NEW S \in SUBSET call.rest, call' = [call EXCEPT !.rest = S]
      PROVE  /\ call' # Idle /\ call'.rest \subseteq call.rest /\ call'.stage = call.stage
             /\ call'.fd = call.fd /\ call'.n = call.n /\ call'.copy = call.copy
             /\ call'.reply = call.reply /\ call'.fallback = call.fallback
  BY <1>1, <1>4 DEF Call, Idle
<1>5. ASSUME NEW stage \in {"catch", "escaped", "killed"}, call' = [call EXCEPT !.stage = stage]
      PROVE  /\ call' # Idle /\ call'.rest \subseteq call.rest /\ call'.stage = stage
             /\ call'.fd = call.fd /\ call'.n = call.n /\ call'.copy = call.copy
             /\ call'.reply = call.reply /\ call'.fallback = call.fallback
  BY <1>1, <1>5 DEF Call, Idle
<1> QED
  BY <1>1, <1>2, <1>3, <1>4, <1>5

(* The steps that do nothing to the handler.                               *)
LEMMA QuietOrNot ==
  ASSUME [Next]_vars
  PROVE  \/ UNCHANGED <<handler_vars, inbox>> /\ StreamMove
         \/ \E f \in Conns : Answering(f) \/ Disconnect(f)
         \/ Speaking
<1>1. ASSUME NEW f \in Conns, Peer(f) \/ Invalid(f) PROVE UNCHANGED <<handler_vars, inbox>>
  BY <1>1 DEF Peer, Connect, Ask, Leave, HangUp, Invalid, peer_vars
<1>2. Unwind \/ UNCHANGED vars => UNCHANGED <<handler_vars, inbox>>
  BY DEF Unwind, vars, peer_vars
<1> QED
  BY <1>1, <1>2, NextMoves DEF Next, Handler, Answering, Straying, Sending, Speaking

LEMMA CallStep == TypeInv /\ CallOK /\ [Next]_vars => CallOK'
<1> SUFFICES ASSUME TypeInv, CallOK, [Next]_vars, call' # Idle PROVE CallOK'
  BY DEF CallOK
<1>1. StreamMove /\ left \subseteq left'
  BY NextMoves DEF StreamMove, HangUp, Leave, Ask, peer_vars
<1>2. CASE UNCHANGED <<handler_vars, inbox>>
  <2>1. call' = call /\ call \in Call
    BY <1>2 DEF handler_vars, TypeInv
  <2>2. call.fd \in Conns /\ call.n \in 1 .. arrived[call.fd] /\ ~Pending(call.fd, call.n)
    BY <2>1 DEF CallOK, Call
  <2>3. ~Pending(call.fd, call.n)' /\ call.n \in 1 .. arrived'[call.fd]
    BY <1>1, <2>2, <2>1, NotPendingAgain, RequestsStay DEF TypeInv
  <2>4. request'[call.fd][call.n] = request[call.fd][call.n]
    BY <1>1, <2>2, RequestsStay DEF TypeInv
  <2> QED
    BY <1>1, <2>1, <2>3, <2>4 DEF CallOK
<1>3. ASSUME NEW f \in Conns, Answering(f) PROVE CallOK'
  <2>1. arrived' = arrived /\ request' = request
    BY <1>3, AnsweringCall DEF Stream!Handle, peer_vars
  <2> QED
    BY <1>3, <2>1, AnsweringCall DEF CallOK
<1>4. CASE \E f \in Conns : Disconnect(f)
  BY <1>4 DEF Disconnect
<1>5. CASE Speaking
  <2>1. /\ UNCHANGED <<left, arrived, pipe, request>> /\ call # Idle /\ call \in Call
        /\ call'.fd = call.fd /\ call'.n = call.n
        /\ call'.reply = call.reply /\ call'.fallback = call.fallback
        /\ call'.stage = "try" => call.stage = "try"
    BY <1>5, SendingCall
  <2>2. call'.stage = "escaped" => call.fd \in left
    <3>1. call.fd \in Conns /\ phase[call.fd] # "new"
      BY <2>1 DEF CallOK, Call, TypeInv, StreamInv, EventsOK
    <3>2. phase[call.fd] # "open" => call.fd \in left
      BY <3>1 DEF TypeInv, StreamInv, Stream!TypeOK, Stream!Phases, EventsOK
    <3>3. call'.stage = "escaped" => SendThrows(call.fd)
      BY <1>5, <2>1 DEF Speaking, SendCopy, SendReply, SendFallback, FallBack, Die, Idle, Call
    <3> QED
      BY <3>2, <3>3 DEF SendThrows
  <2> QED
    BY <2>1, <2>2 DEF CallOK, Pending
<1> QED
  BY <1>2, <1>3, <1>4, <1>5, QuietOrNot

LEMMA CallInvariance == Spec => []CallOK
<1>1. Init => CallOK
  BY DEF Init, CallOK
<1> QED
  BY <1>1, CallStep, TypeInvariance, PTL DEF Spec

(* An exception ends the server only over a requester that has left or has *)
(* sent half a registration, though a send throws for any member that is   *)
(* gone, in the middle of someone else's chat: that is survived.           *)
THEOREM EscapesHaveCauses == Spec => []EscapesHaveACause
<1>1. CallOK => EscapesHaveACause
  BY DEF CallOK, EscapesHaveACause
<1> QED
  BY <1>1, CallInvariance, PTL

-----------------------------------------------------------------------------
(* A connection is forgotten when its last event was handled.  That there  *)
(* is always the disconnect behind its requests is EventsOK.               *)

LEMMA ForgottenStep == TypeInv /\ GoneAreForgotten /\ [Next]_vars => GoneAreForgotten'
<1> SUFFICES ASSUME TypeInv, GoneAreForgotten, [Next]_vars,
                    NEW f \in Conns, phase'[f] = "over", pipe'[f] = <<>>
             PROVE  f \notin DOMAIN fd_to_id'
  BY DEF GoneAreForgotten
<1>1. pipe \in [Conns -> Seq(0 .. MaxChunks)] /\ phase \in [Conns -> Stream!Phases]
  BY DEF TypeInv, StreamInv, Stream!TypeOK
<1>2. CASE UNCHANGED <<fd_to_id, phase, pipe>>
  BY <1>2 DEF GoneAreForgotten
<1>3. ASSUME NEW g \in Conns, Peer(g) PROVE f \notin DOMAIN fd_to_id'
  <2>1. UNCHANGED fd_to_id /\ (pipe'[f] = pipe[f] \/ \E e : pipe'[f] = Append(pipe[f], e))
    BY <1>1, <1>3 DEF Peer, Connect, Ask, Leave, HangUp, handler_vars, stream_vars,
       Stream!Connect, Stream!Arrive, Stream!HangUp, Stream!QueueEof
  <2>2. pipe[f] = <<>> /\ pipe'[f] = pipe[f]
    BY <1>1, <2>1
  <2>3. phase[f] = "over" \/ pipe'[f] = Append(pipe[f], Stream!Eof)
    BY <1>1, <1>3 DEF Peer, Connect, Ask, Leave, HangUp, stream_vars,
       Stream!Connect, Stream!Arrive, Stream!HangUp, Stream!QueueEof
  <2> QED
    BY <1>1, <2>1, <2>2, <2>3 DEF GoneAreForgotten
<1>4. ASSUME NEW g \in Conns, Handler(g) PROVE f \notin DOMAIN fd_to_id'
  <2>1. /\ pipe[g] # <<>> /\ phase' = phase /\ pipe' = [pipe EXCEPT ![g] = Tail(@)]
        /\ f # g => f \notin DOMAIN fd_to_id
    BY <1>1, <1>4, HandlerTakes DEF Stream!Handle, GoneAreForgotten
  <2>2. CASE Disconnect(g)
    BY <2>1, <2>2 DEF Disconnect, Forget
  <2>3. CASE f = g /\ NextEvent(g) # Stream!Eof
    <3>1. pipe[f] \in Seq(0 .. MaxChunks) /\ pipe[f] # <<>> /\ Tail(pipe[f]) = <<>>
      BY <1>1, <2>1, <2>3
    <3>2. Len(pipe[f]) = 1
      <4>1. Len(Tail(pipe[f])) = Len(pipe[f]) - 1 /\ Len(pipe[f]) \in Nat
        BY <3>1
      <4>2. Len(<<>>) = 0
        OBVIOUS
      <4>3. Len(Tail(pipe[f])) = 0
        BY <3>1, <4>2, Zenon
      <4> QED
        BY <4>1, <4>3
    <3>3. phase[f] = "over"
      BY <2>1
    <3>4. 1 \in 1 .. Len(pipe[f]) /\ pipe[f][1] # Stream!Eof
      BY <2>3, <3>1, <3>2 DEF NextEvent
    <3> QED
      BY <3>2, <3>3, <3>4 DEF TypeInv, StreamInv, EventsOK
  <2>4. CASE f # g /\ ~Disconnect(g)
    BY <1>4, <2>1, <2>4 DEF Handler, Register, CutRegister, Login, BadLogin, Chat, Invalid,
       LogIn, handler_vars
  <2> QED
    BY <1>4, <2>2, <2>3, <2>4 DEF Handler, Register, CutRegister, Login, BadLogin, Chat,
       Invalid, Begins
<1>5. Speaking \/ Unwind \/ UNCHANGED vars => UNCHANGED <<fd_to_id, phase, pipe>>
  BY SendingCall DEF Unwind, Stream!Stop, vars, stream_vars, handler_vars
<1> QED
  BY <1>2, <1>3, <1>4, <1>5 DEF Next, Sending, Speaking

(* Requests that are handled after the hang-up leave no member behind.     *)
THEOREM GoneForgotten == Spec => []GoneAreForgotten
<1>1. Init => GoneAreForgotten
  BY DEF Init, GoneAreForgotten
<1> QED
  BY <1>1, ForgottenStep, TypeInvariance, PTL DEF Spec

-----------------------------------------------------------------------------
(* What is sent, and what it leaves for the handler to do.                 *)

Delivery(g, m) ==
  /\ g \notin left
  /\ inbox' = [inbox EXCEPT ![g] = Append(@, m)]
  /\ \/ /\ g \in call.rest /\ m = call.copy /\ call.stage = "try"
        /\ call' = [call EXCEPT !.rest = @ \ {g}]
     \/ g = call.fd /\ m = call.reply /\ call.stage = "try" /\ call.rest = {} /\ call' = Idle
     \/ g = call.fd /\ m = call.fallback /\ call.stage = "catch" /\ call' = Idle

LEMMA InboxMoves ==
  ASSUME TypeInv, [Next]_vars
  PROVE  \/ inbox' = inbox
         \/ Speaking /\ \E g \in Conns, m \in Message : Delivery(g, m)
<1>1. CASE Speaking
  <2>1. /\ call # Idle /\ call.fd \in Conns /\ call.rest \subseteq Conns /\ call \in Call
        /\ {call.copy, call.reply, call.fallback} \subseteq Message
    BY <1>1, SendingCall DEF Call
  <2>2. SendCopy => inbox' = inbox \/ \E g \in call.rest : Delivery(g, call.copy)
    BY DEF SendCopy, Sends, SendThrows, SendKills, Delivery
  <2>3. SendReply => inbox' = inbox \/ Delivery(call.fd, call.reply)
    BY DEF SendReply, Sends, SendThrows, SendKills, Delivery
  <2>4. SendFallback => inbox' = inbox \/ Delivery(call.fd, call.fallback)
    BY DEF SendFallback, Sends, SendThrows, SendKills, Delivery
  <2> QED
    BY <1>1, <2>1, <2>2, <2>3, <2>4 DEF Speaking
<1>2. ASSUME NEW f \in Conns, Answering(f) \/ Disconnect(f) PROVE inbox' = inbox
  BY <1>2 DEF Answering, Straying, Register, CutRegister, Login, BadLogin, Chat, Disconnect,
     peer_vars
<1>3. UNCHANGED <<handler_vars, inbox>> => inbox' = inbox
  OBVIOUS
<1> QED
  BY <1>1, <1>2, <1>3, QuietOrNot

(* What the inbox of f holds after a step.                                 *)
LEMMA InboxThen ==
  ASSUME TypeInv, [Next]_vars, NEW f \in Conns
  PROVE  /\ \A i \in 1 .. Len(inbox[f]) : i \in 1 .. Len(inbox'[f]) /\ inbox'[f][i] = inbox[f][i]
         /\ \/ Len(inbox'[f]) = Len(inbox[f])
            \/ /\ Len(inbox'[f]) = Len(inbox[f]) + 1
               /\ Speaking /\ Delivery(f, inbox'[f][Len(inbox[f]) + 1])
         /\ Len(inbox[f]) \in Nat /\ inbox[f] \in Seq(Message)
<1>1. inbox \in [Conns -> Seq(Message)] /\ inbox[f] \in Seq(Message)
  BY DEF TypeInv
<1>2. CASE inbox' = inbox
  BY <1>1, <1>2
<1>3. ASSUME NEW g \in Conns, NEW m \in Message, Speaking, Delivery(g, m)
      PROVE  /\ \A i \in 1 .. Len(inbox[f]) : i \in 1 .. Len(inbox'[f]) /\ inbox'[f][i] = inbox[f][i]
             /\ \/ Len(inbox'[f]) = Len(inbox[f])
                \/ /\ Len(inbox'[f]) = Len(inbox[f]) + 1
                   /\ Speaking /\ Delivery(f, inbox'[f][Len(inbox[f]) + 1])
  <2>1. inbox' = [inbox EXCEPT ![g] = Append(@, m)]
    BY <1>3 DEF Delivery
  <2>2. CASE f # g
    BY <1>1, <2>1, <2>2
  <2>3. CASE f = g
    <3>1. inbox'[f] = Append(inbox[f], m)
      BY <1>1, <2>1, <2>3
    <3>2. Len(inbox'[f]) = Len(inbox[f]) + 1 /\ inbox'[f][Len(inbox[f]) + 1] = m
      BY <1>1, <3>1
    <3> QED
      BY <1>1, <1>3, <2>3, <3>1, <3>2
  <2> QED
    BY <2>2, <2>3
<1> QED
  BY <1>1, <1>2, <1>3, InboxMoves

(* Whoever was sent a message has it, and nothing else is new.             *)
LEMMA GotThen ==
  ASSUME TypeInv, NEW g \in Conns, NEW m \in Message, Delivery(g, m),
         NEW f \in Conns, NEW type, NEW h, NEW n
  PROVE  Got(f, type, h, n)' <=>
           Got(f, type, h, n) \/ (f = g /\ m.type = type /\ m.from = h /\ m.n = n)
<1>1. inbox[f] \in Seq(Message)
  BY DEF TypeInv
<1>2. inbox'[f] = IF f = g THEN Append(inbox[f], m) ELSE inbox[f]
  BY DEF TypeInv, Delivery
<1> QED
  BY <1>1, <1>2 DEF Got

(* The chat at work: it goes to members, from a member, under its name.    *)
BroadcastOK ==
  call # Idle /\ call.rest # {} =>
    /\ call.copy.type = "chat" /\ call.copy.from = call.fd /\ call.copy.n = call.n
    /\ call.fd \in DOMAIN fd_to_id /\ call.rest \subseteq Audience(call.fd)
    /\ call.copy.name = database[fd_to_id[call.fd]]

(* Those it is no longer for have had it.                                  *)
ReachedOK ==
  call # Idle /\ call.stage = "try" /\ call.reply.type = "chat_success" =>
    \A g \in Audience(call.fd) \ call.rest : g \in left \/ Got(g, "chat", call.fd, call.n)

(* It was given up for a reason.                                           *)
CauseOK ==
  call # Idle /\ call.stage = "catch" /\ call.fallback.type = "chat_failed" =>
    \/ call.fd \in left \/ call.fd \notin DOMAIN fd_to_id
    \/ Audience(call.fd) \cap left # {}

ChatInv == TypeInv /\ CallOK /\ BroadcastOK /\ ReachedOK /\ CauseOK

LEMMA AnsweringChatInv ==
  ASSUME ChatInv, NEW f \in Conns, Answering(f)
  PROVE  BroadcastOK' /\ ReachedOK' /\ CauseOK'
<1>1. CASE Register(f)
  BY <1>1 DEF Register, Try, Catch, Outside, Reply, BroadcastOK, ReachedOK, CauseOK
<1>2. CASE Login(f)
  BY <1>2 DEF Login, Try, Reply, BroadcastOK, ReachedOK, CauseOK
<1>3. CASE Chat(f)
  <2>1. UNCHANGED <<database, fd_to_id, left, inbox>>
    BY <1>3 DEF Chat, peer_vars
  <2>2. CASE f \in DOMAIN fd_to_id
    <3>1. fd_to_id[f] \in DOMAIN database
      BY <2>2 DEF ChatInv, TypeInv, MembersAuthenticated
    <3>2. /\ call'.stage = "try" /\ call'.fd = f /\ call'.rest = Audience(f)
          /\ call'.copy.type = "chat" /\ call'.copy.from = f /\ call'.copy.n = call'.n
          /\ call'.copy.name = database[fd_to_id[f]]
      BY <1>3, <2>2, <3>1 DEF Chat, Try
    <3> QED
      BY <2>1, <2>2, <3>2 DEF BroadcastOK, ReachedOK, CauseOK, Audience
  <2>3. CASE f \notin DOMAIN fd_to_id
    <3>1. call'.stage = "catch" /\ call'.fd = f /\ call'.rest = {}
      BY <1>3, <2>3 DEF Chat, Catch, Outside
    <3> QED
      BY <2>1, <2>3, <3>1 DEF BroadcastOK, ReachedOK, CauseOK
  <2> QED
    BY <2>2, <2>3
<1>4. CASE Straying(f)
  BY <1>4 DEF Straying, CutRegister, BadLogin, Outside, BroadcastOK, ReachedOK, CauseOK
<1> QED
  BY <1>1, <1>2, <1>3, <1>4 DEF Answering

(* A send throws only for a peer that has left.                            *)
LEMMA ThrowsForTheGone ==
  ASSUME TypeInv, NEW g \in Conns, arrived[g] # 0, SendThrows(g)
  PROVE  g \in left
  BY DEF TypeInv, StreamInv, Stream!TypeOK, Stream!Phases, EventsOK, SendThrows

LEMMA SendingChatInv ==
  ASSUME ChatInv, Speaking, [Next]_vars
  PROVE  BroadcastOK' /\ ReachedOK' /\ CauseOK'
<1>1. /\ call # Idle /\ call \in Call /\ TypeInv
      /\ UNCHANGED <<database, fd_to_id, left>>
  BY SendingCall DEF ChatInv
<1>2. CASE call' = Idle
  BY <1>2 DEF BroadcastOK, ReachedOK, CauseOK
<1>3. CASE call' # Idle
  <2>1. /\ call'.rest \subseteq call.rest
        /\ call'.stage = call.stage \/ call'.stage \in {"catch", "escaped", "killed"}
        /\ call'.fd = call.fd /\ call'.n = call.n /\ call'.copy = call.copy
        /\ call'.reply = call.reply /\ call'.fallback = call.fallback
    BY <1>1, <1>3, SendingCall
  <2>2. BroadcastOK'
    BY <1>1, <2>1 DEF ChatInv, BroadcastOK, Audience
  <2>3. ReachedOK'
    <3> SUFFICES ASSUME call'.stage = "try", call.reply.type = "chat_success",
                        NEW h \in Audience(call.fd) \ call'.rest, h \notin left,
                        NEW f, f = call.fd, NEW n, n = call.n
                 PROVE  Got(h, "chat", f, n)'
      BY <1>1, <2>1 DEF ReachedOK, Audience, Got
    <3>1. call.stage = "try" /\ h \in Conns
      BY <1>1, <2>1 DEF Audience, TypeInv
    <3>2. h \in call.rest \/ Got(h, "chat", f, n)
      BY <1>1, <3>1 DEF ChatInv, ReachedOK
    <3>3. CASE inbox' = inbox
      <4>1. \E g \in call.rest : Sends(g, call.copy) /\ call' = [call EXCEPT !.rest = @ \ {g}]
        BY <1>1, <1>3, <3>1 DEF Speaking, SendCopy, SendReply, SendFallback, FallBack, Die, Call
      <4>2. PICK g \in call.rest : Sends(g, call.copy) /\ call'.rest = call.rest \ {g}
        BY <1>1, <4>1 DEF Call
      <4>3. g \in Conns /\ inbox[g] \in Seq(Message) /\ call.copy \in Message
        BY <1>1 DEF Call, TypeInv
      <4>4. h # g
        <5> SUFFICES ASSUME h = g PROVE FALSE
          OBVIOUS
        <5>1. inbox'[g] = Append(inbox[g], call.copy)
          BY <1>1, <4>2, <4>3 DEF Sends, TypeInv
        <5> QED
          BY <3>3, <4>3, <5>1
      <4> QED
        BY <3>2, <3>3, <4>2, <4>4 DEF Got
    <3>4. ASSUME NEW g \in Conns, NEW m \in Message, Delivery(g, m)
          PROVE  Got(h, "chat", f, n)'
      <4>1. g \in call.rest /\ m = call.copy /\ call'.rest = call.rest \ {g}
        BY <1>1, <1>3, <3>4 DEF Delivery, Call
      <4>2. m.type = "chat" /\ m.from = f /\ m.n = n
        BY <1>1, <4>1 DEF ChatInv, BroadcastOK
      <4> QED
        BY <1>1, <3>1, <3>2, <3>4, <4>1, <4>2, GotThen
    <3> QED
      BY <1>1, <3>3, <3>4, InboxMoves
  <2>4. CauseOK'
    <3> SUFFICES ASSUME call'.stage = "catch", call.fallback.type = "chat_failed"
                 PROVE  call.fd \in left \/ Audience(call.fd) \cap left # {}
      BY <1>1, <2>1 DEF CauseOK, Audience
    <3>1. SendThrows(call.fd) \/ \E g \in call.rest : SendThrows(g)
      BY <1>1, <1>3, <2>1 DEF Speaking, SendCopy, SendReply, SendFallback, FallBack, Die, Call
    <3>2. arrived[call.fd] # 0 /\ call.fd \in Conns
      BY <1>1 DEF ChatInv, CallOK, TypeInv, StreamInv, Stream!TypeOK, Call
    <3>3. ASSUME NEW g \in call.rest, SendThrows(g) PROVE Audience(call.fd) \cap left # {}
      <4>1. g \in Audience(call.fd) /\ g \in DOMAIN fd_to_id /\ g \in Conns
        BY <1>1 DEF ChatInv, BroadcastOK, Audience, Call
      <4>2. arrived[g] # 0
        BY <1>1, <4>1 DEF TypeInv, MembersAuthenticated
      <4> QED
        BY <1>1, <3>3, <4>1, <4>2, ThrowsForTheGone
    <3> QED
      BY <1>1, <3>1, <3>2, <3>3, ThrowsForTheGone
  <2> QED
    BY <2>2, <2>3, <2>4
<1> QED
  BY <1>2, <1>3

LEMMA ChatInvariance == Spec => []ChatInv
<1>1. Init => BroadcastOK /\ ReachedOK /\ CauseOK
  BY DEF Init, BroadcastOK, ReachedOK, CauseOK
<1>2. ChatInv /\ [Next]_vars => BroadcastOK' /\ ReachedOK' /\ CauseOK'
  <2> SUFFICES ASSUME ChatInv, [Next]_vars PROVE BroadcastOK' /\ ReachedOK' /\ CauseOK'
    OBVIOUS
  <2>1. CASE UNCHANGED <<handler_vars, inbox>> /\ StreamMove
    <3>1. UNCHANGED <<database, fd_to_id, call, inbox>> /\ left \subseteq left'
      BY <2>1 DEF handler_vars, StreamMove, HangUp, Leave, Ask, peer_vars
    <3> QED
      BY <3>1 DEF ChatInv, BroadcastOK, ReachedOK, CauseOK, Audience, Got
  <2>2. CASE \E f \in Conns : Disconnect(f)
    BY <2>2 DEF Disconnect, BroadcastOK, ReachedOK, CauseOK
  <2> QED
    BY <2>1, <2>2, QuietOrNot, AnsweringChatInv, SendingChatInv
<1> QED
  BY <1>1, <1>2, TypeInvariance, CallInvariance, PTL DEF Spec, ChatInv

(* A chat reaches members only, from members only, under the name of the   *)
(* account its sender is logged in to.                                     *)
THEOREM ChatsAreBetweenMembers == Spec => ChatIsBetweenMembers
<1>1. ASSUME ChatInv, [Next]_vars, NEW g \in Conns,
             Len(inbox'[g]) > Len(inbox[g]), inbox'[g][Len(inbox'[g])].type = "chat"
      PROVE  LET m == inbox'[g][Len(inbox'[g])]
             IN  /\ {g, m.from} \subseteq DOMAIN fd_to_id /\ g # m.from
                 /\ m.name = database[fd_to_id[m.from]]
  <2>1. /\ inbox[g] \in Seq(Message) /\ inbox \in [Conns -> Seq(Message)]
        /\ TypeInv /\ CallOK /\ BroadcastOK /\ Len(inbox[g]) \in Nat
    BY <1>1 DEF ChatInv, TypeInv
  <2>2. PICK h \in Conns, m \in Message : Speaking /\ Delivery(h, m)
    BY <1>1, <2>1, InboxMoves
  <2>3. g = h /\ inbox'[g] = Append(inbox[g], m)
    BY <1>1, <2>1, <2>2 DEF Delivery
  <2>4. m = inbox'[g][Len(inbox'[g])] /\ m.type = "chat"
    BY <1>1, <2>1, <2>3
  <2>5. call # Idle
    BY <2>1, <2>2, SendingCall
  <2>6. g \in call.rest /\ m = call.copy
    BY <2>1, <2>2, <2>3, <2>4, <2>5 DEF Delivery, CallOK, Answers, Failures
  <2> QED
    BY <2>1, <2>4, <2>5, <2>6 DEF BroadcastOK, Audience
<1>2. ChatInv /\ [Next]_vars =>
        [\A g \in Conns :
           Len(inbox'[g]) > Len(inbox[g]) /\ inbox'[g][Len(inbox'[g])].type = "chat" =>
             LET m == inbox'[g][Len(inbox'[g])]
             IN  /\ {g, m.from} \subseteq DOMAIN fd_to_id /\ g # m.from
                 /\ m.name = database[fd_to_id[m.from]]]_vars
  BY <1>1
<1> QED
  BY <1>2, ChatInvariance, PTL DEF Spec, ChatIsBetweenMembers

(* The answer a client is newly told of is what its handler has just sent. *)
LEMMA NewlyTold ==
  ASSUME ChatInv, [Next]_vars, NEW f \in Conns, NEW n,
         NEW type \in {"chat_success", "chat_failed"},
         Got(f, type, f, n)', ~Got(f, type, f, n)
  PROVE  /\ call # Idle /\ f = call.fd /\ n = call.n /\ f \notin left
         /\ \/ call.stage = "try" /\ call.rest = {} /\ call.reply.type = type
            \/ call.stage = "catch" /\ call.fallback.type = type
<1>1. TypeInv /\ CallOK /\ BroadcastOK
  BY DEF ChatInv
<1>2. inbox' # inbox
  BY DEF Got
<1>3. PICK h \in Conns, m \in Message : Speaking /\ Delivery(h, m)
  BY <1>1, <1>2, InboxMoves
<1>4. f = h /\ m.type = type /\ m.from = f /\ m.n = n
  BY <1>1, <1>3, GotThen
<1>5. call # Idle
  BY <1>1, <1>3, SendingCall
<1> QED
  BY <1>1, <1>3, <1>4, <1>5 DEF Delivery, CallOK, Answers, BroadcastOK

(* When a client is told that its chat was sent, every other member had it *)
(* or is about to be disconnected.                                         *)
THEOREM SuccessesReachAll == Spec => SuccessReachesAll
<1>1. ASSUME ChatInv, [Next]_vars, NEW f \in Conns, NEW n \in 1 .. arrived[f],
             Got(f, "chat_success", f, n)', ~Got(f, "chat_success", f, n)
      PROVE  \A g \in DOMAIN fd_to_id \ {f} : g \in left \/ Got(g, "chat", f, n)
  <2>1. /\ call # Idle /\ f = call.fd /\ n = call.n
        /\ \/ call.stage = "try" /\ call.rest = {} /\ call.reply.type = "chat_success"
           \/ call.stage = "catch" /\ call.fallback.type = "chat_success"
    BY <1>1, NewlyTold
  <2>2. call.fallback.type # "chat_success"
    BY <1>1, <2>1 DEF ChatInv, CallOK, Failures
  <2> QED
    BY <1>1, <2>1, <2>2 DEF ChatInv, ReachedOK, Audience
<1>2. ChatInv /\ [Next]_vars =>
        [\A f \in Conns : \A n \in 1 .. arrived[f] :
           Got(f, "chat_success", f, n)' /\ ~Got(f, "chat_success", f, n) =>
             \A g \in DOMAIN fd_to_id \ {f} : g \in left \/ Got(g, "chat", f, n)]_vars
  BY <1>1
<1> QED
  BY <1>2, ChatInvariance, PTL DEF Spec, SuccessReachesAll

(* A member is told that its chat failed only if another member had left.  *)
THEOREM FailuresHaveACause == Spec => FailureHasACause
<1>1. ASSUME ChatInv, [Next]_vars, NEW f \in Conns, NEW n \in 1 .. arrived[f],
             Got(f, "chat_failed", f, n)', ~Got(f, "chat_failed", f, n)
      PROVE  f \notin DOMAIN fd_to_id \/ Audience(f) \cap left # {}
  <2>1. /\ call # Idle /\ f = call.fd /\ f \notin left
        /\ \/ call.stage = "try" /\ call.rest = {} /\ call.reply.type = "chat_failed"
           \/ call.stage = "catch" /\ call.fallback.type = "chat_failed"
    BY <1>1, NewlyTold
  <2> QED
    BY <1>1, <2>1 DEF ChatInv, CallOK, CauseOK
<1>2. ChatInv /\ [Next]_vars =>
        [\A f \in Conns : \A n \in 1 .. arrived[f] :
           Got(f, "chat_failed", f, n)' /\ ~Got(f, "chat_failed", f, n) =>
             f \notin DOMAIN fd_to_id \/ Audience(f) \cap left # {}]_vars
  BY <1>1
<1> QED
  BY <1>2, ChatInvariance, PTL DEF Spec, FailureHasACause

-----------------------------------------------------------------------------
(* Registrations.  An id that someone was told is in the database, so the  *)
(* next one, which is not, is another.                                     *)

Told(f, i) == inbox[f][i].type = "register_success"

IdsKnown ==
  /\ \A f \in Conns : \A i \in 1 .. Len(inbox[f]) :
       Told(f, i) => inbox[f][i].id \in DOMAIN database
  /\ call # Idle /\ call.reply.type = "register_success" =>
       /\ call.reply.id \in DOMAIN database
       /\ \A f \in Conns : \A i \in 1 .. Len(inbox[f]) :
            Told(f, i) => inbox[f][i].id # call.reply.id

LEMMA NotRegistered ==
  ASSUME TypeInv, NEW f \in Conns, Answering(f), UNCHANGED database
  PROVE  call'.reply.type # "register_success"
<1>1. CASE Register(f)
  <2>1. CASE Catch(f, "register_failed")
    BY <2>1 DEF Catch, Outside, Reply
  <2>2. CASE DB!AddData(request[f][NextEvent(f)].user)
    <3>1. request[f][NextEvent(f)] \in Request /\ request[f][NextEvent(f)].type = "register"
      BY <1>1, NextRequest DEF Register, Begins, TypeInv
    <3>2. request[f][NextEvent(f)].user \in Users
      BY <3>1 DEF Request
    <3> QED
      BY <2>2, <3>2, NewAccount DEF TypeInv
  <2> QED
    BY <1>1, <2>1, <2>2 DEF Register
<1>2. CASE Login(f)
  BY <1>2 DEF Login, Try, Reply
<1>3. CASE Chat(f)
  BY <1>3 DEF Chat, Try, Catch, Outside, Reply
<1>4. CASE Straying(f)
  BY <1>4 DEF Straying, CutRegister, BadLogin, Outside, Reply
<1> QED
  BY <1>1, <1>2, <1>3, <1>4 DEF Answering

LEMMA IdsStep ==
  ChatInv /\ IdsKnown /\ IdsAreDistinct /\ [Next]_vars => IdsKnown' /\ IdsAreDistinct'
<1> SUFFICES ASSUME ChatInv, IdsKnown, IdsAreDistinct, [Next]_vars
             PROVE  IdsKnown' /\ IdsAreDistinct'
  OBVIOUS
<1>1. TypeInv /\ CallOK /\ BroadcastOK /\ inbox \in [Conns -> Seq(Message)]
  BY DEF ChatInv, TypeInv
<1>2. CASE UNCHANGED <<handler_vars, inbox>>
  BY <1>2 DEF IdsKnown, IdsAreDistinct, Told, handler_vars
<1>3. ASSUME NEW f \in Conns, Disconnect(f) PROVE IdsKnown' /\ IdsAreDistinct'
  BY <1>3 DEF Disconnect, peer_vars, IdsKnown, IdsAreDistinct, Told
<1>4. ASSUME NEW f \in Conns, Answering(f) PROVE IdsKnown' /\ IdsAreDistinct'
  <2>1. inbox' = inbox
    BY <1>1, <1>4, AnsweringCall DEF peer_vars
  <2>2. CASE Register(f) /\ database' # database
    <3> DEFINE id == DB!NextId(database)
    <3>1. id \notin DOMAIN database /\ DOMAIN database' = DOMAIN database \cup {id}
      <4>1. request[f][NextEvent(f)] \in Request /\ request[f][NextEvent(f)].type = "register"
        BY <1>1, <2>2, NextRequest DEF Register, Begins, TypeInv
      <4>2. request[f][NextEvent(f)].user \in Users
        BY <4>1 DEF Request
      <4> QED
        BY <1>1, <2>2, <4>2, NewAccount DEF Register, TypeInv
    <3>2. call'.reply.id = id
      BY <2>2 DEF Register, Try
    <3> HIDE DEF id
    <3> QED
      BY <2>1, <3>1, <3>2 DEF IdsKnown, IdsAreDistinct, Told
  <2>3. CASE database' = database
    <3>1. call'.reply.type # "register_success"
      BY <1>1, <1>4, <2>3, NotRegistered
    <3> QED
      BY <2>1, <2>3, <3>1 DEF IdsKnown, IdsAreDistinct, Told
  <2> QED
    BY <1>4, <2>2, <2>3 DEF Answering, Straying, CutRegister, Login, BadLogin, Chat
<1>5. CASE Speaking
  <2>1. /\ UNCHANGED database /\ call # Idle
        /\ call' # Idle => call'.reply = call.reply
    BY <1>1, <1>5, SendingCall
  <2>2. CASE inbox' = inbox
    BY <2>1, <2>2 DEF IdsKnown, IdsAreDistinct, Told
  <2>3. ASSUME NEW g \in Conns, NEW m \in Message, Delivery(g, m)
        PROVE  IdsKnown' /\ IdsAreDistinct'
    <3>1. /\ inbox' = [inbox EXCEPT ![g] = Append(@, m)]
          /\ \A f \in Conns : inbox[f] \in Seq(Message)
      BY <1>1, <2>3 DEF Delivery
    <3>2. \A f \in Conns : \A i \in 1 .. Len(inbox'[f]) :
            \/ i \in 1 .. Len(inbox[f]) /\ inbox'[f][i] = inbox[f][i]
            \/ f = g /\ i = Len(inbox[f]) + 1 /\ inbox'[f][i] = m
      BY <1>1, <3>1
    <3>3. m.type = "register_success" => m = call.reply /\ call' = Idle
      BY <1>1, <2>1, <2>3 DEF Delivery, CallOK, BroadcastOK, Failures
    <3>4. call' # Idle => m.type # "register_success"
      BY <1>1, <2>1, <2>3 DEF Delivery, BroadcastOK
    <3>5. IdsKnown'
      BY <2>1, <3>2, <3>3, <3>4 DEF IdsKnown, Told
    <3>6. IdsAreDistinct'
      <4> SUFFICES ASSUME NEW e \in Conns, NEW f \in Conns,
                          NEW i \in 1 .. Len(inbox'[e]), NEW j \in 1 .. Len(inbox'[f]),
                          inbox'[e][i].type = "register_success",
                          inbox'[f][j].type = "register_success",
                          inbox'[e][i].id = inbox'[f][j].id
                   PROVE  e = f /\ i = j
        BY DEF IdsAreDistinct
      <4>1. CASE i \in 1 .. Len(inbox[e]) /\ j \in 1 .. Len(inbox[f])
        BY <3>1, <3>2, <4>1 DEF IdsAreDistinct
      <4>2. CASE i \notin 1 .. Len(inbox[e]) /\ j \notin 1 .. Len(inbox[f])
        BY <3>2, <4>2
      <4>3. CASE i \in 1 .. Len(inbox[e]) /\ j \notin 1 .. Len(inbox[f])
        <5>1. inbox'[f][j] = m /\ inbox'[e][i] = inbox[e][i]
          BY <3>1, <3>2, <4>3
        <5> QED
          BY <2>1, <3>3, <4>3, <5>1 DEF IdsKnown, Told
      <4>4. CASE i \notin 1 .. Len(inbox[e]) /\ j \in 1 .. Len(inbox[f])
        <5>1. inbox'[e][i] = m /\ inbox'[f][j] = inbox[f][j]
          BY <3>1, <3>2, <4>4
        <5> QED
          BY <2>1, <3>3, <4>4, <5>1 DEF IdsKnown, Told
      <4> QED
        BY <4>1, <4>2, <4>3, <4>4
    <3> QED
      BY <3>5, <3>6
  <2> QED
    BY <1>1, <2>2, <2>3, InboxMoves
<1> QED
  BY <1>2, <1>3, <1>4, <1>5, QuietOrNot

(* Two registrations are never told the same id.                           *)
THEOREM IdsDistinct == Spec => []IdsAreDistinct
<1>1. Init => IdsKnown /\ IdsAreDistinct
  BY DEF Init, IdsKnown, IdsAreDistinct
<1>2. Spec => [](IdsKnown /\ IdsAreDistinct)
  BY <1>1, IdsStep, ChatInvariance, PTL DEF Spec
<1> QED
  BY <1>2, PTL

(* An account is the data of the registration that made it, under the id   *)
(* that this is told: no other registration meets that id, and it is still *)
(* the account's when the answer is sent.                                  *)

Kept(m, db, asked) ==
  /\ m.id \in DOMAIN db
  /\ m.n \in 1 .. Len(asked[m.from])
  /\ db[m.id] = asked[m.from][m.n].user

TellsKept ==
  /\ \A f \in Conns : \A i \in 1 .. Len(inbox[f]) :
       Told(f, i) => Kept(inbox[f][i], database, request)
  /\ call # Idle /\ call.reply.type = "register_success" =>
       Kept(call.reply, database, request)

(* No step of the server changes or removes an account.                    *)
LEMMA AccountsStay ==
  ASSUME TypeInv, [Next]_vars, NEW id \in DOMAIN database
  PROVE  id \in DOMAIN database' /\ database'[id] = database[id]
<1>1. CASE UNCHANGED database
  BY <1>1
<1>2. ASSUME NEW f \in Conns, Register(f), ~UNCHANGED database
      PROVE  id \in DOMAIN database' /\ database'[id] = database[id]
  <2>1. request[f][NextEvent(f)] \in Request /\ request[f][NextEvent(f)].type = "register"
    BY <1>2, NextRequest DEF Register, Begins, TypeInv
  <2>2. request[f][NextEvent(f)].user \in Users
    BY <2>1 DEF Request
  <2> QED
    BY <1>2, <2>2, NewAccount DEF Register, TypeInv
<1>3. ASSUME NEW f \in Conns, Answering(f), ~Register(f) PROVE UNCHANGED database
  BY <1>3 DEF Answering, Straying, CutRegister, Login, BadLogin, Chat
<1>4. (\E f \in Conns : Disconnect(f)) => UNCHANGED database
  BY DEF Disconnect
<1>5. Speaking => UNCHANGED database
  BY SendingCall
<1> QED
  BY <1>1, <1>2, <1>3, <1>4, <1>5, QuietOrNot DEF handler_vars

LEMMA KeptStays ==
  ASSUME TypeInv, [Next]_vars, NEW m, m.from \in Conns, Kept(m, database, request)
  PROVE  Kept(m, database', request')
<1>1. /\ Len(request[m.from]) = arrived[m.from] /\ Len(request'[m.from]) = arrived'[m.from]
      /\ StreamInv /\ StreamMove
  BY NextMoves, MovesKeepStream DEF TypeInv, StreamInv, EventsOK
<1>2. m.n \in 1 .. arrived'[m.from] /\ request'[m.from][m.n] = request[m.from][m.n]
  BY <1>1, RequestsStay DEF Kept
<1>3. m.id \in DOMAIN database' /\ database'[m.id] = database[m.id]
  BY AccountsStay DEF Kept
<1> QED
  BY <1>1, <1>2, <1>3 DEF Kept

LEMMA TellsKeptStep == ChatInv /\ TellsKept /\ [Next]_vars => TellsKept'
<1> SUFFICES ASSUME ChatInv, TellsKept, [Next]_vars PROVE TellsKept'
  OBVIOUS
<1>1. TypeInv /\ CallOK /\ BroadcastOK
  BY DEF ChatInv
<1>2. ASSUME NEW f \in Conns, NEW i \in 1 .. Len(inbox[f]), Told(f, i)
      PROVE  Kept(inbox[f][i], database', request')
  <2>1. inbox[f][i] \in Message
    BY <1>1 DEF TypeInv
  <2>2. inbox[f][i].from \in Conns /\ Kept(inbox[f][i], database, request)
    BY <1>2, <2>1 DEF Message, TellsKept
  <2> QED
    BY <1>1, <2>2, KeptStays
<1>3. ASSUME call # Idle, call.reply.type = "register_success"
      PROVE  Kept(call.reply, database', request')
  <2>1. call.reply \in Message
    BY <1>1, <1>3 DEF TypeInv, Call
  <2>2. call.reply.from \in Conns /\ Kept(call.reply, database, request)
    BY <1>3, <2>1 DEF Message, TellsKept
  <2> QED
    BY <1>1, <2>2, KeptStays
<1>4. CASE inbox' = inbox /\ (call' = call \/ call' = Idle)
  BY <1>2, <1>3, <1>4 DEF TellsKept, Told
<1>5. ASSUME NEW f \in Conns, Answering(f) PROVE TellsKept'
  <2>1. inbox' = inbox /\ request' = request
    BY <1>1, <1>5, AnsweringCall DEF peer_vars
  <2>2. call'.reply.type = "register_success" => Kept(call'.reply, database', request')
    <3>1. CASE database' = database
      BY <1>1, <1>5, <3>1, NotRegistered
    <3>2. CASE Register(f) /\ database' # database
      <4> DEFINE n == NextEvent(f)
                 id == DB!NextId(database)
      <4>1. /\ request[f][n] \in Request /\ request[f][n].type = "register"
            /\ n \in 1 .. Len(request[f])
        BY <1>1, <3>2, NextRequest DEF Register, Begins, TypeInv, StreamInv, EventsOK
      <4>2. request[f][n].user \in Users /\ DB!AddData(request[f][n].user)
        BY <3>2, <4>1 DEF Register, Request
      <4>3. id \in DOMAIN database' /\ database'[id] = request[f][n].user
        BY <1>1, <4>2, NewAccount DEF TypeInv
      <4>4. call'.reply = [type |-> "register_success", from |-> f, n |-> n, id |-> id]
        BY <3>2 DEF Register, Try
      <4> HIDE DEF n, id
      <4> QED
        BY <2>1, <4>1, <4>3, <4>4 DEF Kept
    <3> QED
      BY <1>5, <3>1, <3>2 DEF Answering, Straying, CutRegister, Login, BadLogin, Chat
  <2> QED
    BY <1>2, <2>1, <2>2 DEF TellsKept, Told
<1>6. CASE Speaking
  <2>1. call # Idle /\ (call' # Idle => call'.reply = call.reply)
    BY <1>1, <1>6, SendingCall
  <2>2. ASSUME NEW f \in Conns, NEW i \in 1 .. Len(inbox'[f]), Told(f, i)'
        PROVE  Kept(inbox'[f][i], database', request')
    <3>1. CASE i \in 1 .. Len(inbox[f])
      <4>1. inbox'[f][i] = inbox[f][i]
        BY <1>1, <3>1, InboxThen
      <4> QED
        BY <1>2, <2>2, <3>1, <4>1 DEF Told
    <3>2. CASE i \notin 1 .. Len(inbox[f])
      <4>1. Delivery(f, inbox'[f][i])
        BY <1>1, <2>2, <3>2, InboxThen
      <4>2. inbox'[f][i] = call.reply /\ call.reply.type = "register_success"
        BY <1>1, <2>1, <2>2, <4>1 DEF Delivery, CallOK, BroadcastOK, Failures, Told
      <4> QED
        BY <1>3, <2>1, <4>2
    <3> QED
      BY <3>1, <3>2
  <2> QED
    BY <1>3, <2>1, <2>2 DEF TellsKept
<1> QED
  BY <1>4, <1>5, <1>6, QuietOrNot DEF handler_vars, Disconnect, peer_vars

(* Whoever was told that it is registered has an account under the id that *)
(* it was told, with the data that it sent.                                *)
THEOREM RegistrationsKept == Spec => []RegistrationsAreKept
<1>1. Init => TellsKept
  BY DEF Init, TellsKept
<1>2. Spec => []TellsKept
  BY <1>1, TellsKeptStep, ChatInvariance, PTL DEF Spec
<1>3. TellsKept => RegistrationsAreKept
  BY DEF TellsKept, RegistrationsAreKept, Kept, Told
<1> QED
  BY <1>2, <1>3, PTL

-----------------------------------------------------------------------------
(* Answers.  A reply is to a request that was handled, so that the one at  *)
(* work and those in the pipe have none yet; and what was handled, has one.*)

IsReply(f, i) == inbox[f][i].type # "chat" /\ inbox[f][i].from = f

RepliesOK ==
  /\ \A f \in Conns : \A i \in 1 .. Len(inbox[f]) :
       IsReply(f, i) => Handled(f, inbox[f][i].n)
  /\ \A f \in Conns : \A i, j \in 1 .. Len(inbox[f]) :
       IsReply(f, i) /\ IsReply(f, j) /\ inbox[f][i].n = inbox[f][j].n => i = j

AllAnswered ==
  \A f \in Conns : \A n \in 1 .. arrived[f] :
    Handled(f, n) /\ f \notin left /\ request[f][n].type # "invalid" => RepliesTo(f, n) # {}

(* Only a handler takes an event.                                          *)
LEMMA TakenByHandler ==
  ASSUME TypeInv, [Next]_vars, NEW f \in Conns, Stream!Handle(f)
  PROVE  Handler(f)
<1>1. /\ pipe \in [Conns -> Seq(0 .. MaxChunks)] /\ pipe[f] \in Seq(0 .. MaxChunks)
      /\ pipe[f] # <<>> /\ pipe'[f] = Tail(pipe[f])
  BY DEF TypeInv, StreamInv, Stream!TypeOK, Stream!Handle
<1>2. Len(pipe'[f]) < Len(pipe[f]) /\ Len(pipe[f]) \in Nat
  BY <1>1
<1>3. ASSUME NEW g \in Conns, Peer(g) PROVE FALSE
  <2>1. pipe'[f] = pipe[f] \/ \E e : pipe'[f] = Append(pipe[f], e)
    BY <1>1, <1>3 DEF Peer, Connect, Ask, Leave, HangUp, stream_vars,
       Stream!Connect, Stream!Arrive, Stream!HangUp, Stream!QueueEof
  <2> QED
    BY <1>1, <1>2, <2>1
<1>4. ASSUME NEW g \in Conns, Handler(g), g # f PROVE FALSE
  <2>1. pipe' = [pipe EXCEPT ![g] = Tail(@)]
    BY <1>4, HandlerTakes DEF Stream!Handle
  <2> QED
    BY <1>1, <1>2, <1>4, <2>1
<1>5. ~Speaking /\ ~Unwind /\ ~UNCHANGED vars
  BY <1>2, SendingCall DEF Unwind, Stream!Stop, vars, stream_vars
<1> QED
  BY <1>3, <1>4, <1>5 DEF Next, Sending, Speaking

(* What is not pending any more was not before, or has just been taken.    *)
LEMMA NewlyTaken ==
  ASSUME StreamInv, StreamMove, NEW f \in Conns, NEW n \in 1 .. arrived'[f], ~Pending(f, n)'
  PROVE  \/ n \in 1 .. arrived[f] /\ ~Pending(f, n)
         \/ Stream!Handle(f) /\ n = NextEvent(f)
<1>1. /\ pipe \in [Conns -> Seq(0 .. MaxChunks)] /\ pipe[f] \in Seq(0 .. MaxChunks)
      /\ arrived \in [Conns -> 0 .. MaxChunks] /\ arrived[f] \in Nat
  BY RequestsAssumption DEF StreamInv, Stream!TypeOK
<1>2. CASE n \in 1 .. arrived[f]
  <2> SUFFICES ASSUME NEW i \in 1 .. Len(pipe[f]), pipe[f][i] = n
               PROVE  Stream!Handle(f) /\ n = NextEvent(f)
    BY <1>2 DEF Pending
  <2>1. CASE pipe'[f] = pipe[f]
    BY <2>1 DEF Pending
  <2>2. ASSUME NEW e, pipe'[f] = Append(pipe[f], e) PROVE FALSE
    <3>1. i \in 1 .. Len(pipe'[f]) /\ pipe'[f][i] = n
      BY <1>1, <2>2
    <3> QED
      BY <3>1 DEF Pending
  <2>3. CASE Stream!Handle(f) /\ pipe'[f] = Tail(pipe[f])
    <3>1. CASE i = 1
      BY <1>1, <2>3, <3>1 DEF NextEvent
    <3>2. CASE i # 1
      <4>1. i - 1 \in 1 .. Len(pipe'[f]) /\ pipe'[f][i - 1] = n
        BY <1>1, <2>3, <3>2 DEF Stream!Handle
      <4> QED
        BY <4>1 DEF Pending
    <3> QED
      BY <3>1, <3>2
  <2> QED
    BY <2>1, <2>2, <2>3, PipeMoves
<1>3. CASE n \notin 1 .. arrived[f]
  <2>1. PICK g \in Conns, r \in Request : Ask(g, r)
    BY <1>3 DEF StreamMove, HangUp, Leave, stream_vars, peer_vars, Stream!HangUp,
       Stream!QueueEof, Stream!Connect, Stream!Handle, Stream!Stop
  <2>2. f = g /\ arrived'[f] = arrived[f] + 1 /\ pipe'[f] = Append(pipe[f], arrived[f] + 1)
    BY <1>1, <1>3, <2>1 DEF Ask, Stream!Arrive
  <2>3. n = arrived[f] + 1
    BY <1>1, <1>3, <2>2
  <2>4. Len(pipe[f]) + 1 \in 1 .. Len(pipe'[f]) /\ pipe'[f][Len(pipe[f]) + 1] = n
    BY <1>1, <2>2, <2>3
  <2> QED
    BY <2>4 DEF Pending
<1> QED
  BY <1>2, <1>3

(* What was handled stays so.                                              *)
LEMMA HandledStays ==
  ASSUME TypeInv, [Next]_vars, NEW f \in Conns, NEW n \in Nat \ {0}, Handled(f, n)
  PROVE  Handled(f, n)'
<1>1. n \in 1 .. arrived[f] /\ ~Pending(f, n)
  BY DEF Handled, Pending, TypeInv, StreamInv, Stream!TypeOK
<1>2. StreamMove /\ StreamInv
  BY NextMoves DEF TypeInv
<1>3. ~Pending(f, n)' /\ n <= arrived'[f]
  BY <1>1, <1>2, NotPendingAgain, RequestsStay
<1>4. (call = Idle \/ call.fd # f \/ call.n # n)'
  <2>1. CASE UNCHANGED <<handler_vars, inbox>>
    BY <2>1 DEF Handled, handler_vars
  <2>2. ASSUME NEW g \in Conns, Disconnect(g) PROVE call' = Idle
    BY <2>2 DEF Disconnect
  <2>3. ASSUME NEW g \in Conns, Answering(g) PROVE call'.fd # f \/ call'.n # n
    <3>1. call'.fd = g /\ call'.n = NextEvent(g) /\ Stream!Handle(g)
      BY <2>3, AnsweringCall
    <3>2. 1 \in 1 .. Len(pipe[g]) /\ NextEvent(g) = pipe[g][1]
      BY <3>1 DEF Stream!Handle, NextEvent, TypeInv, StreamInv, Stream!TypeOK
    <3> QED
      BY <1>1, <3>1, <3>2 DEF Pending
  <2>4. Speaking => call # Idle /\ (call' = Idle \/ (call'.fd = call.fd /\ call'.n = call.n))
    BY SendingCall
  <2> QED
    BY <2>1, <2>2, <2>3, <2>4, QuietOrNot DEF Handled
<1> QED
  BY <1>3, <1>4 DEF Handled, Pending

(* A reply that is new answers the request at work, and that is all of it. *)
LEMMA NewReply ==
  ASSUME ChatInv, Speaking, NEW f \in Conns, NEW m, Delivery(f, m), m.type # "chat"
  PROVE  /\ call # Idle /\ call' = Idle /\ f = call.fd
         /\ m.from = f /\ m.n = call.n /\ call.n \in 1 .. arrived[f] /\ ~Pending(f, call.n)
<1>1. call # Idle /\ TypeInv /\ CallOK /\ BroadcastOK
  BY SendingCall DEF ChatInv
<1> QED
  BY <1>1 DEF Delivery, CallOK, BroadcastOK, Answers

LEMMA OldOrNewReply ==
  ASSUME ChatInv, [Next]_vars, NEW f \in Conns, NEW i \in 1 .. Len(inbox'[f]), IsReply(f, i)'
  PROVE  \/ i \in 1 .. Len(inbox[f]) /\ IsReply(f, i) /\ inbox'[f][i] = inbox[f][i]
         \/ /\ i = Len(inbox[f]) + 1 /\ call # Idle /\ call' = Idle /\ f = call.fd
            /\ inbox'[f][i].n = call.n /\ call.n \in 1 .. arrived[f] /\ ~Pending(f, call.n)
<1>1. /\ \A k \in 1 .. Len(inbox[f]) : k \in 1 .. Len(inbox'[f]) /\ inbox'[f][k] = inbox[f][k]
      /\ \/ Len(inbox'[f]) = Len(inbox[f])
         \/ /\ Len(inbox'[f]) = Len(inbox[f]) + 1
            /\ Speaking /\ Delivery(f, inbox'[f][Len(inbox[f]) + 1])
      /\ Len(inbox[f]) \in Nat
  BY InboxThen DEF ChatInv
<1>2. CASE i \in 1 .. Len(inbox[f])
  BY <1>1, <1>2 DEF IsReply
<1>3. CASE i \notin 1 .. Len(inbox[f])
  <2>1. i = Len(inbox[f]) + 1 /\ Speaking /\ Delivery(f, inbox'[f][i])
    BY <1>1, <1>3
  <2> QED
    BY <2>1, NewReply DEF IsReply
<1> QED
  BY <1>2, <1>3

LEMMA RepliesStep == ChatInv /\ RepliesOK /\ [Next]_vars => RepliesOK'
<1> SUFFICES ASSUME ChatInv, RepliesOK, [Next]_vars PROVE RepliesOK'
  OBVIOUS
<1>1. StreamMove /\ TypeInv /\ StreamInv
  BY NextMoves DEF ChatInv, TypeInv
<1>2. ASSUME NEW f \in Conns, NEW i \in 1 .. Len(inbox'[f]), IsReply(f, i)',
             NEW n, n = inbox'[f][i].n
      PROVE  Handled(f, n)'
  <2>1. CASE i \in 1 .. Len(inbox[f]) /\ IsReply(f, i) /\ inbox'[f][i] = inbox[f][i]
    <3>1. Handled(f, n)
      BY <1>2, <2>1 DEF RepliesOK
    <3>2. inbox[f] \in Seq(Message)
      BY <1>1 DEF TypeInv
    <3>3. inbox[f][i] \in Message
      BY <2>1, <3>2
    <3>4. n \in 1 .. MaxChunks
      BY <1>2, <2>1, <3>3 DEF Message
    <3>5. n \in Nat \ {0}
      BY <3>4
    <3> QED
      BY <1>1, <3>1, <3>5, HandledStays
  <2>2. CASE call' = Idle /\ n \in 1 .. arrived[f] /\ ~Pending(f, n)
    <3>1. ~Pending(f, n)' /\ n <= arrived'[f]
      BY <1>1, <2>2, NotPendingAgain, RequestsStay
    <3> QED
      BY <2>2, <3>1 DEF Handled, Pending
  <2> QED
    BY <1>2, <2>1, <2>2, OldOrNewReply
<1>3. ASSUME NEW f \in Conns, NEW i \in 1 .. Len(inbox'[f]), NEW j \in 1 .. Len(inbox'[f]),
             IsReply(f, i)', IsReply(f, j)', inbox'[f][i].n = inbox'[f][j].n
      PROVE  i = j
  <2> DEFINE Old(k) == k \in 1 .. Len(inbox[f]) /\ IsReply(f, k) /\ inbox'[f][k] = inbox[f][k]
             New(k) == /\ k = Len(inbox[f]) + 1 /\ call # Idle /\ f = call.fd
                       /\ inbox'[f][k].n = call.n
  <2>1. \A k \in {i, j} : Old(k) \/ New(k)
    BY <1>3, OldOrNewReply
  <2>2. \A k : Old(k) => inbox'[f][k].n # call.n \/ call = Idle \/ f # call.fd
    BY DEF RepliesOK, Handled
  <2>3. Old(i) /\ Old(j) => i = j
    BY <1>3 DEF RepliesOK
  <2> QED
    BY <1>3, <2>1, <2>2, <2>3
<1> QED
  BY <1>2, <1>3 DEF RepliesOK, Handled

(* The handler at work goes idle only with its reply sent.                 *)
LEMMA IdleAfterReply ==
  ASSUME ChatInv, [Next]_vars, call # Idle, call' = Idle, call.fd \notin left
  PROVE  \E i \in 1 .. Len(inbox'[call.fd]) :
           Answers(inbox'[call.fd][i], call.fd, call.n)
<1>1. Speaking
  BY QuietOrNot, AnsweringCall DEF handler_vars, Disconnect, ChatInv
<1>2. call \in Call /\ TypeInv /\ CallOK
  BY <1>1, SendingCall DEF ChatInv
<1>3. \E m \in {call.reply, call.fallback} : inbox' = [inbox EXCEPT ![call.fd] = Append(@, m)]
  <2>1. \A S : [call EXCEPT !.rest = S] # Idle
    BY <1>2 DEF Call, Idle
  <2>2. \A stage \in {"catch", "escaped", "killed"} : [call EXCEPT !.stage = stage] # Idle
    BY <1>2 DEF Call, Idle
  <2> QED
    BY <1>1, <2>1, <2>2 DEF Speaking, SendCopy, SendReply, SendFallback, FallBack, Die, Sends
<1>4. PICK m \in {call.reply, call.fallback} : inbox' = [inbox EXCEPT ![call.fd] = Append(@, m)]
  BY <1>3
<1>5. call.fd \in Conns /\ inbox \in [Conns -> Seq(Message)] /\ inbox[call.fd] \in Seq(Message)
  BY <1>2 DEF Call, TypeInv
<1>6. inbox'[call.fd] = Append(inbox[call.fd], m)
  BY <1>4, <1>5
<1>7. /\ Len(inbox[call.fd]) + 1 \in 1 .. Len(inbox'[call.fd])
      /\ inbox'[call.fd][Len(inbox[call.fd]) + 1] = m
  BY <1>5, <1>6
<1>8. Answers(m, call.fd, call.n)
  BY <1>2, <1>4 DEF CallOK
<1> QED
  BY <1>7, <1>8

LEMMA AllAnsweredStep == ChatInv /\ AllAnswered /\ [Next]_vars => AllAnswered'
<1> SUFFICES ASSUME ChatInv, AllAnswered, [Next]_vars,
                    NEW f \in Conns, NEW n \in 1 .. arrived'[f],
                    Handled(f, n)', f \notin left', request'[f][n].type # "invalid"
             PROVE  RepliesTo(f, n)' # {}
  BY DEF AllAnswered
<1>1. StreamMove /\ TypeInv /\ StreamInv /\ f \notin left
  BY NextMoves DEF ChatInv, TypeInv, StreamMove, HangUp, Leave, Ask, peer_vars
<1>2. ~Pending(f, n)'
  BY DEF Handled, Pending
<1>3. CASE n \in 1 .. arrived[f] /\ ~Pending(f, n)
  <2>1. request[f][n].type # "invalid"
    BY <1>1, <1>3, RequestsStay
  <2>2. CASE call # Idle /\ call.fd = f /\ call.n = n
    <3>1. call' = Idle
      <4>1. call' # call
        BY <2>2 DEF Handled
      <4>2. Speaking
        BY <1>1, <2>2, <4>1, QuietOrNot, AnsweringCall DEF handler_vars, Disconnect
      <4> QED
        BY <1>1, <2>2, <4>2, SendingCall DEF Handled
    <3> QED
      BY <1>1, <2>2, <3>1, IdleAfterReply DEF RepliesTo, Answers
  <2>3. CASE call = Idle \/ call.fd # f \/ call.n # n
    <3>1. Handled(f, n)
      BY <1>3, <2>3 DEF Handled, Pending
    <3>2. PICK i \in 1 .. Len(inbox[f]) : i \in RepliesTo(f, n)
      BY <1>1, <1>3, <2>1, <3>1 DEF AllAnswered, RepliesTo
    <3>3. i \in 1 .. Len(inbox'[f]) /\ inbox'[f][i] = inbox[f][i]
      BY <1>1, <3>2, InboxThen
    <3> QED
      BY <3>2, <3>3 DEF RepliesTo
  <2> QED
    BY <2>2, <2>3
<1>4. CASE Stream!Handle(f) /\ n = NextEvent(f)
  <2>1. Handler(f) /\ request' = request
    BY <1>1, <1>4, TakenByHandler, HandlerTakes DEF peer_vars
  <2>2. ~Disconnect(f)
    BY <1>4 DEF Disconnect, Stream!Eof
  <2>3. ~Invalid(f)
    BY <1>4, <2>1 DEF Invalid, Begins
  <2>4. Answering(f) => call' # Idle /\ call'.fd = f /\ call'.n = n
    BY <1>1, <1>4, AnsweringCall
  <2>5. ~Answering(f)
    BY <2>4 DEF Handled
  <2> QED
    BY <2>1, <2>2, <2>3, <2>5 DEF Handler, Answering, Straying
<1> QED
  BY <1>1, <1>2, <1>3, <1>4, NewlyTaken

LEMMA AnswerInvariance == Spec => [](ChatInv /\ RepliesOK /\ AllAnswered)
<1>1. Init => RepliesOK /\ AllAnswered
  BY DEF Init, RepliesOK, AllAnswered, Stream!Init
<1> QED
  BY <1>1, RepliesStep, AllAnsweredStep, ChatInvariance, PTL DEF Spec

(* No request is answered twice, whatever threw on the way, and a valid    *)
(* request of a client that stays is answered once it is handled.          *)
THEOREM OneReplyEach == Spec => []OneReply
<1>1. ChatInv /\ RepliesOK /\ AllAnswered => OneReply
  <2> SUFFICES ASSUME RepliesOK, AllAnswered, NEW f \in Conns, NEW n \in 1 .. arrived[f]
               PROVE  /\ Cardinality(RepliesTo(f, n)) <= 1
                      /\ Handled(f, n) /\ f \notin left /\ request[f][n].type # "invalid"
                           => RepliesTo(f, n) # {}
    BY DEF OneReply
  <2>1. \A i, j \in RepliesTo(f, n) : i = j
    BY DEF RepliesTo, RepliesOK, IsReply
  <2>2. RepliesTo(f, n) = {} \/ \E i : RepliesTo(f, n) = {i}
    BY <2>1
  <2>3. Cardinality(RepliesTo(f, n)) <= 1
    <3>1. CASE RepliesTo(f, n) = {}
      BY <3>1, FS_EmptySet
    <3>2. ASSUME NEW i, RepliesTo(f, n) = {i} PROVE Cardinality(RepliesTo(f, n)) = 1
      BY <3>2, FS_Singleton
    <3> QED
      BY <2>2, <3>1, <3>2
  <2> QED
    BY <2>3 DEF AllAnswered
<1> QED
  BY <1>1, AnswerInvariance, PTL
=============================================================================
