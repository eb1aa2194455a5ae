-------------------------- MODULE ChatClientProofs --------------------------
(***************************************************************************)
(* Proofs about ChatClient, for any number of chunks, faults and chats.    *)
(* What ClientStreamProofs shows of the stream holds of the client's,      *)
(* because the client is one of the users that ClientStream allows for.    *)
(***************************************************************************)
EXTENDS ChatClient, ClientStreamProofs, FiniteSetTheorems

-----------------------------------------------------------------------------
(* The client's steps are the stream's.                                    *)

OwnerOut == main_pc # "left" => closer_pc[Owner] = "out"

LEMMA Threads == Closers = {UI, Owner} /\ UI # Owner
  BY ActorsAssumption, UserAssumption DEF Closers

LEMMA ClientStepIsStreamStep == OwnerOut /\ [ClientNext]_all_vars => [Next]_vars
<1> SUFFICES ASSUME OwnerOut, [ClientNext]_all_vars PROVE [Next]_vars
  OBVIOUS
<1>1. CASE UNCHANGED all_vars
  BY <1>1 DEF all_vars
<1>2. CASE ClientNext
  <2>1. ~Crashed
    BY <1>2 DEF ClientNext, Down
  <2>2. ASSUME \/ ServerActs \/ SendReaches \/ Kernel \/ Receiver \/ Connect \/ OwnerStep
               \/ \E c \in Closers : ExchangeFinished(c) \/ CloserStep(c)
               \/ UNCHANGED vars
        PROVE  [Next]_vars
    BY <2>1, <2>2 DEF Next
  <2>3. CASE ServerStep \/ Request \/ Chat
    BY <2>2, <2>3 DEF ServerStep, Request, Chat
  <2>4. CASE CallConnect
    BY <2>2, <2>4 DEF CallConnect, Connect, OwnerOut
  <2>5. CASE StreamStep \/ OnConnect \/ Pick \/ OnReveiveEnds
    BY <2>2, <2>5 DEF StreamStep, OnConnect, Pick, OnReveiveEnds, OwnerStep
  <2>6. CASE SetResult \/ Release \/ Show
    BY <2>2, <2>6 DEF SetResult, Release, Show, HandlerGoes
  <2>7. CASE ConnectReturns \/ CatchSetsConnected \/ CatchSetsFailed \/ CatchNotifies \/ Join
    BY <2>2, <2>7 DEF ConnectReturns, CatchSetsConnected, CatchSetsFailed, CatchNotifies, Join,
       MainGoes
  <2>8. CASE DestructorBegins \/ UiEnds
    BY <2>2, <2>8, Threads DEF DestructorBegins, UiEnds
  <2>9. CASE TestHasConnected \/ Sleep \/ TestFailed \/ TakeAnswer \/ ReadResult
    BY <2>2, <2>9 DEF TestHasConnected, Sleep, TestFailed, TakeAnswer, ReadResult
  <2>10. CASE Aborts \/ InputEndsInLine \/ Leave \/ WakeSpuriously
    BY <2>2, <2>10 DEF Aborts, InputEndsInLine, Leave, WakeSpuriously
  <2>11. CASE Kernel \/ Receiver \/ \E c \in Closers : CloserStep(c)
    BY <2>2, <2>11
  <2> QED
    BY <1>2, <2>3, <2>4, <2>5, <2>6, <2>7, <2>8, <2>9, <2>10, <2>11
       DEF ClientNext, Main, Interface, User
<1> QED
  BY <1>1, <1>2

LEMMA NextOwnerOut == TypeInv /\ OwnerOut /\ [ClientNext]_all_vars => OwnerOut'
<1> SUFFICES ASSUME TypeInv, OwnerOut, [ClientNext]_all_vars PROVE OwnerOut'
  OBVIOUS
<1>1. closer_pc \in [Closers -> CloserStates]
  BY DEF TypeInv, TypeOK
<1>2. main_pc = "left" => main_pc' = "left"
  <2>1. CASE UNCHANGED all_vars
    BY <2>1 DEF all_vars, client_vars
  <2>2. CASE ServerStep \/ User \/ WakeSpuriously \/ Interface
    BY <2>2 DEF ServerStep, User, WakeSpuriously, Interface, Aborts, Request, InputEndsInLine,
       Chat, Leave, TestHasConnected, Sleep, TestFailed, TakeAnswer, ReadResult, UiEnds, UiGoes,
       client_vars
  <2>3. CASE Main
    BY <2>3 DEF Main, CallConnect, StreamStep, OnConnect, Pick, OnReveiveEnds,
       SetResult, Release, Show, HandlerGoes, ConnectReturns, CatchSetsConnected,
       CatchSetsFailed, CatchNotifies, Join, MainGoes, DestructorBegins, client_vars
  <2>4. CASE UNCHANGED client_vars
    BY <2>4 DEF client_vars
  <2> QED
    BY <2>1, <2>2, <2>3, <2>4 DEF ClientNext
<1>3. CASE main_pc = "left"
  BY <1>2, <1>3 DEF OwnerOut
<1>4. CASE main_pc # "left"
  <2>1. closer_pc[Owner] = "out"
    BY <1>4 DEF OwnerOut
  <2>2. ASSUME NEW c \in Closers, CloserStep(c) PROVE closer_pc'[Owner] = "out"
    BY <2>1, <2>2, EnderGoesOn, Threads DEF Ender
  <2>3. UiEnds => closer_pc'[Owner] = "out"
    BY <1>1, <2>1, Threads DEF UiEnds, ExchangeFinished, CloserGoes
  <2>4. UNCHANGED vars => closer_pc' = closer_pc
    BY DEF vars, thread_vars
  <2>5. ServerStep \/ Main \/ User \/ WakeSpuriously \/ (Interface /\ ~UiEnds)
          => closer_pc' = closer_pc
    <3>1. SUFFICES ASSUME \/ ServerActs \/ SendReaches \/ Kernel \/ Receiver
                          \/ ConnectChecks \/ OwnerStep \/ UNCHANGED vars
                   PROVE  closer_pc' = closer_pc
      <4>1. ServerStep \/ User => ServerActs \/ SendReaches \/ UNCHANGED vars
        BY DEF ServerStep, User, Aborts, Request, InputEndsInLine, Chat, Leave
      <4>2. WakeSpuriously \/ (Interface /\ ~UiEnds) => UNCHANGED vars
        BY DEF WakeSpuriously, Interface, TestHasConnected, Sleep, TestFailed, TakeAnswer, ReadResult
      <4>3. Main => ConnectChecks \/ OwnerStep \/ UNCHANGED vars
        BY <1>4 DEF Main, CallConnect, StreamStep, OnConnect, Pick, OnReveiveEnds, OwnerStep,
           SetResult, Release, Show, HandlerGoes, ConnectReturns, CatchSetsConnected,
           CatchSetsFailed, CatchNotifies, Join, MainGoes, DestructorBegins
      <4> QED
        BY <4>1, <4>2, <4>3
    <3> QED
      BY <3>1, OthersLeaveEnd
  <2>6. Kernel \/ Receiver => closer_pc' = closer_pc
    BY OthersLeaveEnd
  <2> QED
    BY <2>1, <2>2, <2>3, <2>4, <2>5, <2>6 DEF ClientNext, OwnerOut, all_vars
<1> QED
  BY <1>3, <1>4

(* The client uses its stream as ClientStream lets a user use one:         *)
(* connect() is called by a thread that is not destroying the stream, and  *)
(* the callbacks run where pick_msg() calls them.                          *)
THEOREM ClientUsesItsStream == ClientSpec => Spec
<1>1. ClientInit => Init /\ OwnerOut
  BY Threads DEF ClientInit, Init, OwnerOut
<1> QED
  BY <1>1, InitTypeInv, NextTypeInv, ClientStepIsStreamStep, NextOwnerOut, PTL
     DEF Spec, ClientSpec

THEOREM ClientsPermitIsSingle == ClientSpec => []OnePermit
  BY ClientUsesItsStream, PermitIsSingle, PTL

THEOREM ClientsCrashComesFirst == ClientSpec => []CrashLeavesNoReceiver
  BY ClientUsesItsStream, CrashComesFirst, PTL

THEOREM ClientsDisconnectComesLast == ClientSpec => []DataBeforeDisconnect
  BY ClientUsesItsStream, DisconnectComesLast, PTL

-----------------------------------------------------------------------------
(* The start: what the user interface knows of the connection, and that it *)
(* ends the communication only when connect() is through with its checks.  *)

Waiting == {"wait", "tested", "asleep"}

StartOK ==
  /\ main_pc = "start" => owner_pc = "idle" /\ ~is_connected
  /\ owner_pc \notin Left \cup {"idle"} => main_pc = "connect"
  /\ has_connected => is_connected \/ main_pc \notin {"start", "connect"}
  /\ is_connected /\ ~has_connected => owner_pc = "on_connect"
  /\ ui_pc \notin Waiting => has_connected
  /\ ui_pc \in {"tested", "asleep"} /\ has_connected
       => main_pc \notin {"start", "connect"} /\ ~is_connected
  /\ closer_pc[UI] # "out" => ui_pc = "end"

StartInv == TypeInv /\ Connectedness /\ OwnerOut /\ StartOK /\ NoEarlyEnd

LEMMA OwnerKeepsStart == StartInv /\ StreamStep => StartOK'
<1> SUFFICES ASSUME StartInv, StreamStep PROVE StartOK'
  OBVIOUS
<1> USE DEF StartInv, StartOK, OwnerOut, Connectedness, Left, client_vars, start_vars, OwnerGoes
<1>1. UNCHANGED <<main_pc, has_connected, ui_pc, closer_pc>>
  BY DEF StreamStep, Connects, FailsToConnect, MakeSem, StartReceiver, FailsToStart, BeginPick,
     Destroy, thread_vars
<1>2. CASE Destroy
  BY <1>1, <1>2 DEF Destroy, thread_vars
<1>3. CASE main_pc = "connect" /\ (Connects \/ FailsToConnect)
  BY <1>1, <1>3 DEF Connects, FailsToConnect
<1>4. CASE main_pc = "connect" /\ (MakeSem \/ StartReceiver \/ FailsToStart \/ BeginPick)
  BY <1>1, <1>4 DEF MakeSem, StartReceiver, FailsToStart, BeginPick
<1> QED
  BY <1>2, <1>3, <1>4 DEF StreamStep

LEMMA CallbacksKeepStart ==
  StartInv /\ (CallConnect \/ OnConnect \/ Pick \/ OnReveiveEnds) => StartOK'
<1> SUFFICES ASSUME StartInv, CallConnect \/ OnConnect \/ Pick \/ OnReveiveEnds PROVE StartOK'
  OBVIOUS
<1> USE DEF StartInv, StartOK, Connectedness, Left, Waiting, start_vars, OwnerGoes
<1>1. CASE CallConnect
  BY <1>1 DEF CallConnect, ConnectChecks
<1>2. CASE OnConnect
  BY <1>2 DEF OnConnect, OnConnectEnds, Wake
<1>3. CASE Pick
  BY <1>3, DispatchRange DEF Pick, PickMsg, LeavePick
<1>4. CASE OnReveiveEnds
  BY <1>4 DEF OnReveiveEnds, HandlerEnds, LeavePick
<1> QED
  BY <1>1, <1>2, <1>3, <1>4

LEMMA MainKeepsStart ==
  StartInv /\ (\/ ConnectReturns \/ CatchSetsConnected \/ CatchSetsFailed \/ CatchNotifies \/ Join
               \/ SetResult \/ Release \/ Show)
    => StartOK'
<1> SUFFICES ASSUME StartInv,
                    \/ ConnectReturns \/ CatchSetsConnected \/ CatchSetsFailed \/ CatchNotifies \/ Join
                    \/ SetResult \/ Release \/ Show
             PROVE  StartOK'
  OBVIOUS
<1> USE DEF StartInv, StartOK, Left, Waiting, start_vars
<1>1. UNCHANGED <<owner_pc, is_connected, closer_pc>>
  BY DEF ConnectReturns, CatchSetsConnected, CatchSetsFailed, CatchNotifies, Join, MainGoes,
     SetResult, Release, Show, HandlerGoes, vars, flag_vars, thread_vars
<1>2. CASE SetResult \/ Release \/ Show
  BY <1>1, <1>2 DEF SetResult, Release, Show, HandlerGoes
<1>3. CASE ConnectReturns \/ CatchSetsFailed \/ Join
  BY <1>1, <1>3 DEF ConnectReturns, CatchSetsFailed, Join, MainGoes
<1>4. CASE CatchSetsConnected
  BY <1>1, <1>4 DEF CatchSetsConnected, MainGoes
<1>5. CASE CatchNotifies
  BY <1>1, <1>5 DEF CatchNotifies, MainGoes, Wake
<1> QED
  BY <1>2, <1>3, <1>4, <1>5

LEMMA UiKeepsStart ==
  StartInv /\ ((Interface /\ ~UiEnds) \/ User \/ WakeSpuriously) => StartOK'
<1> SUFFICES ASSUME StartInv, (Interface /\ ~UiEnds) \/ User \/ WakeSpuriously PROVE StartOK'
  OBVIOUS
<1> USE DEF StartInv, StartOK, Left, Waiting, start_vars
<1>1. UNCHANGED <<owner_pc, is_connected, closer_pc, has_connected, main_pc>>
  BY DEF Interface, User, TestHasConnected, Sleep, TestFailed, TakeAnswer, ReadResult, Aborts,
     Request, InputEndsInLine, Chat, Leave, WakeSpuriously, UiGoes, SendReaches,
     vars, flag_vars, thread_vars
<1>2. CASE TestHasConnected \/ Sleep \/ WakeSpuriously
  BY <1>1, <1>2 DEF TestHasConnected, Sleep, WakeSpuriously, UiGoes
<1>3. CASE TestFailed \/ TakeAnswer \/ ReadResult
  BY <1>1, <1>3 DEF TestFailed, TakeAnswer, ReadResult, UiGoes
<1>4. CASE User
  BY <1>1, <1>4 DEF User, Aborts, Request, InputEndsInLine, Chat, Leave, UiGoes
<1> QED
  BY <1>2, <1>3, <1>4 DEF Interface

LEMMA RestKeepsStart ==
  StartInv /\ (\/ UNCHANGED all_vars \/ ServerStep \/ DestructorBegins \/ UiEnds
               \/ (Kernel \/ Receiver) /\ UNCHANGED client_vars
               \/ \E c \in Closers : CloserStep(c) /\ UNCHANGED client_vars)
    => StartOK'
<1> USE DEF StartInv, StartOK, OwnerOut, client_vars, start_vars
<1>1. ASSUME StartInv,
             UNCHANGED <<owner_pc, is_connected, has_connected, main_pc, ui_pc>>,
             closer_pc'[UI] # "out" => closer_pc[UI] # "out" \/ ui_pc = "end"
      PROVE  StartOK'
  BY <1>1
<1>2. StartInv /\ UNCHANGED all_vars => StartOK'
  BY <1>1 DEF all_vars, vars, flag_vars, thread_vars
<1>3. StartInv /\ ServerStep => StartOK'
  BY <1>1 DEF ServerStep, ServerActs, flag_vars, thread_vars
<1>4. StartInv /\ UNCHANGED client_vars /\ (Kernel \/ Receiver) => StartOK'
  <2> SUFFICES ASSUME StartInv, UNCHANGED client_vars, Kernel \/ Receiver
               PROVE  UNCHANGED <<owner_pc, is_connected, closer_pc>>
    BY <1>1
  <2>1. CASE Kernel
    BY <2>1 DEF Kernel, RecvReturnsData, RecvReturnsEof, RecvFails, Returned, flag_vars
  <2>2. CASE Receiver
    BY <2>2 DEF Receiver, LockWeakPtr, Acquire, LoopTest, ReadRecvArgs, ReceiverThrows,
       ReportRecvError, QueueDisconnect, QueueData, ReportException, Body, flag_vars
  <2> QED
    BY <2>1, <2>2
<1>5. ASSUME StartInv, UNCHANGED client_vars, NEW c \in Closers, CloserStep(c)
      PROVE  StartOK'
  <2>1. UNCHANGED <<owner_pc, is_connected>>
    BY <1>5 DEF CloserStep, QueueFinish, TestBeginPick, WaitForFinishPick,
       TestConnected, TakeSem, DerefNullSem, CloseSocket, CloserGoes
  <2>2. closer_pc'[UI] # "out" => closer_pc[UI] # "out"
    BY <1>5, EnderGoesOn, Threads DEF Ender
  <2> QED
    BY <1>1, <1>5, <2>1, <2>2
<1>6. StartInv /\ (DestructorBegins \/ UiEnds) => StartOK'
  <2> SUFFICES ASSUME StartInv, DestructorBegins \/ UiEnds PROVE StartOK'
    OBVIOUS
  <2>1. UNCHANGED <<owner_pc, is_connected>> /\ UNCHANGED client_vars
    BY DEF DestructorBegins, UiEnds, ExchangeFinished, CloserGoes
  <2>2. closer_pc'[UI] # "out" => closer_pc[UI] # "out" \/ ui_pc = "end"
    BY Threads DEF DestructorBegins, UiEnds, ExchangeFinished, CloserGoes, TypeInv, TypeOK
  <2> QED
    BY <1>1, <2>1, <2>2
<1> QED
  BY <1>2, <1>3, <1>4, <1>5, <1>6

LEMMA NextStartOK == StartInv /\ [ClientNext]_all_vars => StartOK'
  BY OwnerKeepsStart, CallbacksKeepStart, MainKeepsStart, UiKeepsStart, RestKeepsStart
     DEF ClientNext, Main, Interface

(* Nobody sets is_finished while connect() is between its checks and the   *)
(* connection: the user interface does not before has_connected, which is  *)
(* set when there is a connection, or none to come.                        *)
LEMMA NextNoEarlyEnd == StartInv /\ [ClientNext]_all_vars => NoEarlyEnd'
<1> SUFFICES ASSUME StartInv, [ClientNext]_all_vars PROVE NoEarlyEnd'
  OBVIOUS
<1>1. [Next]_vars
  BY ClientStepIsStreamStep DEF StartInv
<1>2. owner_pc' = "checked" => owner_pc = "checked" \/ ConnectChecks
  <2>1. CASE ConnectChecks \/ OwnerStep
    BY <2>1, DispatchRange DEF StartInv, Left, OwnerStep, Connects, FailsToConnect, OnConnectEnds,
       MakeSem, StartReceiver, FailsToStart, BeginPick, PickMsg, HandlerEnds, LeavePick,
       Destroy, OwnerGoes, thread_vars
  <2>2. CASE Receiver
    BY <2>2 DEF Receiver, LockWeakPtr, Acquire, LoopTest, ReadRecvArgs, ReceiverThrows,
       ReportRecvError, QueueDisconnect, QueueData, ReportException, Body
  <2>3. CASE ServerActs \/ SendReaches \/ Kernel \/ UNCHANGED vars
    BY <2>3 DEF ServerActs, SendReaches, Kernel, RecvReturnsData, RecvReturnsEof, RecvFails,
       Returned, vars, thread_vars
  <2>4. CASE \E c \in Closers : ExchangeFinished(c) \/ CloserStep(c)
    BY <2>4 DEF ExchangeFinished, CloserStep, QueueFinish, TestBeginPick, WaitForFinishPick,
       TestConnected, TakeSem, DerefNullSem, CloseSocket, CloserGoes
  <2> QED
    BY <1>1, <2>1, <2>2, <2>3, <2>4 DEF Next, Connect
<1>3. CASE ConnectChecks
  BY <1>3 DEF ConnectChecks, OwnerGoes, NoEarlyEnd
<1>4. CASE is_finished' = is_finished
  BY <1>2, <1>3, <1>4 DEF StartInv, NoEarlyEnd
<1>5. CASE DestructorBegins \/ UiEnds
  <2>1. owner_pc' = owner_pc
    BY <1>5 DEF DestructorBegins, UiEnds, ExchangeFinished, CloserGoes
  <2>2. owner_pc # "checked"
    BY <1>5 DEF DestructorBegins, UiEnds, StartInv, StartOK, Waiting, Connectedness, Left
  <2> QED
    BY <2>1, <2>2 DEF NoEarlyEnd
<1>6. [ClientNext]_all_vars => is_finished' = is_finished \/ ConnectChecks \/ DestructorBegins \/ UiEnds
  <2>1. ASSUME \/ ServerActs \/ SendReaches \/ Kernel \/ Receiver \/ OwnerStep \/ UNCHANGED vars
               \/ \E c \in Closers : CloserStep(c)
        PROVE  is_finished' = is_finished
    BY <2>1, OthersLeaveEnd, EnderGoesOn DEF StartInv
  <2>2. ServerStep \/ User => is_finished' = is_finished
    BY <2>1 DEF ServerStep, User, Aborts, Request, InputEndsInLine, Chat, Leave
  <2>3. Interface \/ WakeSpuriously => is_finished' = is_finished \/ UiEnds
    BY <2>1 DEF Interface, WakeSpuriously, TestHasConnected, Sleep, TestFailed, TakeAnswer,
       ReadResult
  <2>4. Main => is_finished' = is_finished \/ ConnectChecks \/ DestructorBegins
    BY <2>1 DEF Main, CallConnect, StreamStep, OnConnect, Pick, OnReveiveEnds, OwnerStep,
       SetResult, Release, Show, HandlerGoes, ConnectReturns, CatchSetsConnected,
       CatchSetsFailed, CatchNotifies, Join, MainGoes
  <2> QED
    BY <2>1, <2>2, <2>3, <2>4 DEF ClientNext, all_vars
<1> QED
  BY <1>3, <1>4, <1>5, <1>6

LEMMA InitStartInv == ClientInit => StartInv
<1> SUFFICES ASSUME ClientInit PROVE StartInv
  OBVIOUS
<1>1. TypeInv
  BY InitTypeInv DEF ClientInit
<1>2. Connectedness /\ OwnerOut /\ StartOK /\ NoEarlyEnd
  BY Threads DEF ClientInit, Init, Connectedness, OwnerOut, StartOK, NoEarlyEnd, Waiting
<1> QED
  BY <1>1, <1>2 DEF StartInv

LEMMA StartInvariance == ClientSpec => []StartInv
<1>1. StartInv /\ [ClientNext]_all_vars => StartInv'
  BY NextTypeInv, NextConnectedness, ClientStepIsStreamStep, NextOwnerOut, NextStartOK,
     NextNoEarlyEnd DEF StartInv
<1> QED
  BY <1>1, InitStartInv, PTL DEF ClientSpec

(* In the client, too, the receiver stays out of what the semaphore guards *)
(* once the socket is closed or the stream destroyed, though its user      *)
(* interface runs before connect() is called.                              *)
THEOREM ClientsStreamIsQuiet == ClientSpec => []QuietAfterEnd
<1>1. Init => EndOK
  BY Threads DEF Init, EndOK
<1>2. ClientInit => Init
  BY DEF ClientInit
<1>3. EndInv => OneEnder
  BY DEF EndInv
<1>4. StartInv => TypeInv /\ Connectedness /\ NoEarlyEnd
  BY DEF StartInv
<1> QED
  BY <1>1, <1>2, <1>3, <1>4, NextEndOK, QuietInv, StartInvariance, ClientUsesItsStream,
     EndInvariance, PermitIsSingle, PTL DEF ClientSpec, Spec

(* The wake-up of on_connect is never lost; the one that can be is that of *)
(* a failed connect(), which does not take the mutex.                      *)
THEOREM WakeupsAreLostByFailures == ClientSpec => []OnlyFailureLosesWakeup
<1>1. StartInv => OnlyFailureLosesWakeup
  BY DEF StartInv, StartOK, OnlyFailureLosesWakeup
<1> QED
  BY <1>1, StartInvariance, PTL

-----------------------------------------------------------------------------
(* Type correctness.  What on_reveive is called with is a chunk that the   *)
(* server has written, by the order of the stream's queue.                 *)

LEMMA CountIsZero ==
  ASSUME script \in Seq(Kinds), NEW k
  PROVE  /\ Count(k) \in Nat
         /\ Count(k) = 0 <=> \A i \in 1 .. Len(script) : script[i] # k
<1> DEFINE S == {i \in 1 .. Len(script) : script[i] = k}
<1>1. IsFiniteSet(S)
  <2>1. IsFiniteSet(1 .. Len(script))
    BY FS_Interval
  <2> QED
    BY <2>1, FS_Subset
<1>2. Cardinality(S) \in Nat /\ (Cardinality(S) = 0 <=> S = {})
  BY <1>1, FS_CardinalityType, FS_EmptySet
<1> QED
  BY <1>2 DEF Count

(* Where data is picked, on_reveive runs.                                  *)
LEMMA PickCounts ==
  ASSUME TypeInv, PickMsg
  PROVE  /\ owner_pc = "pick"
         /\ handled' = IF owner_pc' = "handler" THEN handled + 1 ELSE handled
<1>1. Head(msg_q) \in Message
  BY DEF TypeInv, TypeOK, PickMsg
<1>2. Head(msg_q).type \in {"finish", "critical_error", "disconnect_unexpectly", "msg"}
  BY <1>1 DEF Message
<1> QED
  BY <1>2 DEF PickMsg, LeavePick, OwnerGoes, Dispatch

(* What a step leaves that is neither the server's, nor on_reveive's, nor  *)
(* one of the user interface's that has to do with answers and chats.      *)
AnswerStep ==
  \/ ServerStep \/ Pick \/ OnReveiveEnds \/ SetResult \/ Release \/ Show
  \/ TakeAnswer \/ ReadResult \/ Chat

Begun == {"wait", "tested", "asleep", "connected", "menu", "spinning", "answer", "result"}

LEMMA OtherSteps ==
  ASSUME StartInv, [ClientNext]_all_vars, ~AnswerStep
  PROVE  /\ UNCHANGED <<script, handled, handler_pc, login_success, login_sem, believed, chats>>
         /\ owner_pc = "handler" => owner_pc' = "handler"
         /\ ui_pc' = "result" => ui_pc = "result"
         /\ ui_pc' \in Begun => ui_pc \in Begun
<1> USE DEF AnswerStep, Begun, client_vars, login_vars, user_vars
<1>1. CASE Kernel /\ UNCHANGED client_vars
  BY <1>1 DEF Kernel, RecvReturnsData, RecvReturnsEof, RecvFails, Returned
<1>2. CASE Receiver /\ UNCHANGED client_vars
  BY <1>2 DEF Receiver, LockWeakPtr, Acquire, LoopTest, ReadRecvArgs, ReceiverThrows,
     ReportRecvError, QueueDisconnect, QueueData, ReportException, Body
<1>3. CASE UNCHANGED client_vars /\ \E c \in Closers : CloserStep(c) \/ ExchangeFinished(c)
  BY <1>3 DEF CloserStep, QueueFinish, TestBeginPick, WaitForFinishPick,
     TestConnected, TakeSem, DerefNullSem, CloseSocket, CloserGoes, ExchangeFinished
<1>4. CASE UNCHANGED all_vars
  BY <1>4 DEF all_vars, vars, thread_vars
<1>5. CASE StreamStep
  BY <1>5 DEF StreamStep, Connects, FailsToConnect, MakeSem, StartReceiver, FailsToStart,
     BeginPick, Destroy, OwnerGoes, thread_vars
<1>6. CASE CallConnect \/ OnConnect
  BY <1>6 DEF CallConnect, ConnectChecks, OnConnect, OnConnectEnds, OwnerGoes, Wake
<1>7. CASE ConnectReturns \/ CatchSetsConnected \/ CatchSetsFailed \/ CatchNotifies \/ Join
  BY <1>7 DEF ConnectReturns, CatchSetsConnected, CatchSetsFailed, CatchNotifies, Join,
     MainGoes, Wake, vars, thread_vars
<1>8. CASE TestHasConnected \/ Sleep \/ TestFailed \/ WakeSpuriously
  BY <1>8 DEF TestHasConnected, Sleep, TestFailed, WakeSpuriously, UiGoes, vars, thread_vars
<1>9. CASE Aborts \/ Request \/ InputEndsInLine \/ Leave
  BY <1>9 DEF Aborts, Request, SendReaches, InputEndsInLine, Leave, UiGoes, vars, thread_vars
<1> QED
  BY <1>1, <1>2, <1>3, <1>4, <1>5, <1>6, <1>7, <1>8, <1>9, Threads
     DEF ClientNext, Main, Interface, User, DestructorBegins, UiEnds

LEMMA ScriptGrows ==
  ASSUME StartInv, ChatTypeOK, ServerStep
  PROVE  /\ script' \in Seq(Kinds) /\ sent' <= Len(script')
         /\ Len(script) <= Len(script')
         /\ \A i \in 1 .. Len(script) : script'[i] = script[i]
         /\ \/ script' = script
            \/ \E k \in Kinds : MaySend(k) /\ script' = Append(script, k)
<1>1. sent \in Nat /\ script \in Seq(Kinds) /\ sent <= Len(script)
  BY BoundsAssumption DEF ChatTypeOK, TypeOK
<1>2. CASE sent' = sent
  BY <1>1, <1>2 DEF ServerStep
<1>3. CASE sent' # sent
  <2>1. sent' = sent + 1
    BY <1>3 DEF ServerStep, ServerActs
  <2>2. PICK k \in Kinds : MaySend(k) /\ script' = Append(script, k)
    BY <1>3 DEF ServerStep
  <2> QED
    BY <1>1, <2>1, <2>2
<1> QED
  BY <1>2, <1>3

LEMMA ScriptStays ==
  ASSUME StartInv, ChatTypeOK, [ClientNext]_all_vars, ~ServerStep
  PROVE  script' = script /\ sent' <= Len(script)
<1>1. script' = script
  BY OtherSteps DEF AnswerStep, Pick, OnReveiveEnds, SetResult, Release, Show, HandlerGoes,
     TakeAnswer, ReadResult, Chat, UiGoes
<1>2. sent \in Nat /\ queued \in Nat /\ queued <= sent /\ sent <= Len(script) /\ Len(script) \in Nat
  BY BoundsAssumption DEF ChatTypeOK, TypeOK, StartInv, TypeInv, DataPending
<1>3. sent' = sent \/ sent' = queued
  <2>1. UNCHANGED vars \/ SendReaches \/ ConnectChecks => sent' = sent
    BY DEF vars, server_vars, SendReaches, ConnectChecks, OwnerGoes
  <2>2. Kernel => sent' = sent \/ sent' = queued
    BY DEF Kernel, RecvReturnsData, RecvReturnsEof, RecvFails, Returned, server_vars
  <2>3. Receiver => sent' = sent
    BY DEF Receiver, LockWeakPtr, Acquire, LoopTest, ReadRecvArgs, ReceiverThrows,
       ReportRecvError, QueueDisconnect, QueueData, ReportException, Body, server_vars
  <2>4. OwnerStep => sent' = sent
    BY DEF OwnerStep, Connects, FailsToConnect, OnConnectEnds, MakeSem, StartReceiver,
       FailsToStart, BeginPick, PickMsg, HandlerEnds, LeavePick, Destroy, OwnerGoes, server_vars
  <2>5. \A c \in Closers : CloserStep(c) \/ ExchangeFinished(c) => sent' = sent
    BY DEF CloserStep, QueueFinish, TestBeginPick, WaitForFinishPick, TestConnected, TakeSem,
       DerefNullSem, CloseSocket, CloserGoes, ExchangeFinished, server_vars
  <2>6. Main => sent' = sent
    BY <2>1, <2>4, <2>5, Threads DEF Main, CallConnect, StreamStep, OnConnect, Pick,
       OnReveiveEnds, OwnerStep, SetResult, Release, Show, HandlerGoes, ConnectReturns,
       CatchSetsConnected, CatchSetsFailed, CatchNotifies, Join, MainGoes, DestructorBegins
  <2>7. Interface \/ User \/ WakeSpuriously => sent' = sent
    BY <2>1, <2>5, Threads DEF Interface, User, WakeSpuriously, TestHasConnected, Sleep, TestFailed,
       TakeAnswer, ReadResult, UiEnds, Aborts, Request, InputEndsInLine, Chat, Leave
  <2> QED
    BY <2>1, <2>2, <2>3, <2>5, <2>6, <2>7 DEF ClientNext, all_vars
<1> QED
  BY <1>1, <1>2, <1>3

(* The types of what the client adds to its stream.                        *)
ClientTypes ==
  /\ has_connected \in BOOLEAN /\ connection_failed \in BOOLEAN
  /\ main_pc \in {"start", "connect", "caught", "failed", "join", "left"}
  /\ ui_pc \in {"wait", "tested", "asleep", "connected", "menu", "spinning",
                "answer", "result", "chat", "end", "done"}
  /\ handler_pc \in Kinds \cup {"none", "release"}
  /\ login_success \in BOOLEAN /\ login_sem \in 0 .. 1
  /\ believed \in Answers \cup {"none"} /\ aborted \in BOOLEAN
  /\ chats \in 0 .. MaxChats

(* on_reveive is called with a chunk that the server has written.          *)
LEMMA PickIsWritten ==
  ASSUME StartInv, ChatTypeOK, Pick
  PROVE  owner_pc' = "handler" => handled' \in 1 .. Len(script)
<1>1. TypeInv' /\ UNCHANGED <<sent, queued>> /\ handled \in Nat
  BY OwnerTypeInv, BoundsAssumption DEF StartInv, ChatTypeOK, TypeOK, Pick, OwnerStep, PickMsg,
     LeavePick, OwnerGoes
<1>2. /\ handled' <= queued /\ queued <= sent /\ sent <= Len(script)
      /\ sent \in Nat /\ queued \in Nat /\ Len(script) \in Nat
  BY <1>1, BoundsAssumption DEF TypeInv, ChatTypeOK, TypeOK, QueueOK, DataPending
<1>3. owner_pc' = "handler" => handled' = handled + 1
  BY PickCounts DEF Pick, StartInv
<1> QED
  BY <1>1, <1>2, <1>3

LEMMA NextClientTypes ==
  ASSUME StartInv, ChatTypeOK, [ClientNext]_all_vars
  PROVE  ClientTypes'
<1> USE UserAssumption DEF ChatTypeOK, ClientTypes, client_vars, start_vars, login_vars, user_vars
<1>1. CASE UNCHANGED client_vars
  BY <1>1
<1>2. CASE ServerStep \/ CallConnect
  BY <1>2 DEF ServerStep, CallConnect
<1>3. CASE OnConnect \/ CatchNotifies
  BY <1>3 DEF OnConnect, CatchNotifies, MainGoes, Wake
<1>4. CASE Pick
  <2>1. owner_pc' = "handler" => handled' \in 1 .. Len(script)
    BY <1>4, PickIsWritten
  <2>2. handler_pc' \in Kinds \cup {"none"}
    BY <1>4, <2>1 DEF Pick
  <2> QED
    BY <1>4, <2>2 DEF Pick
<1>5. CASE OnReveiveEnds \/ SetResult \/ Release \/ Show
  <2>1. OnReveiveEnds => ClientTypes'
    BY DEF OnReveiveEnds
  <2>2. SetResult => ClientTypes'
    BY DEF SetResult, HandlerGoes
  <2>3. Release => ClientTypes'
    BY DEF Release, HandlerGoes
  <2>4. Show => ClientTypes'
    BY DEF Show, HandlerGoes
  <2> QED
    BY <1>5, <2>1, <2>2, <2>3, <2>4
<1>6. CASE ConnectReturns \/ CatchSetsConnected \/ CatchSetsFailed \/ Join
  BY <1>6 DEF ConnectReturns, CatchSetsConnected, CatchSetsFailed, Join, MainGoes
<1>7. CASE TestHasConnected \/ Sleep \/ TestFailed \/ WakeSpuriously \/ Leave \/ InputEndsInLine
  BY <1>7 DEF TestHasConnected, Sleep, TestFailed, WakeSpuriously, Leave, InputEndsInLine, UiGoes
<1>8. CASE TakeAnswer
  BY <1>8 DEF TakeAnswer, UiGoes
<1>9. CASE ReadResult \/ Aborts \/ Request
  BY <1>9 DEF ReadResult, Aborts, Request, UiGoes, Answers
<1>10. CASE Chat
  BY <1>10 DEF Chat, UiGoes
<1> QED
  BY <1>1, <1>2, <1>3, <1>4, <1>5, <1>6, <1>7, <1>8, <1>9, <1>10
     DEF ClientNext, Main, Interface, User, StreamStep, DestructorBegins, UiEnds, all_vars

(* All variables stay in their types; in particular the server's chunks    *)
(* that on_reveive gets are chunks the server has written, and m_login_sem *)
(* does not exceed its maximum.                                            *)
THEOREM ClientTypeCorrect == ClientSpec => []ChatTypeOK
<1>1. ClientInit => ChatTypeOK
  <2> SUFFICES ASSUME ClientInit PROVE ChatTypeOK
    OBVIOUS
  <2>1. TypeOK /\ sent = 0
    BY InitTypeInv DEF ClientInit, TypeInv, Init
  <2>2. script \in Seq(Kinds) /\ sent <= Len(script)
    BY <2>1 DEF ClientInit
  <2>3. ClientTypes
    <3>1. chats \in 0 .. MaxChats /\ login_sem \in 0 .. 1
      BY UserAssumption DEF ClientInit
    <3> QED
      BY <3>1 DEF ClientInit, ClientTypes
  <2> QED
    BY <2>1, <2>2, <2>3 DEF ChatTypeOK, ClientTypes
<1>2. StartInv /\ StartInv' /\ ChatTypeOK /\ [ClientNext]_all_vars => ChatTypeOK'
  <2> SUFFICES ASSUME StartInv, StartInv', ChatTypeOK, [ClientNext]_all_vars PROVE ChatTypeOK'
    OBVIOUS
  <2>1. TypeOK' /\ ClientTypes'
    BY NextClientTypes DEF StartInv, TypeInv
  <2>2. script' \in Seq(Kinds) /\ sent' <= Len(script')
    BY ScriptGrows, ScriptStays DEF ChatTypeOK
  <2> QED
    BY <2>1, <2>2 DEF ChatTypeOK, ClientTypes
<1> QED
  BY <1>1, <1>2, StartInvariance, PTL DEF ClientSpec

-----------------------------------------------------------------------------
(* Answers: the server gives one, and the user interface is let through to *)
(* the result when on_reveive is done with it.                             *)

OneAnswer ==
  \A i, j \in 1 .. Len(script) : script[i] \in Answers /\ script[j] \in Answers => i = j

EchoesFollowChats ==
  /\ ui_pc \in Begun => chats = 0
  /\ chats = 0 => \A i \in 1 .. Len(script) : script[i] # "echo"

(* What on_reveive is about is the last chunk it was called with.          *)
HandlerOK ==
  handler_pc # "none" =>
    /\ owner_pc = "handler" /\ handled > 0
    /\ script[handled] = IF handler_pc = "release" THEN "success" ELSE handler_pc

(* Chunk i is an answer, and its result is there to be read.               *)
Ready(i) ==
  /\ script[i] \in Answers
  /\ script[i] = "success" => login_success
  /\ i = handled => handler_pc \notin {"success", "release", "failed"}

ResultOK ==
  /\ login_success => \E i \in 1 .. handled : script[i] = "success"
  /\ handler_pc = "release" => login_success
  /\ login_sem = 1 \/ ui_pc = "result" \/ believed # "none" => \E i \in 1 .. handled : Ready(i)
  /\ believed = "success" => login_success
  /\ believed = "failed" => \E i \in 1 .. handled : script[i] = "failed"

AnswersOK == OneAnswer /\ EchoesFollowChats /\ HandlerOK /\ ResultOK

ChatInv == StartInv /\ ChatTypeOK /\ AnswersOK

LEMMA HandledIsWritten ==
  ASSUME StartInv, ChatTypeOK
  PROVE  handled \in Nat /\ Len(script) \in Nat /\ handled <= Len(script)
  BY BoundsAssumption DEF StartInv, TypeInv, ChatTypeOK, TypeOK, DataPending, QueueOK

LEMMA OthersKeepAnswers ==
  ChatInv /\ [ClientNext]_all_vars /\ ~AnswerStep => AnswersOK'
<1> SUFFICES ASSUME ChatInv, [ClientNext]_all_vars, ~AnswerStep PROVE AnswersOK'
  OBVIOUS
<1>1. /\ UNCHANGED <<script, handled, handler_pc, login_success, login_sem, believed, chats>>
      /\ owner_pc = "handler" => owner_pc' = "handler"
      /\ ui_pc' = "result" => ui_pc = "result"
      /\ ui_pc' \in Begun => ui_pc \in Begun
  BY OtherSteps DEF ChatInv
<1> QED
  BY <1>1 DEF ChatInv, AnswersOK, OneAnswer, EchoesFollowChats, HandlerOK, ResultOK, Ready

LEMMA ServerKeepsAnswers == ChatInv /\ ServerStep => AnswersOK'
<1> SUFFICES ASSUME ChatInv, ServerStep PROVE AnswersOK'
  OBVIOUS
<1>1. /\ script \in Seq(Kinds) /\ handled \in Nat /\ handled <= Len(script) /\ Len(script) \in Nat
      /\ StartInv /\ ChatTypeOK /\ AnswersOK
  BY HandledIsWritten DEF ChatInv, ChatTypeOK
<1>2. /\ UNCHANGED <<handled, owner_pc, handler_pc, login_success, login_sem, ui_pc, believed, chats>>
      /\ \A i \in 1 .. handled : script'[i] = script[i]
  BY <1>1, ScriptGrows DEF ServerStep, ServerActs, thread_vars, login_vars, user_vars
<1>3. HandlerOK' /\ ResultOK'
  BY <1>1, <1>2 DEF AnswersOK, HandlerOK, ResultOK, Ready
<1>4. CASE script' = script
  BY <1>1, <1>2, <1>3, <1>4 DEF AnswersOK, OneAnswer, EchoesFollowChats
<1>5. ASSUME NEW k \in Kinds, MaySend(k), script' = Append(script, k)
      PROVE  AnswersOK'
  <2>1. /\ Len(script') = Len(script) + 1 /\ script'[Len(script) + 1] = k
        /\ \A i \in 1 .. Len(script') : i \in 1 .. Len(script) \/ i = Len(script) + 1
        /\ \A i \in 1 .. Len(script) : script'[i] = script[i]
    BY <1>1, <1>5
  <2>2. OneAnswer'
    <3>1. CASE k \in Answers
      <4>1. Count("success") \in Nat /\ Count("failed") \in Nat /\ ~(Count("success") + Count("failed") > 0)
        BY <1>1, <1>5, <3>1, CountIsZero DEF MaySend, Answers, Answered
      <4>2. Count("success") = 0 /\ Count("failed") = 0
        BY <4>1
      <4>3. \A i \in 1 .. Len(script) : script[i] \notin Answers
        BY <1>1, <4>2, CountIsZero DEF Answers
      <4> QED
        BY <2>1, <4>3 DEF OneAnswer
    <3>2. CASE k \notin Answers
      BY <1>1, <2>1, <3>2 DEF AnswersOK, OneAnswer
    <3> QED
      BY <3>1, <3>2
  <2>3. chats = 0 => k # "echo"
    <3>1. k = "echo" => Count("echo") \in Nat /\ Count("echo") < chats
      BY <1>1, <1>5, CountIsZero DEF MaySend, Answers
    <3> QED
      BY <3>1
  <2>4. EchoesFollowChats'
    BY <1>1, <1>2, <2>1, <2>3 DEF AnswersOK, EchoesFollowChats
  <2> QED
    BY <1>3, <2>2, <2>4 DEF AnswersOK
<1> QED
  BY <1>1, <1>4, <1>5, ScriptGrows

LEMMA PickKeepsAnswers == ChatInv /\ Pick => AnswersOK'
<1> SUFFICES ASSUME ChatInv, Pick PROVE AnswersOK'
  OBVIOUS
<1>1. /\ owner_pc = "pick" /\ handler_pc = "none" /\ handled \in Nat
      /\ handled' = IF owner_pc' = "handler" THEN handled + 1 ELSE handled
      /\ handler_pc' = IF owner_pc' = "handler" THEN script[handled'] ELSE "none"
      /\ UNCHANGED <<script, login_success, login_sem, ui_pc, believed, chats>>
  BY PickCounts, HandledIsWritten
     DEF ChatInv, StartInv, Pick, AnswersOK, HandlerOK, user_vars
<1>2. OneAnswer' /\ EchoesFollowChats'
  BY <1>1 DEF ChatInv, AnswersOK, OneAnswer, EchoesFollowChats
<1>3. handler_pc' # "release"
  BY <1>1, PickIsWritten DEF ChatInv, ChatTypeOK, Kinds, Answers
<1>4. HandlerOK'
  BY <1>1, <1>3 DEF HandlerOK
<1>5. /\ \A i \in 1 .. handled : i \in 1 .. handled'
      /\ \A i \in 1 .. handled : Ready(i) => Ready(i)'
  BY <1>1 DEF Ready
<1>6. ResultOK'
  BY <1>1, <1>3, <1>5 DEF ChatInv, AnswersOK, ResultOK
<1> QED
  BY <1>2, <1>4, <1>6 DEF AnswersOK

LEMMA HandlerKeepsAnswers ==
  ChatInv /\ (OnReveiveEnds \/ SetResult \/ Release \/ Show) => AnswersOK'
<1> SUFFICES ASSUME ChatInv, OnReveiveEnds \/ SetResult \/ Release \/ Show PROVE AnswersOK'
  OBVIOUS
<1>1. /\ UNCHANGED <<script, handled, ui_pc, believed, chats>> /\ handled \in Nat
  BY HandledIsWritten DEF ChatInv, OnReveiveEnds, HandlerEnds, SetResult, Release, Show, HandlerGoes,
     user_vars, vars
<1>2. OneAnswer' /\ EchoesFollowChats'
  BY <1>1 DEF ChatInv, AnswersOK, OneAnswer, EchoesFollowChats
<1>3. CASE OnReveiveEnds \/ Show
  <2>1. handler_pc' = "none" /\ UNCHANGED <<login_success, login_sem>>
    BY <1>3 DEF OnReveiveEnds, Show, HandlerGoes
  <2>2. HandlerOK' /\ ResultOK'
    BY <1>1, <2>1 DEF ChatInv, AnswersOK, HandlerOK, ResultOK, Ready
  <2> QED
    BY <1>2, <2>2 DEF AnswersOK
<1>4. CASE SetResult
  <2>1. /\ handler_pc = "success" /\ handler_pc' = "release" /\ login_success'
        /\ login_sem' = login_sem /\ owner_pc' = owner_pc
    BY <1>4 DEF SetResult, HandlerGoes, vars, thread_vars
  <2>2. owner_pc = "handler" /\ handled \in 1 .. handled /\ script[handled] = "success"
    BY <1>1, <2>1 DEF ChatInv, AnswersOK, HandlerOK
  <2>3. \A i \in 1 .. handled : Ready(i) => Ready(i)'
    BY <1>1, <2>1 DEF Ready
  <2>4. HandlerOK' /\ ResultOK'
    BY <1>1, <2>1, <2>2, <2>3 DEF ChatInv, AnswersOK, HandlerOK, ResultOK
  <2> QED
    BY <1>2, <2>4 DEF AnswersOK
<1>5. CASE Release
  <2>1. /\ handler_pc \in {"release", "failed"} /\ handler_pc' = "none"
        /\ login_success' = login_success
    BY <1>5 DEF Release, HandlerGoes
  <2>2. handled \in 1 .. handled /\ Ready(handled)'
    BY <1>1, <2>1 DEF ChatInv, AnswersOK, HandlerOK, ResultOK, Ready, Answers
  <2>3. HandlerOK' /\ ResultOK'
    BY <1>1, <2>1, <2>2 DEF ChatInv, AnswersOK, HandlerOK, ResultOK
  <2> QED
    BY <1>2, <2>3 DEF AnswersOK
<1> QED
  BY <1>3, <1>4, <1>5

LEMMA UiKeepsAnswers == ChatInv /\ (TakeAnswer \/ ReadResult \/ Chat) => AnswersOK'
<1> SUFFICES ASSUME ChatInv, TakeAnswer \/ ReadResult \/ Chat PROVE AnswersOK'
  OBVIOUS
<1>1. UNCHANGED <<script, handled, owner_pc, handler_pc, login_success>>
  BY DEF TakeAnswer, ReadResult, Chat, UiGoes, SendReaches, vars, thread_vars
<1>2. OneAnswer' /\ HandlerOK'
  BY <1>1 DEF ChatInv, AnswersOK, OneAnswer, HandlerOK
<1>3. \A i \in 1 .. handled : Ready(i)' <=> Ready(i)
  BY <1>1 DEF Ready
<1>4. CASE TakeAnswer
  <2>1. /\ ui_pc = "answer" /\ ui_pc' = "result" /\ login_sem = 1 /\ login_sem' = 0
        /\ UNCHANGED <<believed, chats>>
    BY <1>4 DEF TakeAnswer, UiGoes, ChatInv, ChatTypeOK, user_vars
  <2>2. EchoesFollowChats' /\ ResultOK'
    BY <1>1, <1>3, <2>1 DEF ChatInv, AnswersOK, EchoesFollowChats, ResultOK, Begun
  <2> QED
    BY <1>2, <2>2 DEF AnswersOK
<1>5. CASE ReadResult
  <2>1. /\ ui_pc = "result" /\ ui_pc' \notin Begun /\ UNCHANGED <<login_sem, chats>>
        /\ believed' = IF login_success THEN "success" ELSE "failed"
    BY <1>5 DEF ReadResult, UiGoes, Begun
  <2>2. EchoesFollowChats'
    BY <1>1, <2>1 DEF ChatInv, AnswersOK, EchoesFollowChats
  <2>3. PICK i \in 1 .. handled : Ready(i)
    BY <2>1 DEF ChatInv, AnswersOK, ResultOK
  <2>4. ~login_success => script[i] = "failed"
    BY <2>3 DEF Ready, Answers
  <2>5. ResultOK'
    BY <1>1, <1>3, <2>1, <2>3, <2>4 DEF ChatInv, AnswersOK, ResultOK
  <2> QED
    BY <1>2, <2>2, <2>5 DEF AnswersOK
<1>6. CASE Chat
  <2>1. /\ ui_pc = "chat" /\ ui_pc' = "chat" /\ UNCHANGED <<login_sem, believed>>
        /\ chats' = chats + 1 /\ chats \in Nat
    BY <1>6, UserAssumption DEF Chat, UiGoes, ChatInv, ChatTypeOK
  <2>2. EchoesFollowChats'
    BY <1>1, <2>1 DEF EchoesFollowChats, Begun
  <2>3. ResultOK'
    BY <1>1, <1>3, <2>1 DEF ChatInv, AnswersOK, ResultOK
  <2> QED
    BY <1>2, <2>2, <2>3 DEF AnswersOK
<1> QED
  BY <1>4, <1>5, <1>6

LEMMA AnswersInvariance == ClientSpec => []ChatInv
<1>1. ClientInit => AnswersOK
  BY DEF ClientInit, Init, AnswersOK, OneAnswer, EchoesFollowChats, HandlerOK, ResultOK
<1>2. ChatInv /\ [ClientNext]_all_vars => AnswersOK'
  BY OthersKeepAnswers, ServerKeepsAnswers, PickKeepsAnswers, HandlerKeepsAnswers, UiKeepsAnswers
     DEF AnswerStep
<1> QED
  BY <1>1, <1>2, StartInvariance, ClientTypeCorrect, PTL DEF ClientSpec, ChatInv

(* The user interface believes what the server answered, and when it is    *)
(* let through to the result on_reveive is not writing one: m_login_sem    *)
(* is released behind the writes of an answer, and only for an answer.     *)
THEOREM ResultsAreHandedOver == ClientSpec => []ResultIsHandedOver
<1>1. ChatInv => ResultIsHandedOver
  <2> SUFFICES ASSUME ChatInv PROVE ResultIsHandedOver
    OBVIOUS
  <2>1. handled \in Nat /\ Len(script) \in Nat /\ handled <= Len(script)
    BY HandledIsWritten DEF ChatInv
  <2>2. believed # "none" => \E i \in 1 .. handled : script[i] = believed
    BY DEF ChatInv, ChatTypeOK, Answers, AnswersOK, ResultOK
  <2>3. ASSUME ui_pc = "result", handler_pc = "echo" PROVE FALSE
    BY <2>1, <2>3 DEF ChatInv, AnswersOK, HandlerOK, EchoesFollowChats, Begun
  <2>4. ASSUME ui_pc = "result", handler_pc = "success" PROVE FALSE
    <3>1. PICK i \in 1 .. handled : Ready(i)
      BY <2>4 DEF ChatInv, AnswersOK, ResultOK
    <3>2. handled \in 1 .. Len(script) /\ script[handled] = "success"
      BY <2>1, <2>4 DEF ChatInv, AnswersOK, HandlerOK
    <3>3. i = handled
      BY <2>1, <3>1, <3>2 DEF ChatInv, AnswersOK, OneAnswer, Ready, Answers
    <3> QED
      BY <2>4, <3>1, <3>3 DEF Ready
  <2> QED
    BY <2>2, <2>3, <2>4 DEF ResultIsHandedOver
<1> QED
  BY <1>1, AnswersInvariance, PTL
=============================================================================
