----------------------------- MODULE ChatClient -----------------------------
(***************************************************************************)
(* tmchat::client over its ClientStream.  The constructor starts the user  *)
(* interface's thread and calls connect(), so that it is the stream's      *)
(* Owner; the callbacks on_connect and on_reveive run in it too.  The user *)
(* interface waits until the connection is there, asks once to be logged   *)
(* in or registered, waits for the answer on m_login_sem, chats, and ends  *)
(* the communication.                                                      *)
(*                                                                         *)
(* One chunk is one message of the server, one request one send_to_server. *)
(***************************************************************************)
EXTENDS ClientStream

CONSTANTS
  UI,        (* the user interface's thread, which is all of Others          *)
  MaxChats   (* bound: chats the user sends                                  *)

ASSUME UserAssumption == Others = {UI} /\ EarlyStop /\ MaxChats \in Nat

VARIABLES
  has_connected, connection_failed,  (* locals of client::client             *)
  main_pc,         (* where the constructor is, around connect()             *)
  ui_pc,           (* where the user interface is; at "tested" it holds      *)
                   (* has_connected_mtx                                      *)
  handler_pc,      (* what is left to do for on_reveive                      *)
  login_success,   (* m_login_success                                        *)
  login_sem,       (* the count of m_login_sem                               *)
  believed,        (* what the user interface read from m_login_success      *)
  aborted,         (* an exception left the thread, or SIGPIPE came          *)
  chats,           (* the chats it has sent                                  *)
  script           (* external: what the server has sent, chunk by chunk     *)

start_vars == <<has_connected, connection_failed>>
login_vars == <<handler_pc, login_success, login_sem>>
user_vars  == <<believed, aborted, chats>>
client_vars == <<start_vars, main_pc, ui_pc, login_vars, user_vars, script>>
all_vars == <<vars, client_vars>>

-----------------------------------------------------------------------------
Answers == {"success", "failed"}          \* to the login or the registration
Kinds == Answers \cup {"chat", "echo"}    \* echo: chat_seccess, chat_failed

ChatTypeOK ==
  /\ TypeOK
  /\ has_connected \in BOOLEAN /\ connection_failed \in BOOLEAN
  /\ main_pc \in {"start", "connect", "caught", "failed", "join", "left"}
  /\ ui_pc \in {"wait", "tested", "asleep", "connected", "menu", "spinning",
                "answer", "result", "chat", "end", "done"}
  /\ handler_pc \in Kinds \cup {"none", "release"}
  /\ login_success \in BOOLEAN /\ login_sem \in 0 .. 1
  /\ believed \in Answers \cup {"none"} /\ aborted \in BOOLEAN
  /\ chats \in 0 .. MaxChats
  /\ script \in Seq(Kinds) /\ sent <= Len(script)

ClientInit ==
  /\ Init
  /\ has_connected = FALSE /\ connection_failed = FALSE
  /\ main_pc = "start" /\ ui_pc = "wait" /\ handler_pc = "none"
  /\ login_success = FALSE /\ login_sem = 0
  /\ believed = "none" /\ aborted = FALSE /\ chats = 0
  /\ script = <<>>

-----------------------------------------------------------------------------
(* The server: an answer to a request, and only one; copies of others'     *)
(* chats and answers to one's own, to a member.                            *)

Count(k) == Cardinality({i \in 1 .. Len(script) : script[i] = k})

Answered == Count("success") + Count("failed") > 0

MaySend(k) ==
  \/ k \in Answers /\ ui_pc = "answer" /\ ~Answered
  \/ k = "chat" /\ Count("success") > 0
  \/ k = "echo" /\ Count("echo") < chats

ServerStep ==
  /\ ServerActs
  /\ IF sent' = sent THEN UNCHANGED script
                     ELSE \E k \in Kinds : MaySend(k) /\ script' = Append(script, k)
  /\ UNCHANGED <<start_vars, main_pc, ui_pc, login_vars, user_vars>>

-----------------------------------------------------------------------------
(* The constructor, and the callbacks in its thread.                       *)

CallConnect ==
  /\ main_pc = "start" /\ main_pc' = "connect"
  /\ ConnectChecks
  /\ UNCHANGED <<start_vars, ui_pc, login_vars, user_vars, script>>

StreamStep ==
  /\ \/ main_pc = "connect"
        /\ \/ Connects \/ FailsToConnect \/ MakeSem
           \/ StartReceiver \/ FailsToStart \/ BeginPick
     \/ Destroy
  /\ UNCHANGED client_vars

Wake == ui_pc' = IF ui_pc = "asleep" THEN "wait" ELSE ui_pc

(* Mutant: on_connect does not take has_connected_mtx.                     *)
OnConnectUnlocked ==
  /\ OnConnectEnds /\ owner_pc' = "make_sem"
  /\ has_connected' = TRUE
  /\ Wake
  /\ UNCHANGED <<connection_failed, main_pc, login_vars, user_vars, script>>

OnConnect ==
  /\ ui_pc # "tested"
  /\ OnConnectEnds /\ owner_pc' = "make_sem"
  /\ has_connected' = TRUE
  /\ Wake
  /\ UNCHANGED <<connection_failed, main_pc, login_vars, user_vars, script>>

Pick ==
  /\ PickMsg
  /\ handler_pc' = IF owner_pc' = "handler" THEN script[handled'] ELSE "none"
  /\ UNCHANGED <<start_vars, main_pc, ui_pc, login_success, login_sem, user_vars, script>>

HandlerGoes(from, to) ==
  /\ handler_pc \in from /\ handler_pc' = to
  /\ UNCHANGED <<vars, start_vars, main_pc, ui_pc, user_vars, script>>

(* Mutant: the semaphore is released, then the result is set.              *)
SetResultReleased ==
  \/ HandlerGoes({"success"}, "success") /\ login_sem' = 1 /\ UNCHANGED login_success
  \/ HandlerGoes({"success"}, "release") /\ login_success' = TRUE /\ UNCHANGED login_sem

(* m_id or m_name, and m_login_success.                                    *)
SetResult ==
  /\ HandlerGoes({"success"}, "release")
  /\ login_success' = TRUE /\ UNCHANGED login_sem

(* Mutant: a failure falls out of the switch.                              *)
ReleaseOnSuccess ==
  \/ HandlerGoes({"release"}, "none") /\ login_sem' = 1 /\ UNCHANGED login_success
  \/ HandlerGoes({"failed"}, "none") /\ UNCHANGED <<login_sem, login_success>>

(* A release() beyond the maximum throws, which on_reveive catches.        *)
Release ==
  /\ HandlerGoes({"release", "failed"}, "none")
  /\ login_sem' = 1 /\ UNCHANGED login_success

Show ==
  /\ HandlerGoes({"chat", "echo"}, "none")
  /\ UNCHANGED <<login_success, login_sem>>

(* on_reveive catches what it throws itself, but before it the buffer may  *)
(* not grow.                                                               *)
OnReveiveEnds ==
  /\ HandlerEnds
  /\ handler_pc \in IF owner_pc' = "pick" THEN {"none"} ELSE Kinds
  /\ handler_pc' = "none"
  /\ UNCHANGED <<start_vars, main_pc, ui_pc, login_success, login_sem, user_vars, script>>

MainGoes(from, to) ==
  /\ main_pc = from /\ main_pc' = to
  /\ UNCHANGED <<vars, login_vars, user_vars, script>>

ConnectReturns ==
  /\ owner_pc = "returned"
  /\ MainGoes("connect", "join")
  /\ UNCHANGED <<start_vars, ui_pc>>

(* The catch (...), which does not take has_connected_mtx.                 *)
CatchSetsConnected ==
  /\ owner_pc \in {"threw", "disconnected", "idle"}
  /\ MainGoes("connect", "caught")
  /\ has_connected' = TRUE /\ UNCHANGED <<connection_failed, ui_pc>>

CatchSetsFailed ==
  /\ MainGoes("caught", "failed")
  /\ connection_failed' = TRUE /\ UNCHANGED <<has_connected, ui_pc>>

CatchNotifies ==
  /\ MainGoes("failed", "join")
  /\ Wake
  /\ UNCHANGED start_vars

UiExited == ui_pc = "done" \/ closer_pc[UI] = "returned"

Join ==
  /\ UiExited
  /\ MainGoes("join", "left")
  /\ UNCHANGED <<start_vars, ui_pc>>

(* The client is destroyed, or its members are, as the constructor threw.  *)
DestructorBegins ==
  /\ main_pc = "left"
  /\ ExchangeFinished(Owner)
  /\ UNCHANGED client_vars

-----------------------------------------------------------------------------
(* The user interface.                                                     *)

UiGoes(from, to) ==
  /\ ui_pc = from /\ ui_pc' = to
  /\ UNCHANGED <<start_vars, main_pc, handler_pc, login_success, script>>

TestHasConnected ==
  /\ UiGoes("wait", IF has_connected THEN "connected" ELSE "tested")
  /\ UNCHANGED <<vars, login_sem, user_vars>>

Sleep == UiGoes("tested", "asleep") /\ UNCHANGED <<vars, login_sem, user_vars>>

WakeSpuriously == UiGoes("asleep", "wait") /\ UNCHANGED <<vars, login_sem, user_vars>>

TestFailed ==
  /\ UiGoes("connected", IF connection_failed THEN "done" ELSE "menu")
  /\ UNCHANGED <<vars, login_sem, user_vars>>

(* An exception of send_to_server() leaves the thread, as does SIGPIPE.    *)
Aborts ==
  /\ SendFails
  /\ ui_pc \in {"menu", "chat"}
  /\ aborted' = TRUE
  /\ UNCHANGED <<vars, start_vars, main_pc, ui_pc, login_vars, believed, chats, script>>

Request ==
  /\ SendReaches
  /\ UiGoes("menu", "answer")
  /\ UNCHANGED <<login_sem, user_vars>>

(* Input that ends in the middle of a line is asked for for ever.          *)
InputEndsInLine == UiGoes("menu", "spinning") /\ UNCHANGED <<vars, login_sem, user_vars>>

(* Mutant: the wait has no predicate.                                      *)
TakeAnswerUntested ==
  /\ login_sem' = login_sem - 1
  /\ UiGoes("answer", "result")
  /\ UNCHANGED <<vars, user_vars>>

TakeAnswer ==
  /\ login_sem > 0 /\ login_sem' = login_sem - 1
  /\ UiGoes("answer", "result")
  /\ UNCHANGED <<vars, user_vars>>

ReadResult ==
  /\ UiGoes("result", IF login_success THEN "chat" ELSE "end")
  /\ believed' = IF login_success THEN "success" ELSE "failed"
  /\ UNCHANGED <<vars, login_sem, aborted, chats>>

Chat ==
  /\ SendReaches
  /\ chats < MaxChats /\ chats' = chats + 1
  /\ UiGoes("chat", "chat")
  /\ UNCHANGED <<login_sem, believed, aborted>>

(* The choice is to quit, or the input has ended or cannot be used.        *)
Leave ==
  /\ UiGoes("menu", "end") \/ UiGoes("chat", "end")
  /\ UNCHANGED <<vars, login_sem, user_vars>>

UiEnds ==
  /\ ui_pc = "end"
  /\ ExchangeFinished(UI)
  /\ UNCHANGED client_vars

-----------------------------------------------------------------------------
Down == Crashed \/ aborted

Main ==
  \/ CallConnect \/ StreamStep \/ OnConnect \/ Pick \/ OnReveiveEnds
  \/ SetResult \/ Release \/ Show
  \/ ConnectReturns \/ CatchSetsConnected \/ CatchSetsFailed \/ CatchNotifies
  \/ Join \/ DestructorBegins

Interface ==
  TestHasConnected \/ Sleep \/ TestFailed \/ TakeAnswer \/ ReadResult \/ UiEnds

User == Aborts \/ Request \/ InputEndsInLine \/ Chat \/ Leave

ClientNext ==
  /\ ~Down
  /\ \/ ServerStep \/ Main \/ Interface \/ User \/ WakeSpuriously
     \/ (Kernel \/ Receiver) /\ UNCHANGED client_vars
     \/ \E c \in Closers : CloserStep(c) /\ UNCHANGED client_vars

ClientSpec == ClientInit /\ [][ClientNext]_all_vars

(* Threads run, the kernel completes a call that can complete, and who     *)
(* waits for has_connected_mtx gets it, even if sleepers wake up for no    *)
(* reason and take it in between.  The user and the server owe nothing.    *)
FairClientSpec ==
  /\ ClientSpec
  /\ SF_all_vars(~Down /\ OnConnect)
  /\ WF_all_vars(~Down /\ Main) /\ WF_all_vars(~Down /\ Interface)
  /\ WF_all_vars(~Down /\ Kernel /\ UNCHANGED client_vars)
  /\ WF_all_vars(~Down /\ Receiver /\ UNCHANGED client_vars)
  /\ \A c \in Closers : WF_all_vars(~Down /\ CloserStep(c) /\ UNCHANGED client_vars)

-----------------------------------------------------------------------------
(* Safety.                                                                 *)

(* The user is told what the server answered, with the name and the id     *)
(* that go with it: m_login_sem is released behind all writes of an answer,*)
(* and once, and as m_name and m_id are plain members, the picking thread  *)
(* and the user interface never have them at the same time.                *)
ResultIsHandedOver ==
  /\ believed # "none" => \E i \in 1 .. handled : script[i] = believed
  /\ ui_pc = "result" => handler_pc \notin {"success", "echo"}

(* The notification of on_connect is never lost: whoever sleeps on a       *)
(* condition that holds, sleeps through a connect() that has failed.       *)
OnlyFailureLosesWakeup ==
  ui_pc = "asleep" /\ has_connected => main_pc # "connect" /\ ~is_connected

-----------------------------------------------------------------------------
(* Liveness, under FairClientSpec.                                         *)

(* When the server closes or resets the connection, connect() ends, unless *)
(* the process goes down.                                                  *)
ServerLossEndsConnect == server # "up" ~> owner_pc \in Left \/ Down

(* The user who quits gets out, and so does a client whose connect() has   *)
(* ended: end_communication() comes back, in the user interface through    *)
(* the wait for pick_msg(), then join() and the destructor, unless the     *)
(* process goes down.                                                      *)
QuitEndsTheProgram == ui_pc = "end" \/ main_pc = "left" ~> destroyed \/ Down

LostWakeup == ui_pc = "asleep" /\ has_connected
Unanswered == ui_pc = "answer" /\ \A i \in 1 .. handled : script[i] \notin Answers
AnswerDropped == ui_pc = "answer" /\ owner_pc = "threw" /\ login_sem = 0

(* All that the program may wait for in vain: the user; an answer, which   *)
(* does not come any more once the server is lost; and, when connect() has *)
(* failed, the notification that was lost.                                 *)
OnlyKnownWaits ==
  <>[] \/ destroyed \/ Down
       \/ ui_pc \in {"menu", "chat", "spinning"}
       \/ LostWakeup \/ Unanswered \/ AnswerDropped
=============================================================================
