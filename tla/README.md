# A verification of TMChat

TMChat is a chat server and its console client in C++, over a small socket
library (`tmsocket`) and a small concurrency library (`prep`). This directory
holds TLA+ modules that model the parts of it that run concurrently or keep
state, the configurations that TLC checks them with, and theorems that the TLA+
proof system checks. Paths below are relative to `src/src/`.

## 1. The system

```
  client.cpp  (user interface thread + connecting thread)
     |  client_communicator.cpp  (framing)
     |  client_stream.cpp        (receiving thread, message queue)
     ~  TCP
     |  server_stream.cpp        (accepting thread, one receiving thread per client, queue)
     |  server_communicator.cpp  (framing)
  server.cpp  (handlers, run by the thread that picks messages)
     |  local_database.hpp
```

| component | state it keeps | operations | what makes it correct |
|---|---|---|---|
| `prep::concurrent::semaphore` | count, mutex, condition variable | `acquire`, `try_acquire`, `release` | the count stays in range; no free permit is left to sleepers nobody woke |
| `concurrent_queue` | queue, mutex, condition variable | `emplace`, `wait_for_pop`, `clear` | every element once, in order; none is left while a consumer waits |
| `concurrent_list`, `event` | list of semaphores; list of callbacks | append, visit; subscribe, invoke | as used here: nothing of their own |
| `server_stream` | flags, `m_msg_q`, `m_client_fds`, a semaphore per detached thread | `listen`, `pick_msg`, `end_communication`, `send_to_*`, destructor; `accept_clients` and `receive_from_client` threads | no thread works on a stream that has ended; callbacks of a connection complete and in order; the end comes to an end |
| `client_stream` | the same, with one receiving thread | `connect`, `pick_msg`, `end_communication`, `send_to_server`, destructor | the same; the loss of the server ends `connect` after all data was handled |
| communicators, `protocol.ipp` | a receive buffer per connection | `encode_message`, `try_decode_message` | messages arrive whole, unchanged, in order, as soon as they can |
| `local_database` | accounts by id | `add_data`, `remove_data`, `get_data`, `id_exists`, `size` | a new id is free, so that `emplace()` never meets another account |
| `server` | `m_fd_to_id`, database | `on_receive` (register, login, chat), `on_disconnect` | one answer per request; a chat is told sent iff every member got it; membership needs a password and ends with the connection |
| `client` | login result, `m_login_sem`, id, name | user interface loop, `on_reveive` | the user interface is never left waiting |

They interact in three ways. *Queues*: receiving threads put messages into
`m_msg_q`, and the one thread in `pick_msg()` runs the callbacks. *Semaphores*:
a detached thread gives its semaphore back before a blocking system call and
takes it again after it; `end_communication()` takes every semaphore for good.
*Calls*: a handler sends on other connections while the receiving threads go
on, so that a member may vanish in the middle of a broadcast.

The hard behaviours are therefore the end of a communication at any moment and
from any thread, what runs behind a released semaphore, exceptions in the middle
of a handler, peers that close or reset at any time, and data cut into arbitrary
chunks. `PROJECT.json` lists them as hazards, each at its line, with the
properties that would catch it.

## 2. The modules

| module | models | uses |
|---|---|---|
| `CountingSemaphore` | what users of the semaphore count on (abstract) | |
| `Semaphore` | `semaphore.hpp` | refines `CountingSemaphore` |
| `ConcurrentQueue` | `concurrent_queue.hpp` | |
| `StreamEvents` | what a `server_stream` promises its user (abstract) | |
| `ServerStream` | `server_stream.cpp`, with `connect_impl` | refines `StreamEvents`; takes semaphore and queue as atomic |
| `ServerSending` | sends to clients, and `m_client_fds_lock` | extends `ServerStream` |
| `ClientStream` | `client_stream.cpp`, with `connect_impl` | takes semaphore and queue as atomic |
| `ChatClient` | `client.cpp` | extends `ClientStream`, whose user it is |
| `MsgChannel` | messages delivered in order (abstract) | |
| `Communicator` | `protocol.ipp`, the two communicators' buffers | refines `MsgChannel` |
| `LocalDatabase` | `local_database.hpp` | |
| `ChatServer` | `server.cpp` | composed with `StreamEvents` and `LocalDatabase` |
| `*Proofs` | theorems about the module they are named after (`ServerSending`'s are in `ServerStreamProofs`) | |
| `MC*` | symmetry and small definitions for TLC | |

The layers rest on each other: `Semaphore` is shown to be a counting semaphore,
which `ServerStream` and `ClientStream` then use in single steps; `ServerStream`
is shown to implement `StreamEvents`, over which `ChatServer` runs, and is proved to
implement it with the sends of `ServerSending` as well.

### ServerStream

Threads and where they are: `owner_pc` (in `listen()` and `pick_msg()`),
`worker_pc[w]` for the accepting thread and each receiving thread,
`closer_pc[c]` for each thread that may be in `end_communication()`. Shared
state: the flags `m_is_finished`, `m_is_connected`, `m_begin_pick_msg`,
`m_finish_pick`; `m_msg_q` as `msg_q`; `m_client_fds`; for each worker, whether
the stream still owns its semaphore (`sem_owned`) and whether its one permit is
free (`sem_free`). The rest is the outside: peers, the chunks they wrote, faults.

One step is one access to shared state, or one section that a semaphore guards.
The guarded part of a receiving thread that removes a descriptor is two steps
(`HangUp`, `QueueDisconnect`), because sends see the first before callbacks see
the second. `ReadRecvArgs` is a step of its own: the arguments of `recv()` are
evaluated after the semaphore was released. An exception may come up wherever
memory is allocated (`WorkerThrows`), with the parts of the guarded section done
that precede it. `listen()` ends in steps of its own: `on_listen` or the making of
the semaphore (`MakeAcceptSem`), then the start of the accepting thread
(`StartAccepting`); each may throw, and the end may come in between, when it
finds the semaphore and the thread a null pointer.

A connection and its descriptor are one thing: `server_stream.cpp` closes no
client descriptor, so the kernel never gives a number out twice.
`ThreadKeepsArgs` says whether a `std::thread` keeps its copy of the `shared_ptr`
argument while it runs. It does in the usual implementations, and then the
`weak_ptr` never expires; the code provides for both, and the runs take both.

### ClientStream

As `ServerStream`, with one receiving thread. The differences are the code's:
the semaphore is made after `on_connect`, so that the end may meet a null pointer
(`DerefNullSem`); a closed connection does not end the receiving loop
(`QueueDisconnect`), which reads 0 again and again; a message of that kind makes
`pick_msg()` throw; a failed `connect_impl()` may be tried again.

### ServerSending

`ServerStream` says nothing of what callbacks do. Here a callback may send, to
one client or to all, once (`call`). From the first descriptor to the last the
picking thread holds `m_client_fds_lock` (`Locked`); `::send()` begins (`SendMsg`)
and comes back later, when the peer has room (`Room` messages) or with a failure,
or ends the process. A worker waits for the lock where it inserts a descriptor
(`Inserts`) or erases one (`Erases`), with its semaphore taken, for which the end
of the communication waits in turn: that this chain comes undone is what
`EndReturns` and `HangUpIsSeen` say. Every other step is `ServerStream`'s. What
the lock is for, among others, is `DisconnectEndsSends`: when the disconnect of a
connection is queued, no send to it is going on, nor is one still to come, of a walk
over a copy of `m_client_fds` that began before.

### ChatClient

The program around a `ClientStream`. `main_pc` is the constructor: `connect()`,
whose steps are the stream's, then `join()`, or the `catch (...)` with its three
steps, which take no mutex. `ui_pc` is the user interface: the wait for
`has_connected` (a test and a sleep under `has_connected_mtx`, apart from each
other, because the `catch` may come in between), the menu, one request, the wait
on `m_login_sem`, the reading of the result, chats, `end_communication()`.
`handler_pc` is `on_reveive`, which writes the result and releases the semaphore
in steps of their own. The server answers a request once, sends chats and
echoes, closes and resets (`ServerStep`); that it answers once is `OneReply` of
`ChatServer`. The user may quit at any prompt. A failed send leaves the thread
with an exception, which ends the process (`aborted`).

Three waits are in vain, and `OnlyKnownWaits` says that there is no fourth:

* `Unanswered`: the server was lost before it answered; nothing releases
  `m_login_sem` (`client.cpp:93`, `123`), so that `thr.join()` waits as well.
* `LostWakeup`: `connect()` failed just when the user interface had tested
  `has_connected` and was not asleep yet (`client.cpp:176`).
* `AnswerDropped`: `pick_msg()` was left by an exception before the answer was
  handled.

Besides these, the program may wait for its user; `spinning` is the loop of
`client.cpp:69`, which input that ends inside a line does not end.

### Communicator

The three marks, which share the stem `tmsocket_`, are two characters each, a
shared one and one of their own: enough for a chunk or a message to begin, end
and break in the middle of a mark, and, as in the code, no mark overlaps itself
or another. `Scan` is the loop of
`try_decode_message`, with its erasures, and their undoing in `Decode`. The
sender may be cut short in the middle of a frame by the end of its communication
(`SendCutShort`, from `send_msg`).

### ChatServer

A handler is a record: which request, whom the copies of a chat are still to go
to, the reply, and the answer of the `catch (...)`. Each send is a step, with the
outcomes the code has: sent; `client_not_exist` or a failed `send()`, caught or
escaping; SIGPIPE, which ends the process, as `send()` is called without
`MSG_NOSIGNAL` and no handler is installed. A user's name and password are one
value. The order of a broadcast is any order, for it is that of descriptors.

Text that is not of the form the chat client writes falls into three kinds.
`invalid` is what makes `on_receive` throw `invalid_message`, which it catches. A
registration without a line end behind its password (`CutRegister`) has `tellg()`
give -1 and `substr()` throw `out_of_range` (`server.cpp:102`), outside the inner
`try` and before the test of line 103; no `catch` takes it, and it ends `listen()`
and the server (`Unwind`). A login whose id does not parse, or that no line end
follows (`BadLogin`), leaves `sin` failed, and the loop of line 125 never ends
(`Hung`). `substr()` in line 126 cannot throw: that loop is left only when `get()`
has returned a line end, and then `tellg()` is a position of the text.

### LocalDatabase, Semaphore, ConcurrentQueue

Each operation runs under one mutex. In `LocalDatabase` it is one step. In the
other two it is one step up to the point where a thread goes to sleep on the
condition variable; a woken thread competes for the mutex again, may be overtaken,
and may have been woken for no reason.

## 3. The runs

| run | what it shows | bounds, and why they are enough |
|---|---|---|
| `stream_app` | the chat server's use: semaphores keep workers off an ended stream, and each connection's callbacks are those of `StreamEvents` | two connections, so that one can be starting while the other ends; one chunk each; one fault anywhere |
| `stream_ends` | callbacks send under the lock, further threads end the communication, from before `listen()` on and at once, and the pointers may expire: it ends once and does come to an end, nothing runs on the stream where a null semaphore is met (that it is met, and takes the process down, is what the code does), hang-ups are seen, no send to a connection follows its disconnect | one connection, room for one message, so that a second send waits; two threads besides the owner, so that two are in `end_communication()` together; one fault anywhere |
| `stream_recv_args` | violated: a destroyed stream is read (finding 1) | one connection; one fault, so that the report of line 211 is reached as well, though the trace is the shorter one of line 168 |
| `stream_parked` | violated: a worker waits for ever after the end (finding 2) | one connection |
| `chat_client` | the client's stream under its user: as the first two for the client, all data is handled before the disconnect is thrown, a lost server ends `connect()`; the user is told what the server answered, and gets out by quitting; what may be waited for in vain | two chunks, an answer and one more message; two reads of the end, so that a second disconnect is queued; one chat; two faults, so that a reset meets a failed allocation |
| `semaphore` | the count, the wake-ups, and the counting semaphore, fairness included | three threads, two permits: two sleepers and two releases before either wakes |
| `concurrent_queue` | once, in order, and taken while somebody waits | two producers of two elements, two consumers |
| `communicator` | messages delivered whole, in order, at once | two messages of every shape up to the bound in `MCCommunicator`, including those made of marks; every way to cut them |
| `database` | the walk finds the smallest free id | ids up to a limit of 5, two kinds of data, and all orders of adding and removing: gaps everywhere, full and empty |
| `chat_broadcast` | who gets a chat, what its sender is told, what an exception may do | three connections: sender, a member that stays, one that leaves; four requests, halves of registrations among them |
| `chat_accounts` | one answer, ids never told twice, each with the data it was told for, membership by password, forgotten when gone | every type of request; two users and two connections; three requests; the database is full at two |
| `chat_live` | every request is answered, or the client left, the server is down, or it hangs in a `BadLogin` | two connections, one user, three requests |

`CHECK_DEADLOCK` is off wherever it stands, because these systems do stop: peers
are done, the stream is destroyed, bounds are used up. That nothing stops too
early is what the liveness properties say.

### Fairness

`FairSpec` of the streams: each thread takes a step when it can go on taking one
(threads are scheduled, callbacks return), and the kernel completes a system call
that can complete. Peers owe nothing; nobody need call `end_communication()`,
except that in `ServerStream` the owner destroys its stream when `listen()` has
ended. Only weak fairness is used there: a semaphore that is free stays free
until its worker or the one closer takes it. `Semaphore` and `ConcurrentQueue`
assume only that a thread on its way to the mutex gets it; not that it is the
first, and no spurious wake-up. `ChatServer` assumes strong fairness of the
handlers of each connection: `m_msg_q` is first-in first-out, so no connection is
passed over for ever. `FairSendSpec` adds that a peer that is up reads what it is
sent, as the receiving thread of a `client_stream` does: a peer that stops
reading stops the server's accepting and receiving threads and its end for as
long, which is a property of holding the lock during a send and of no run here.
`FairClientSpec` assumes strong fairness of `on_connect` only, which wants
`has_connected_mtx` while the user interface may, with spurious wake-ups, take it
again and again; the user and the server owe nothing.

## 4. What is proved

For every value of the constants, checked by TLAPS. Every safety invariant and
action property that a passing run checks, and every refinement's safety part, is
stated by a theorem. An invariant proof is laid out the same way everywhere: a type invariant with what it
needs to be inductive, then one invariant per question, each using those before it.

* **`SemaphoreProofs`.** `CountInRange`; `WakeupsSuffice`, by counting: every
  release adds a permit and a woken thread, and a thread that stops being woken
  took a permit or saw none; `IsCountingSemaphore`, the refinement (its safety
  part).
* **`ConcurrentQueueProofs`.** `TypeCorrect`. `NotificationsArrive` is inductive
  with the type invariant: `emplace()` adds an element and a woken consumer, a pop
  removes one of each, and nobody falls asleep while an element is inside.
  `ElementsPassOnceInOrder` looks at what came out and what is inside as one
  sequence, `Passed`, which a pop leaves as it is (`TestKeepsPassed`), `emplace()`
  extends and `clear()` cuts. `OrderInv` says that each producer's elements ascend in
  it, that none beyond `put` is there (or the next `emplace()` would repeat it), and
  that those not there were cleared.
* **`ServerStreamProofs`.** `TypeCorrect`. The type invariant is not inductive
  alone: that a chunk's number stays in range needs that `recv()` returned data
  only when some was unread (`DataPending`), and that a thread starts once needs
  that a connection is accepted once (`AcceptedOnce`, `StartedOnce`).
  `OnePermitHolds`: a worker's permit is free, or the worker's, or was taken by
  the end; hence `AssertNotReached`: the code's `assert(0)` is out of reach, even
  where the `weak_ptr`s expire. `QuietAfterEndHolds`: if nobody ends the communication before
  `listen()` picks messages, no worker is in a guarded section when the socket is
  closed. Its invariant `EndInv` follows the one thread that ends the
  communication (`OneEnder`) through its waits: `StartedByThen` (the accepting
  thread's semaphore was there), `StayTaken` (the accepting thread's is taken
  before the visit, so that no new receiving thread appears), `NothingLeft` (the
  visit is over when all were taken). `CrashComesFirst` has no hypothesis on who
  ends the communication: the null semaphore is met only where the accepting
  thread was not started (`CrashInv`: the ender is one, the socket is closed last,
  and the accepting thread is the first of the threads).
  `StreamImplementsEvents`: the stream is what `StreamEvents` promises, over which
  `ChatServer` is checked and proved. Each connection's pipe is its messages in
  `m_msg_q`, in their order (`EventsIn`, which numbers their places instead of filtering
  the queue recursively). Two lemmas say what it makes of the queue:
  `EventsAppend`, when a message is queued, and `EventsTail`, when one is picked; they
  rest on `Ranks`, that places are numbered without a gap. The rest is what a step is
  to the user: an arrival, a hang-up, a queued chunk or end, a handled event, the
  stop, or nothing. Its invariant `LifeOK` ties `m_client_fds` to the receiving
  thread's place in its loop, and `m_finish_pick` to the end of `listen()`.
  The end of the module is about `ServerSending`. `StreamSteps`: each of its steps is
  a step of `ServerStream`, a stutter, or a reset that comes after the peer has
  closed, so that the stream's lemmas serve again: `SendersCrashComesFirst`,
  `AssertNotReachedBySenders`, `QuietWithSends`, and `SendersSeeTheEvents`: the chat
  server, which sends from its callbacks, may rely on `StreamEvents` all the same.
  `SendTypeCorrect` and `DisconnectsFollowSends` are about the lock. The second has two
  halves: what a walk still sends to is in `m_client_fds`, as who erases waits for the
  lock (`SentWhileRegistered`); and whose disconnect is in the queue is out of it for
  good, as its thread has ended and nobody registers it again (`DisconnectedGone`,
  which needs `LifeOK`).
* **`CommunicatorProofs`.** `NothingIsStuck` and `FramingImplementsChannel`, for
  messages of any length with any marks in them, and chunks of any size. The inductive
  invariant is `FramesInv`: the buffer and what is on the wire are, together, the frames
  of the messages sent and not yet received, the last of which may be cut short by the
  sender's end, and the buffer alone is less than a frame (`Partial`). That less than a
  frame is left is what the induction needs beyond the properties, and it is what
  `while (try_decode_message(...))` is for (`DrainFrames`). It rests on
  `ScanFrame`: over a frame the loop yields the message that was encoded and stops
  where the frame ends, over a part of one it finds no end; and on `DecodeFrame`, which
  adds that nothing stands before the first prefix. The functions `Doubled`, `S` and `D`,
  which recur over positions, are shown to exist (`RecursionHasSolution`: a recursion
  along a decreasing measure has a solution). Induction over positions is by the least
  counterexample (`SetInduction`, `DownInduction`).
* **`ClientStreamProofs`.** `PermitIsSingle`. `CrashComesFirst`, from `EndInv`: one
  thread at most ends the communication, and the semaphore lives from `connect()`
  to there. `DisconnectComesLast`: the type invariant carries the order of the
  queue (`QueueOK`: chunks ascend without a gap up to the last one read, and
  disconnects come behind them), and `EofFinal` that `recv()` returns 0 only when
  nothing more can come. `QuietUnlessEarly` has the hypothesis `~EarlyStop`.
* **`ChatClientProofs`.** `ClientUsesItsStream`: every step of the client is one of
  its stream, a stutter, or one that a user of the stream may take; what was
  proved of the stream is then true in the client. `ClientsStreamIsQuiet` needs no
  hypothesis: the user interface waits for `has_connected`, which the client sets
  in `on_connect` (`StartInv`). `WakeupsAreLostByFailures`. `ClientTypeCorrect` and
  `ResultsAreHandedOver` rest on `ChatInv`: a login has one answer (`OneAnswer`),
  an echo follows a chat (`EchoesFollowChats`), `on_reveive` is about the last chunk it
  was called with (`HandlerOK`), and the permit of `m_login_sem`, free or taken by the
  user interface, is that of an answer whose writes are done (`ResultOK`).
* **`LocalDatabaseProofs`.** `NextIdIsFree`, for any width of `id_type`: the walk
  stops at the least number where ids and positions part, below which ids are
  dense.
* **`ChatServerProofs`.** The type invariant is inductive with the order of each
  connection's events (`EventsOK`: chunks ascend, `Eof` is last) and with
  `MembersAuthenticated`, as the handler looks a member's account up.
  `EscapesHaveCauses` and `GoneForgotten` follow the call that is going on, send by
  send (`CallOK`): a send throws only to one who has left, what it throws over another
  member is caught, and nothing of a connection is handled behind its `Eof`. `ChatsAreBetweenMembers`, `SuccessesReachAll` and
  `FailuresHaveACause` are properties of steps; they need what a broadcast has done
  so far (`BroadcastOK`, `ReachedOK`, `CauseOK`). `IdsDistinct`: every id that was
  told is that of an account (`IdsKnown`), and `NextIdAtGap` says that a new one is not.
  `RegistrationsKept`: an answer that tells of a registration, sent or still to be
  sent, is about an account with that registration's data (`TellsKept`), for the walk
  stops at an id that `emplace()` finds free (`NewAccount`).
  `OneReplyEach`: every reply in an inbox is to a request that was handled or is being
  handled and has not been answered yet (`RepliesOK`, `AllAnswered`).

Assumptions: those named in the modules (finitely many threads, distinct names,
bounds that are numbers, `init_val <= max_val`, which the constructor enforces,
messages that are strings) and, where it is stated, `~EarlyStop`: `ServerStream` and `ClientStream` are used
by code that does not end the communication before it is up. The chat client is
proved to be such code.

Only model-checked:

* every liveness property, and the fairness of `CountingSemaphore`: ENABLED and
  liveness under fairness are out of the prover's reach;
* the two runs that end in a counterexample.

## 5. Findings

1. `stream_recv_args`: `receive_from_client` reads `buf_size()` for `recv()` after
   it has released its semaphore (`server_stream.cpp:168`, released at 162). The
   end may run to its end in between, and the stream may be destroyed.
   `client_stream.cpp:131` does the same, with `m_fd` too.
2. `stream_parked`: a worker that comes back from its system call after the end
   does not take the branch "Communication has been closed"
   (`server_stream.cpp:172`): the semaphore it locks a pointer to is kept alive by
   the thread's own arguments, and it waits on it for ever.

Not findings of a run, as no document says otherwise, but visible in the code:
the waits in vain of the chat client listed in section 2; `concurrent_queue::try_pop()`
cannot be instantiated, and would lock its mutex twice if it could; half a
registration, which ends the server for all (`server.cpp:102`, where line 103 was
to make an invalid message of it), and a login without a readable id, which hangs it
(`server.cpp:125`): `EscapesHaveACause` and `EveryRequestAnswered` say that nothing
but these, and a requester that has left, does so; and a
user interface that ends the communication between `on_connect` and the
making of the semaphore takes the client down (`ClientStream`, `DerefNullSem`,
which the run shows to be harmless to the receiving thread, as there is none).

## 6. What is not modelled, and why

* The console dialogue, and the text of requests: a request is of the form that
  `client.cpp` composes, or one of the three malformed kinds of section 2.
* A callback that calls `end_communication()`, or sends from `on_connect` (each
  waits for itself: a caller's obligation, which the chat server and the chat
  client keep); more than one send in a callback of `ServerSending`, which is
  what `ChatServer` has, step by step.
* `concurrent_list`, `event`: used in one pattern each, which the streams' modules
  contain. The loops over `event` callbacks are the callbacks' steps.
* Initialisation of the network, error texts, `errno`, entry points, build files.
* Data races on plain members (`m_fd`, the `shared_ptr` of the client's
  semaphore): a read sees the old or the new value; torn values are not modelled.

## 7. Plan

Done: the inventory, and the modules above in this order: `StreamEvents` and
`ServerStream` with its proofs; `LocalDatabase` with its proofs; `ChatServer`;
`MsgChannel` and `Communicator`; `CountingSemaphore` and `Semaphore` with its
proofs; `ConcurrentQueue`; `ClientStream`; `ChatClient`; `ServerSending`.

All invariants, action properties and refinements are proved. What may follow:

1. That `ServerSending` implements `ServerStream` up to its late resets is a lemma
   about steps (`StreamSteps`); a stream in which peers may reset after closing would
   make it a refinement.
