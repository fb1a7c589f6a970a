# A verification project for the GameLift sample

This directory models the core of the repository in TLA+, checks the models with
TLC on small instances, and proves theorems about eight of them, for all values of
their constants, with TLAPS. `PROJECT.json` lists the components, the runs, the line
of code each definition models, the hazards the properties are aimed at, the
findings and the theorems.

Paths: **GS** is `src/GameLiftGameServer/GameLiftGameServer`, **DC** is
`src/DummyClients/DummyClients`, **LX** is `src/GameLiftLinuxServer`, **CC** is
`src/Cocos2dxGameClient/Classes`.

## 1. The system

Four programs show how a game uses the GameLift service: a game server for
Windows (GS), the same for Linux (LX), a load generator that plays many clients
(DC), and a graphical client (CC). They share the packet definitions in
`src/PacketShare`. A game server process registers with the service
(`ProcessReady`), is told to start one game session (`OnStartGameSession`),
accepts the player sessions the service has reserved, relays chat and move
packets to all players, and ends itself when the players have gone or the
service asks for it.

| Component | State | Operations | Interacts with |
|---|---|---|---|
| `CircularBuffer` (GS; copies in DC, LX, CC) | byte array, regions A and B | `Write`, `Commit`, `Peek`, `Read`, `Remove`, free-space and pointer queries | owned by a session; the kernel reads and writes it |
| `Session` (GS) | `mConnected`, send buffer with its lock and pending count, receive buffer, socket | `OnConnect`, `PostSend`, `FlushSend`, `SendCompletion`, `PreRecv`, `PostRecv`, `RecvCompletion`, `Disconnect` | I/O threads, kernel, broadcasts |
| `IOThread`, `IocpManager` (GS) | completion port, accept loop | `DoIocpJob`, `StartAccept` | all sessions |
| `GameLiftManager`, `GameSession`, `PlayerSession`, packet handlers (GS) | `mLock`, `mActivated`, accepted and removed counts, the players, each player's id | SDK callbacks, login, logout, broadcast, termination | sessions under two kinds of locks; the service |
| `FastSpinlock` (GS; a simpler one in DC) | one 32-bit word | enter and leave, for reading or writing | every lock above |
| `JobQueue`, `AsyncExecutable` (DC) | linked list, task count, reference count; per thread an executor list | `DoAsync`, `DoAsyncAfter`, `DoTask`, `Push`, `Pop`, `Flush` | worker threads and timers |
| `Timer` (GS, DC), `Scheduler` (LX) | priority queue of due tasks | push, run what is due | dispatcher, event loop |
| `ObjectPool` (GS, DC) | ring of free blocks, two positions | `new`, `delete` | I/O contexts, jobs |
| client sessions (DC) | connection state, reference count, send buffer and pending count, player session id, test counter | `ConnectRequest`, `PostSend`, `PreRecv`, `PostRecv`, `DisconnectRequest` and their completions; `StartTest`, `PlayTest`, `EndTest` | I/O threads and their timers, server |
| launch (DC) | game sessions with their prepared player sessions | create or place, poll, create player sessions, connect; terminate, stop the I/O threads | service, client sessions |
| Linux server (LX) | client list, epoll set, counts | event loop, flush, callbacks | service, clients |
| Cocos client (CC) | socket and two buffers | connect, receive, send | server |

Hard behaviours: I/O completions of one session handled by several threads in any
order; a kernel that reads a buffer after its lock was released; two kinds of
non-reentrant locks taken in both orders; disconnection from every error path,
also under locks; lock-free queues and lock words; decisions taken from counters;
references taken
for every asynchronous operation and returned on every path; a timer that pops after
it has run; the end of the process as something that must happen. `PROJECT.json` lists each
hazard with its line and the properties aimed at it; a hazard that no property covers
carries a note.

## 2. The modules

| Module | What it is |
|---|---|
| `CircularBuffer` | the methods of the class as operators on an object record (memory, two regions) |
| `ByteFifo` | abstract: a bounded queue of bytes |
| `BufferUse` | a buffer under every sequence of calls its owners make; `IsFifo` is the refinement of `ByteFifo` |
| `CircularBufferProofs` | lemmas: what each method does to the layout and to the contents; theorems about `BufferUse` |
| `Session` | one session: two `CircularBuffer`s, I/O threads, a broadcasting thread, the kernel |
| `SessionProofs` | theorems about `Session` |
| `GameServer` | the whole Windows server with several sessions, the SDK's thread, the service and the clients |
| `GameServerProofs` | theorems about `GameServer`, with its refinement of `GameSessionLife` |
| `GameSessionLife` | abstract: the life of a game session as its players and the service see it |
| `LinuxServer` | the whole Linux server: event loop, sessions and descriptors, the SDK's thread, the service and the clients |
| `LinuxServerProofs` | theorems about `LinuxServer` |
| `FastSpinlock` | the lock, one action per atomic instruction |
| `ReadWriteLock` | abstract: a readers-writer lock |
| `FastSpinlockProofs` | theorems about `FastSpinlock` |
| `JobDispatcher` | job queues, executors and timers' references, one action per access to shared memory |
| `SerialExecution` | abstract: jobs of an object run one at a time, once, in order |
| `JobDispatcherProofs` | theorems about `JobDispatcher`, with its refinement of `SerialExecution` |
| `ObjectPool` | the cache of memory blocks, one action per interlocked instruction |
| `ObjectPoolProofs` | theorems about `ObjectPool` |
| `Timer` | the priority queue of timer jobs, as operators on a value |
| `ClientSession` | the dummy clients' connections, the I/O threads with their timers, the network and the game server they talk to |
| `DummyClients` | composition: the main thread, the service and `ClientSession` |
| `DummyClientsProofs` | theorems about `DummyClients` |
| `MC...` | constants for TLC |

**CircularBuffer.** An object is the record of the class's fields; pointers are
offsets and `NULL` is -1. `GetFreeSpaceSize` may switch regions, so it is
`SwitchRegion` followed by `Room`. `Read` and `Remove` share `Consume` and
`PromoteB` (the move of region B to the front, the code's `memmove`). Bytes are
stored, moved and read one by one, so an error of the layout shows as wrong data.

**Session.** A thread is a stack of frames, the running call first, and `ret` its
last return value. The steps are the places where another thread can come in
between: taking a lock, calling the kernel, an interlocked operation. A pending
`WSASend` remembers offset and length in the send buffer, and `KernelTransmit` reads
the bytes when it transmits, not when it is called. `owed` holds the bytes posted and
not yet transmitted. The kernel may finish or fail any pending operation at any
moment; the completion port hands them out in the order they were
finished, each to any I/O thread. `mLock` is there too, as the lock that a broadcast
holds while it posts and that `OnDisconnect` enters and leaves: `Disconnect` is called
with `mLock` held when a broadcast's post fails, and with `mSendBufferLock` held when
`FlushSend` fails. Whether the player is logged in, and `OnDisconnect` enters the lock at
all, is left open here; `GameServer` has that.

**GameServer.** The same frames, one session per player, with packets instead of
bytes; a send buffer holds at most `SendCap` packets. `mLock` and each
`mSendBufferLock` are modelled as held by a thread or `Nobody`, and taking a held lock
blocks, also for the holder. A read of the shared pointer and of the players' set
under `mLock` is one step. `service` and `gameStatus` are the service's view, fed by
the SDK calls; the clients do what DC's `StartTest`, `PlayTest` and `EndTest` do, and
may be cut off. `exitCode` is why the process ended.

**LinuxServer.** The one thread of the event loop stands at `at`: it waits, works
through a batch of events, is in `OnReceive` for the session `cur`, or runs over the
sessions of `todo` in a broadcast or a flush. Only the kernel, the clients and the
SDK's thread come in between, so a handler is one step, except that a Disconnect at
its end and a broadcast are steps of their own. `ready` is epoll's list: an edge is
added when something arrives and is gone once reported. A session's descriptor is
closed in the step in which its last `shared_ptr` goes (`Owned`), and `accept` gives
out the least free one. Erasing from a container while it is iterated is undefined
behaviour: the process crashes, or the loop goes on with any of the elements left. The
service refuses to remove a player once the game session has ended (an assumption).
Packets of a type in range but without a handler, which no client sends, are left out.

**FastSpinlock.** `mLockFlag` is the word itself; `WriteBits` and `ReadBits` are the
masks of the header. A waiting loop is an action that is enabled when the loop's
condition lets it go on.

**JobDispatcher.** A node is a job, or the object itself for its `mStub`. `post` is
the first half of a `DoTask` call and `flush` the second, because a job that is
executed may call `DoTask` again, and that call never flushes. `waiting` and
`executing` record the order of the exchanges and what runs; `freed` the deleted
jobs. Jobs may be posted by `DoAsync` or armed by `DoAsyncAfter`, from inside a job or
outside; the program itself uses only `DoAsyncAfter`, the class offers both. When a
timer job is due is left open.

**ObjectPool.** `mPool`, `mHeadPos` and `mTailPos` are the class's; `heap` and `live` are
the blocks the C heap owns and those that hold an object. A thread is outside, or
between the increment and the exchange of `operator new` (`pop`) or `operator delete`
(`insert`), or behind the exchange with `malloc` or `free` to do. Any thread may delete any
live object. The positions wrap at `Wrap`, which stands for 2^64, so that the state space
is finite; the theorems hold for every `Wrap`. `_aligned_malloc` is modelled as always
having a block (`MemoryLeft`): the code does not check.

**Timer, ClientSession, DummyClients.** A session is driven by its I/O contexts:
`pending` counts those in the kernel for each kind of operation, and a thread that has
dequeued one has it in `hand` until `DeleteIoContext`. A thread's `pc` says what is left
of the handler: `prerecv` and `login` in `ConnectCompletion`, `post` behind `IsConnected` in
`PostSend`, `disc` behind the exchange of `DisconnectRequest`, `loop` and `after` in
`DoTimerJob`. `Leave` is the common end of all handlers. Completions are dequeued in any
order by any thread. An operation fails at once only on a connection that is down;
`Break` ends a connection and drops what the server has not read. The timer queue of a
thread is its top element and the set of the others: `DoTimerJob` pops "the top" after
`PlayTest` has pushed the next job, and a heap fixes no order among equal ticks, so `Pop`
has several results. Due ticks count from now and `lag` is the age of the thread's
`LTickCount`; `Tick` lets both go on. In the program a `PlayTest` always finds its
dispatcher free, which is `OneChain`, so `DoTask` runs it on the spot (`JobDispatcher` is
the general case). Main creates or places each game session, and `status` is what the
service says of it: `dead` stands for the states in which both polling loops go on for
ever. Main stores a session's id and then its index behind `ConnectEx`, in two steps.
`id` of a packet says whether what identifies it was stored when it was composed: the id
for a login, a chat and an exit, the index for a move. An id that is read while it is being
assigned counts as missing. In the send buffer and on the way chat and move are one
request `play`, because the game server treats them alike. `PostRecv` always finds room: what
`OnRead` leaves in the receive buffer is less than a packet. When fewer sockets were prepared than the service admits players,
`ConnectPlayerSessions` dereferences the end of its list: the model stops there
(`undefined`).

## 3. The runs

| Run | Instance | Shows |
|---|---|---|
| `BufferUse` | 5 bytes of memory, 2 byte values, chunks of up to 3 bytes | regions stay apart, half of the memory is always usable, the buffer is a FIFO |
| `Session` | 2 I/O threads, 1 broadcaster, 3-byte buffers, 3 sends of 1 or 2 bytes | sends fail at any time; in-flight bytes are intact, the code's assertions hold, one receiver, one close; everything is sent or the session ends; a disconnected session is let go by every thread, except in the two lock cycles of finding 1 |
| `GameServer` | 2 players, 2 I/O threads, 2 chats, buffers that do not fill, sends that fail on closed sockets only | no packet without a game session, no disconnected player inside; broadcasts have one order; the server implements `GameSessionLife` |
| `GameServerLive` | 2 players, 1 I/O thread, 1 chat, shutdown at any time, buffers that do not fill, sends that fail on closed sockets only | the server ends once all players have left; `OnProcessTerminate` completes |
| `FastSpinlock` | 4 threads | the word counts the announcements, exclusion, refinement of `ReadWriteLock`, progress |
| `JobDispatcher` | 3 threads, 2 objects, 3 jobs | single consumer, no dangling node, references cover and are returned, refinement of `SerialExecution`; every job is executed |
| `LinuxServer` | 3 clients, 2 descriptors, 1 chat, buffers that do not fill, clients that exit, close or are cut off | every event finds its connected session; list, epoll and descriptors agree |
| `LinuxServerLive` | 2 clients that exit, close or are cut off, buffers of 1 packet, 1 chat, shutdown at any time | no disconnected session is left when broadcasts overflow; the server implements `GameSessionLife`; every request is handled and every packet written (`Served`), an empty game session terminated, unless the loop reads the end of a closed connection for ever (section 4) |
| `ObjectPool` | 3 threads, 5 blocks, a ring of 2 slots, positions that wrap at 4 | a block has one place; none is lost |
| `DummyClients` | 1 session, 2 I/O threads, 2 requests, a send buffer of 2 packets, every failure | references are accounted for, asserts hold, one chain of timer jobs per session, a login or a move without its id or index is confined to the time before the missing store, the timer pops what it ran; a test is played to its end, a lost connection noticed, launch and shutdown come to their end |
| `BroadcastSelfDeadlock` | 1 player, a buffer of 1 packet | violation, finding 1 |
| `GhostPlayer` | 2 players, sends may fail | violation, finding 2 |

Why these bounds are enough: five bytes give every layout of two regions with free
space before, between and after them, and a payload that fits in one of them but not
in another. Two I/O threads and a broadcaster are all the roles that meet at one
session; a third send happens while one is pending and one waits in the buffer. Two
players are the least for a broadcast to another player and for a first and a last to
leave. Four spinlock threads let two writers collide while two readers come and go.
`GameServerLive` has one I/O thread beside the SDK's; that two I/O threads never block
each other is the deadlock check of `GameServer`. Three jobs of which two go to one
object let a push meet every step of a pop, and a third posts from inside a job. For the Linux server two clients
put two events in a batch, of which the first handler can affect the second; three on
two descriptors make accept fail and a descriptor be reused while the other is in use.
Three threads on a ring of two slots put two of them on one slot while a third comes
round, and five blocks overfill the ring. Dummy client sessions share nothing but the
I/O threads and their timers; two threads are what it takes for the completions of one
session to race each other, and main makes three. A second session beside two threads
is out of TLC's reach (more than nine million states); with one thread and a single
request two sessions have four million, in which an earlier version of the safety
properties held. What one session cannot show is another session's job on the same
timer; `PopsWhatRan` therefore rests on the due tick of the successor being later than
that of the job that runs, which the mutant of `TimerJob` breaks.
Every property has a mutant of the code it is about that TLC shows to violate it.

Named bounds: `Capacity`, `Chunk`, `Payload`, `MaxSends`, `SendCap`, `Window`, `MaxChats`, `Wrap`,
`MaxLag`, and the sets. Symmetry is used only in the safety runs `GameServer` (players, I/O
threads), `ObjectPool` (threads, blocks) and `LinuxServer` (players).

Deadlock is checked except in `Session`, where a disconnected session really has
nothing left to do, and in the violation runs. The end of the process and the idle
dispatcher are explicit stuttering steps.

Fairness: an I/O or worker thread that can take a step takes it (weak fairness for
each thread: the operating system schedules every thread, and the code never waits
for anything but locks and completions); the kernel completes what was started; a
client that was admitted goes on with its test and leaves, which is what DC's timer
jobs do. No fairness is assumed for failures, chats, the service's termination
request or new posts. For `LinuxServer` only the event loop's thread and the clients'
reading are fair: nothing makes a client connect, speak or leave. For `DummyClients` every
thread is fair, main except where it waits for a key; so are time, the game server's
reading and the service's decision. Taking an operation's completion out of the port is
strongly fair: the port is a queue, so that a completion comes out although time-outs
and other completions compete with it. Nothing makes a connection break.

## 4. Findings

1. **A broadcast can block the server for ever** (`BroadcastSelfDeadlock`).
   `GameLiftManager::BroadcastMessage` holds `mLock` while `GameSession::BroadcastMessage`
   disconnects a player whose send fails; the disconnection enters `mLock` again on the
   same thread. The shutdown callback then waits for ever. The same cycle arises
   between `mSendBufferLock` and `mLock` on two threads.
2. **A player can stay inside for ever** (`GhostPlayer`). The player's id is stored
   after the player has entered; a failing send in between disconnects a session that
   does not look logged in.
The runs `GameServer` and `GameServerLive` choose constants under which these cannot happen
(buffers that do not fill, sends that fail only on closed sockets: a client that is cut off
never makes a `WSASend` fail), so they show what holds apart from them. The run `Session`
makes no such choice. There the cycles of finding 1 are reached, and `Released` has exactly
them as its exception: `Deadlocked` says that a thread waits for `mLock` in `OnDisconnect`
and has it itself, or that the thread that has it waits for the send lock of the first.

More limits of the code the reader should know. In the Linux server `read` returns 0 at the
end of file and `OnReceive` leaves its loop only for an error or `EAGAIN`
(`LX/ClientSession.cpp:77`), so when a client closes its connection without `ExitRequest`
the event loop's only thread reads 0 for ever (action `ReadZero`), serves nobody and
terminates nothing. Both Linux runs have such clients (`"fin"` in `Departure`); the state is
`ReadsEndForEver`, which `Served` and `TerminatesWhenEmpty` name as their exception. In
`DummyClients`, a login may go out without the player session id and a move with the index
-1, because both are stored after `ConnectEx` (`DC/PlayerSession.cpp:70`, `:79`, `:80`):
`NamelessOnlyInLaunch` says when this can be, and does not say that it cannot. A game
session that dies while it is polled holds the launch up for ever (`LaunchEnds`
excepts it), and a `PreRecv` that fails in `ConnectCompletion` gives the connection up
without `DisconnectRequest`, so that the session keeps the reference it was issued
with (`issued`). With more players than `MAX_PLAYER_PER_GAME` both servers leave
`GameSessionLife`: the counts are cumulative, and a player who took the place of one
that left is still inside when they end the game session. And with buffers that fill,
`AssertConnected` fails in the Linux server: a broadcast disconnects a session whose
own event is later in the same batch, and `mClientList[fd]` then yields a null
pointer.

## 5. The theorems

Proved with TLAPS, from the named assumptions on the constants only.

* **`CircularBufferProofs`** (assumptions: a positive capacity;
  chunks are sequences of bytes): `TypeCorrect`, `RegionsStayApart`,
  `HalfStaysUsable`, `BufferIsFifo`. The inductive invariant `UseInv` says that the object
  is `Good`: its fields are typed, A and B lie in the memory, B starts at 0 and ends
  before A, and an empty A has no B behind it. The layout alone is not enough for the
  refinement: the lemmas compute the contents (A's bytes, then B's) after each
  operation and the refinement compares them with the queue. `SessionProofs` uses the
  same lemmas.
* **`SessionProofs`** (assumptions: main is no I/O thread, `Nobody` is no thread, packets
  are sequences of bytes, a positive capacity): `AssertsAlwaysHold`,
  `ClosedOnceAlways`, `OneReceiverAlways`, `InFlightIntactAlways`. A thread's stack is
  described once (`Nested`: which frame may lie on which), and then four things that
  exist once are followed from hand to hand: the send lock, the pending send with its
  count, the link of the receive chain, the right to close. Each is a token that is in
  the kernel, in the port, or with exactly one thread. The bytes come on top: what a
  pending `WSASend` was given is the beginning of what is owed, and what is owed behind
  it lies in the buffer behind it. The count alone shows nothing, for a send may be
  transmitted, dequeued and counted down before `FlushSend` has counted it up.
* **`GameServerProofs`** (assumptions: the SDK's thread is no I/O thread, the null values
  are no threads and no players, the bounds are numbers): `GameSessionIsThere`,
  `ImplementsLife`, `ClientsAgree`, `GhostsNeedFailures`. A thread is seen as
  the set of the calls on its stack. Calls have levels and call downwards (`Nested`), so
  the set determines the stack, and each action is stated once more in these terms (its
  View); what only some steps change is read off `Footprint`, and which calls a step adds
  and removes off `Gains` and `Loses`. The theorems then rest on layers.
  `GameSessionIsThere` needs who holds `mLock` (`Begun` in `Base`): the callback holds it
  from telling the service to creating the game session, and before that no player has
  come. `ImplementsLife`, for at most `MAX_PLAYER_PER_GAME` players (it is false without,
  section 4), needs that the players of the game session are those the service has active
  (`Roster`) and that the counters are cardinalities (`Counts`). `ClientsAgree` says of
  the packets posted to a session (`Posted`: received, then still to come) that no two
  sessions have two of them in opposite orders (`Ordered`). A step that posts breaks this
  unless the packet is new: so a request is in one place (`Once`), a broadcast posts it
  once to each player (`Unsaid`), nothing follows it in any buffer while the broadcast
  goes on but a login's answer (`Latest`), and a session has one pending send whose
  completion one thread has (`Sends`). It needs no hypothesis: packets that are refused or
  lost leave gaps only. `GhostsNeedFailures` has `NoOverflow` (a post finds room) and
  `SendMayFail = FALSE` as hypotheses; without them the code leaves a ghost (finding 2).
  Its crux is `Members`: a player inside is connected and has its id stored, or its login
  is being answered, or it is being removed. That no thread disconnects it between the
  two steps of the login is `Failures` and `CutOff`: a connection that works is given up
  only where its receive has ended or by the thread that handles its requests, and that
  thread is busy with the login; a broadcast does not, because its post succeeds
  (`Answered`).
* **`LinuxServerProofs`** (assumptions: `NoSession` and `NoId` are no players, descriptors
  are positive and finitely many): `ListAlwaysAgrees`, `NeverAGhost`,
  `EventsFindTheirSession`, `ImplementsLife`. `ListAgrees` is not inductive: that a
  session keeps its descriptor depends on its owners (`Sockets`), and that none leaves
  twice on where it is accepted (`Waiting`). For `NoGhost` the players of an active game
  session are connected and have their id (`Members`), which a login could break that is
  handled after its session was disconnected; `Logins` excludes it: a login that is
  unread is the first request of a session nobody could have disconnected.
  `EventsFindTheirSession` is conditional, on runs in which no broadcast meets a full
  buffer (`NoOverflow`), because otherwise the code breaks it (section 4); the run
  `LinuxServer` satisfies the condition. `ImplementsLife` has the hypothesis that there
  are at most `MAX_PLAYER_PER_GAME` players, without which it is false (section 4); its
  invariant `Counts` says that the two counters are the cardinalities of what the
  service knows.
* **`FastSpinlockProofs`** (assumption: finitely many threads, fewer than 2048, which
  is what the fields of the word can count): `WordCounts`, `MutualExclusion`,
  `ImplementsLock`. `IInv` adds to the word's meaning that at most one announced writer
  owns the lock, and that a writer that has drained the readers is not joined by one.
  Exclusion alone is not inductive, for it says nothing of threads that have
  announced themselves and not yet looked.
* **`JobDispatcherProofs`** (assumption: owners are objects, jobs and objects are
  distinct): `OneConsumer`, `NeverDangling`, `ImplementsSerial` (the refinement of
  `SerialExecution`) and `RightlyReferenced`, in three layers. A thread becomes the consumer
  several steps after its `fetch_add` found zero, so `IInv` follows the claim on an object
  from the post to the list or the `Flush`: it is unique, and an object with count zero has
  none. `QInv` says what the linked list looks like between any two accesses to it: its
  nodes from `mTail` to `mHead` are a sequence without repetition (`Queues`, under an
  existential quantifier, since the code has only the links); each node's `mNext` is its
  successor or still null; a missing link belongs to the one push or pop that will write
  it; what the thread in `Pop` has read is still true, because it alone takes nodes away
  (`PopKnows`); and a job in the sequence, or running, is neither new nor deleted
  (`Living`). `waiting`, the order of the exchanges, is that sequence without the stub.
  `CInv` says that `mRemainTaskCount` and `mRefCount` are the sizes of two sets, the jobs
  between `fetch_add` and `fetch_sub` and the timers, threads, list entries and `Flush`es
  that hold a reference, and that someone has the claim on an object with jobs left.
* **`ObjectPoolProofs`** (assumptions: at least one slot, `nullptr` is no block):
  `BlocksApart` and `BlocksKept`. `Inv` adds to `OnePlace` and `NothingLost` that a thread has
  a block in its hand exactly while it is in `operator delete`; nothing about the
  positions is needed, which is the point: they may be any numbers.
* **`DummyClientsProofs`** (assumption `ClientsAssumption`, with finitely many threads):
  `RefsAccountedAlways`, `AssertsAlwaysHold`, `OneChainAlways`,
  `NamelessOnlyInLaunchAlways`, `PopsWhatRanAlways`. The invariant has layers. `Base` types the threads and says which
  handler may have which I/O context in hand; `Chain`, that a session has one
  connection, one login and then one timer job or one thread in `PlayTest`, whose due
  tick is later than that of the job that runs; `Refs`, that the reference count is
  the number of contexts in the kernel and in hand, plus one while the session is
  issued, plus one while its timer job lives. `Stores` beside them ties what main has
  stored of a session to main's place in the launch. A session that a thread has in hand
  was connected, so main is past it or at one of its two stores (`StillStoring`); and a
  session with a timer job had its login answered, so its id is stored.

Only model-checked: all liveness properties (fairness and `ENABLED` are beyond the
prover), those of `GameServerLive` with them. Every safety invariant and every refinement
that a passing run checks is stated by a theorem, for some under the hypotheses above.

## 6. What is not modelled

* Log and crash dumps (pure output), packet layouts and the ini parser.
* The headers of the AWS SDK under `include/aws`, with the generated `sdk.pb.h`: they are
  three quarters of the repository's lines, third-party accessors without behaviour of
  their own. What the programs use of the service is modelled from its use.
* CC: rendering and scene callbacks. Its `TcpClient` blocks; one flaw of its send loop is
  in the list of hazards.
* GS: failures of `OnConnect` and of the SDK's start-up, the process's main loop, the timer
  (nothing is ever pushed to it). LX: `Scheduler` (nothing is ever scheduled), `ECHO_MODE`.
* DC: `EchoBack` and `FindAvailableGameSession` (never called), the switch of AWS regions.
* Packets of a type that is in range and has no handler, which no program sends.

Left in the plan:

1. The accept loop's failures in `GameServer`.
2. `TcpClient` (CC): short sends and receives.
