# Verification of the JSON-RPC over TCP services

TLA+ modules for the library `src/lib/lib-jsonrpc-tcp`, the services `sysmgr`
and `xmproxy` that are built on it, and their command line clients, with TLC runs
on small instances and TLAPS proofs for all instances. `PROJECT.json` maps every
definition to its source lines.

Below, `L/` stands for `src/lib/lib-jsonrpc-tcp/`, `S/` for
`src/services/sysmgr/srv/src/` and `X/` for `src/services/xmproxy/srv/src/`.

## 1. The system

A service is one process. It listens on a TCP port, cuts the byte stream of each
client into JSON objects, runs each request on one RPC thread and sends the
replies. Long work goes to a worker thread and is polled by its task id. Other
processes can subscribe to events.

| Part | State it keeps | Operations | Threads and locks |
|---|---|---|---|
| `ADThread` | `thread_state`, `started`, `finished`, a semaphore, the pthread handle | start, stop (with or without a limit), wakeup, the thread body | callers under `ctrl_lock`; the thread reads atomics only |
| `ADNetServer` | sockets, `clientInfo_chain`, `framers`, the `pending` map, `paused_fds`, `master_set`, request and response chains, wake pipe | accept, recv, queue requests, pause and resume, send, drop, close, start, stop | listen thread and response thread; `pending_lock` and the chain locks |
| `ADJsonStreamFramer` | buffer, scan position, depth, string and escape flags, ready messages | feed, next, reset | one thread per framer |
| `ADJsonRpcProxy`, `ADJsonRpcMapper` | `ReqRespChain` (owner of the task objects), `ReqChain`, `RespChain` | parse, queue, run, reply, stop | listen thread, RPC thread, response thread of the proxy |
| `ADTaskWorker` | `work_chain`, `work_inprog_chain`, id generator | push, evict, poll, reset, run | RPC thread and worker |
| `ADEvntMgr` | subscriptions with failure counts, two event queues | subscribe, unsubscribe, notify, process, deliver | RPC thread, worker, notifier, processor; one lock |
| `ADJsonRpcClient`, `ADNetClient` | socket, framer, current id, `reconnect_needed` | send a request, receive its answer | the caller's thread |
| `ADJsonRpcMgr` | method table, settings, event and task objects | Start, Stop, dispatch to handlers | owner of all of the above |
| `ADTimer` | signal handlers and masks, tick flag, the thread that waits | wait for a signal, forward, tick, notify, let a second signal kill | main thread, timer thread, any thread as a signal handler |
| `ADThreadedSockClient`, `ADCmdlineHelper` and the tools' command lines | chain of commands, lines of output | push a command per option, run, print, stop | one worker per server, main thread |
| `sysmgr` | device operation, firmware versions, log list, event monitor | 35 RPCs, 7 kinds of task | RPC thread, worker, main |
| `xmproxy` | gloox client, sessions, command queue, aliases, event subscriptions and their files, list of asynchronous tasks, inbox | chat commands, 9 RPCs, reconnect, ping, events of other services | XMPP thread, command thread, ping thread, RPC thread, worker, main |

How they interact: `ADNetServer` calls the proxy from its listen thread
(`on_data_arrival`) and takes responses through `schedule_response`. The proxy
hands a task to the mapper's RPC thread and gets it back by its ident. Handlers
push tasks to `ADTaskWorker`, which reports completion to `ADEvntMgr`, which is a
client (`ADJsonRpcClient`) of its subscribers. Every thread in this picture is an
`ADThread`. `ADJsonRpcMgr::Stop()` ends them in a fixed order. `xmproxy` is a
client of the other services: a chat command becomes an RPC, and when the RPC
starts a task, the completion event is turned into a message to whoever asked.

Hard to test, and the reason for the models:

* two threads work on one connection, and fd numbers are reused;
* flow control stops reading a socket, so only the other thread can restart it;
* pointers to one task object are in three chains of three threads;
* task ids restart while tasks may run;
* events are delivered without the lock while subscriptions change;
* an answer that comes after its timeout is still in the socket;
* a bounded stop leaves a thread behind;
* stop comes at any moment;
* a byte stream can be cut anywhere;
* a signal can reach any thread, before and after somebody waits for it;
* a task's work data goes from thread to thread as a bare pointer, and two tables
  number the same RPCs differently;
* gloox may block for as long as it likes while the process has to end;
* completion events of another process can be early, late or from its last life;
* files are rewritten in place;
* one call has its parameters named in five places.

`hazards` in `PROJECT.json` lists these at their lines with the properties that
cover them.

## 2. Modules

| Module | Models | State and actions |
|---|---|---|
| `NetServer` | `L/src/ADNetServer.cpp` | The kernel (`peer`, `rx`, `sockConn`), the listen thread (`lpc`), the response thread (`rpc`), the tables and the control thread (`cpc`). An action is one critical section or one system call. Allocations may fail: `lost` counts the replies of each connection that never got on the response chain, `starved` has the fds whose queueing loop ended early. |
| `SendBudget` | `over_send_wait_budget()` and the deadline of one send | One connection and a clock in ticks. `NetServer` leaves open whether a send is late; this module has the arithmetic. The ghost `cost` is the wait accounted up to each moment, so that the wait in any stretch of time is a difference. |
| `AdThread` | `L/src/ADThread.cpp` | Callers (`cpc`) and the pthreads they create (`tpc`), with the semaphore, the atomics and `ctrl_lock`. |
| `RpcPipeline` | `ADJsonRpcProxy`, `ADJsonRpcMapper`, the order of `ADJsonRpcMgr::Stop()` | A task object on its way through three chains and three threads, with every allocation failure, that of the reply included. |
| `RpcQueue` | nothing: abstract | What `NetServer` may expect from its consumer: an answer in order, or the loss of a request. `RpcPipeline` implements it. |
| `TaskWorker` | `L/src/ADTaskWorker.cpp` | RPC thread and worker on two chains. |
| `EvntMgr` | `L/src/ADEvntMgr.cpp` | Subscriptions, queues, the two threads and a clock. `eventList` and `targets` are sets: the vectors are in the order of the tokens, which are handed out upwards, so `First` is the next element. |
| `StreamFramer` | `L/src/ADJsonStreamFramer.cpp` | The scanner byte by byte. A reference grammar says which words are messages: recursive functions from a length to the insides of strings and objects of that length. The ghost `trail` has the depth and the mode (object, string, escape) after each byte scanned. |
| `RpcClient` | `send_request()`, `receive_response()` and the functions of `ADNetClient` they call | Client, server and the network between them. |
| `RpcTable` | the handlers of `ADJsonRpcMgr`, `SysRpc`, `NetRpc`, `DispCtrlRpc`, `XmppRpc` | A record per RPC: the parameters it insists on, the fields of its answer and the results that carry them, its results, its task. |
| `SysMgr` | `S/*.cpp` on `ADJsonRpcMgr` and the task worker | RPC thread (`pc`), worker (`wpc`), `main()` (`phase`). The dispatch by command number and by task number, work data, the log list, versions, device operation. Extends `RpcTable`. |
| `RpcCalls` | the typed calls of `L/src/ADJsonRpcClient.cpp` | A record per call: the names it sends, the names it fetches, what a failed call leaves. |
| `CltOptions` | `ADCmdlineHelper`, `SysmgrCltCmdline`, `XmproxyCltCmdline`, `ADCmnCltCmdProcessor` | Per option what its push function makes of the arguments, and which call its run function makes. Extends `RpcTable` and `RpcCalls`. |
| `CltCmd` | `ADThreadedSockClient`, `run_commands()` | The composition: a worker takes commands off its chain and runs each as a call of `RpcClient`, while main waits, prints, stops, joins and deletes. Parsing may end early (help, a refused option, an autotest). |
| `Signals` | `L/src/ADTimer.cpp` | Handlers, masks, forwarding, the wait, ticks and the timer thread; no specification of its own. |
| `XmppLife` | `X/main.cpp`, and from `XmppMgr` and `ADXmppProxy` all that starts, keeps and ends the connection | main, client thread (`cpc`), ping thread (`ppc`), command thread (`kpc`: busy or not when `main()` comes to join it), RPCs and the network (`world`: lively, silent, blocked). Extends `Signals`. |
| `XmppCmds` | the `proc_cmd_...` functions and the command table of `X/XmppMgr.cpp` | A record per command: access, what it needs, which RPCs it makes in which order, whether it starts a task. |
| `XmppBot` | the chat side of `XmppMgr`, `EvntHandler` and `ADXmppProxy` | XMPP thread, command thread, RPC thread, the other services with their task numbers, and the two files, each of which may have no name, fail to open or fail to be written. Ghosts: `epoch` counts how often a service began to number anew, `wish` has what a user's last answered command wanted, `saved` the users for whom the file operations were done. Extends `XmppCmds`. |
| `NetServerProofs`, `ThreadFramerProofs`, `RpcPipelineProofs`, `TaskProofs`, `EvntMgrProofs`, `XmppProofs`, `CltCmdProofs` | | Theorems and proofs: about `NetServer` and `SendBudget`, `AdThread` and `StreamFramer`, `RpcPipeline`, `TaskWorker` and `SysMgr`, `EvntMgr`, `XmppLife` and `XmppBot`, `CltCmd`. The inductive invariants are at the end of the modules they are about, so that TLC can check them. |
| `ChainLemmas` | | What the proofs need to know about chains: what `chain_put()`, `chain_get()` and a removal in the middle do to the elements, their order and their number. `NatMinimum`, the form of induction used everywhere. |

Each module is also the module its configurations check: constants are small
numbers and sets, and no definition is replaced. Variables that no guard reads
(ghosts) are marked where they are declared. Operators named `Bug_...` are
plausible mistakes in the code; each property has one that breaks it.

`RpcTable`, `RpcCalls`, `CltOptions` and `XmppCmds` are tables of records without
state. Three assumptions in them are evaluated with the runs that use them: every
call has functions that prepare what it sends and find what it fetches
(`CallsFit`), every run function
passes as many names as its call has (`RunnersFit`), and every chat command
agrees with the RPC it makes (`CommandsAgree`).

## 3. Runs

| Run | Checks | Bounds |
|---|---|---|
| `NetServer` | `RightClient`: a response goes to the client that asked, whatever happens to fd numbers. `CountIsExact`: the pending count is the number of requests in work and of lost replies, until the connection is taken out of the tables. `EveryFdWatched`: an open socket is in the select set, among the paused, or in the listen thread's hands. `StopLeavesNothing`. | two connections, one after the other on the single fd number, three messages, a limit of one pending request. Reuse of an fd, pause, resume, drop, lost replies and stop all occur. About 2.8 million states. |
| `NetServerLive` | `PausedResumes`, `FramedRequestsLeave`, `ResponsesLeave`, `DroppedIsClosed` | one connection, three messages, a limit of two, so that "half are answered" differs from "all are answered". `PausedResumes` and `FramedRequestsLeave` except a connection that has lost more replies than half the limit; `FramedRequestsLeave` also a queueing loop that ended for lack of memory. |
| `SendBudget` | `TwiceTheBudget` | time-out 2, budget 3, window 6, 16 ticks: more than two windows, and the budget needs several stalls |
| `AdThread` | `OneThread`, `StoppedIsQuiet`, `CallsReturn`, `WakeupsServed` | two callers, three runs of the thread, four posts, both thread types |
| `TaskWorker` | `PendingIsRecorded`: a task that is queued or runs has its record, with an id no other task has. `TasksFinish`. | four tasks, two records, so that eviction and reset both occur |
| `EvntMgr` | `NothingMissed`, `OnlyDeadAreRemoved`, `EventsLeave` | one port, two subscriptions one after the other, two events, a queue of one, removal after two failures over one tick |
| `RpcPipeline` | `NoUseAfterFree`, `NothingLeaks`, `EveryRequestAnswered`, `StopEnds`, `ImplementsRpcQueue` | three requests: one per thread |
| `StreamFramer` | `MessagesAreExact`; `VerdictIsRight`: an error is reported when and only when the stream has one | all streams of up to 8 bytes of six classes in chunks of up to 2, messages of up to 6 bytes |
| `CltCmd` | `AnswersAreOwn`, `Reported`, `StopIsClean`, `InterfaceAgrees` | two commands: the first is any option of both tools with any arguments, the second one of two. Answers in two pieces, late, or none; stop at any moment. 3.2 million states. |
| `SysMgr` | `WorkDataOwned`: allocated work data is exactly that of queued and running tasks, and the object that runs a task has the code for it. `LogInOrder`. `WorkDataFreed`. | three requests from the 13 commands that read or change the state, two log lines. `WorkDataOwned` looks at all commands. |
| `XmppLife` | `StopEnds`: "must exit within 5 s" as "ends". `KilledByLaterSignal`, `ReturnedIsQuiet`, `SilentNoticed`, `OfflineHolds` | one kind of stop signal, sent any number of times to any thread; the connection is given up after two unanswered pings instead of four. 285,000 states. |
| `XmppBot` | `CompletionIsOwn`, `NothingStranded`, `SubscriptionsKept` | two users, two services, two messages, one fault (crash, service restart, reset of its task numbers or lost connection); any file operation may fail. The buddy is on the roster, the administrator in the event file, so that one user changes an entry and the other adds one. 860,000 states. |

Deadlock is checked in `NetServer`, `NetServerLive` and `StreamFramer`. In the
other runs the system stops when its bounds are used up or it has been stopped.

### Fairness

Every fairness condition is about a thread of the process or a call that has
begun; no client has to do anything.

* `NetServer`: weak fairness of the listen thread, the response thread, the RPC
  layer that answers queued requests (`Answer`, which may also fail to queue the
  reply) and a stop that has begun.
  `select()` has a time-out, so the listen thread does come round.
* `AdThread`: weak fairness of calls that have begun and of the thread. Strong
  fairness for getting `ctrl_lock`: a mutex that is released again and again is
  obtained at last. `CallsReturn` is stated under the condition that callbacks
  that stop their own thread get back, because of the deadlock of section 5.
* `TaskWorker`, `EvntMgr`, `RpcPipeline`: weak fairness of each thread and of a
  stop that has begun. Handlers and tasks return; a delivery ends, because the
  client's connect, send and receive have time-outs.
* `SysMgr`: weak fairness of the RPC thread once it has a request, of the worker
  (scripts end) and of `main()` except for the stop, which need not come.
* `XmppLife`: weak fairness of the main thread, the client thread, the timer
  tick, signal handlers that have begun, the ping thread, an offline request
  that has begun and the command in work (calls of other services have time-outs,
  and `sleep` lasts as long as its sender says). Strong fairness for taking the stop signal: between two ticks
  the main thread takes other pending signals, and `sigwait()` is not starved by
  one that comes every 100 ms. `recv()` returns every 500 ms on TCP; with BOSH it
  may block for ever (`world = "blocked"`), and `StopEnds` holds for that too.

## 4. Proofs

TLAPS proves, for every value of the constants that satisfies the named
assumption of the module:

* `NetServerProofs`, from `NetAssumption`. `Safety` (`Spec => []IInv`),
  `TypeCorrect` and `AnswersReachTheirClient` (`RightClient`). `RightClient` alone
  is not inductive: that the response thread sends on the right socket depends on
  the client record, on the fd behind it and on the bytes having stayed with their
  connection all the way. `IInv` says so: `BytesInv` (bytes in the socket, framer
  and chains belong to the connection they came from), `RecordInv` (a client
  record names the connection behind its fd and goes before the fd is closed),
  `ListenInv` (the listen thread only touches open fds) and `ResponderInv` (the
  duplicated fd is the connection of the response).
  `ServerSafety`, `NoFdIsForgotten` (`EveryFdWatched`), `StopLeavesNoFd`
  (`StopLeavesNothing`) and `PendingCountIsExact` (`CountIsExact`) rest on
  `ServerInv`, which adds to `IInv`: `WatchInv` (an fd the listen thread is about
  to move is in the set it takes it from), `FreeInv` (a free fd number has an
  empty framer, a stopped server has no entry) and `IdentInv` (an ident stands
  for one connection; a connection that is new has no request in any chain, so
  its count starts right). The count is a cardinality of places in three chains, plus
  the replies lost; `PutCount`, `GetCount` and `RemovedCount` of `ChainLemmas` say
  how it changes, the last one when the reply of a request in the middle is lost.
  About the send budget, from `BudgetAssumption`: `WaitingIsBounded`
  (`TwiceTheBudget`). `BudgetInv` says that `wait_ms` is what the current window
  has cost so far (`WindowInv`), and that the window before it ended within the
  budget from wherever one starts to count; a stretch as long as the window meets
  these two at most.
* `ThreadFramerProofs`, from `ThreadAssumption`: `Safety`, `NeverTwoThreads`
  (`OneThread`) and `QuietAfterStop` (`StoppedIsQuiet`). `IInv` ties `started`,
  `finished` and the handle together: whoever is inside a call holds the lock
  (`LockInv`), only the run the handle names can be running, exactly until
  `finished` says so (`HandleInv`), and where `started` and the thread disagree a
  caller is between the two (`CallerInv`).
  About the framer, from `FramerAssumption`: `FramerSafety`
  (`FramerSpec => []FramerInv`), `FramingIsExact` (`MessagesAreExact`) and
  `VerdictsAreRight` (`VerdictIsRight`), for every `max_msg`, every stream and
  every cut. The scanner counts and the reference is recursive, so the proof has
  two halves. `FramerInv` is about the scanner alone: the buffer is the end of the
  stream (`BufferInv`), and the depth and mode after each byte follow from those
  before it (`TrailInv`). The lemmas about words connect such a trail with the
  reference: a stretch of the stream where the trail comes back to its depth,
  and never goes below, is the inside of an object (`TrailIsObject`), and a word
  of the grammar makes the trail do just that (`ObjectIsTrail`); likewise for
  strings. Both are inductions over the length of the word; the step takes off
  the last byte, the last string or the last nested object, whose beginning is
  the last place where the trail was as low as after it. That no message remains
  in the buffer, and that one that is too long is not a message, is the second
  direction.
* `RpcPipelineProofs`, from `PipelineAssumption`: `Safety`,
  `NoObjectUsedAfterDelete` (`NoUseAfterFree`), `EveryObjectDeleted`
  (`NothingLeaks`) and `PipelineImplementsRpcQueue` (`ImplementsRpcQueue`).
  `OwnerInv` counts deletions: an object that was made is deleted once, unless it
  is in `ReqRespChain` or in the hands of the thread that took it out to reply.
  That no object is deleted twice needs that no ident is in two places, which
  `OrderInv` gives by putting everything on its way in one order of arrival:
  being replied to, queued replies, being handled, queued requests, being read.
  The same order is the refinement mapping: the abstract queue is these pieces
  in a row, every step of a thread either leaves the row alone, appends to it, or
  takes an element out, and each is a step of `RpcQueue` or a stutter.
* `TaskProofs`. About the task worker, from no assumption: `Safety` and
  `PendingTasksAreRecorded` (`PendingIsRecorded`). A push queues the task before
  it makes the record. That the worker cannot reach it in between is `WakeInv`:
  the semaphore counts the announced tasks, so the one being pushed stays last in
  the chain. `IdInv` makes the generator larger than every id in use, across a
  reset, and `LookedInv` says that what the RPC thread saw at one look (a finished
  record, an empty chain) still holds at the next critical section.
  About the system manager, from `SysMgrAssumption`: `SysSafety`
  (`SysSpec => []SysInv`), `WorkDataHasOneOwner` (`WorkDataOwned`) and
  `LogIsInOrder` (`LogInOrder`), for any set of commands called. `JobsInv` says
  that the tasks in the chain carry the numbers of their requests in order, so no
  data is queued twice or also runs; `LogInv` that an update has pushed only lines
  up to the one it has seen. That each task's number selects an object with code
  for it is proved from the two tables of numbers.
* `EvntMgrProofs`, from `EvntAssumption`: `Safety`, `NoEventIsMissed`
  (`NothingMissed`) and the action property `OnlyTheDeadAreRemoved`
  (`OnlyDeadAreRemoved`). `SendInv` says that the subscribers of the event in work
  have been tried or are still in the copy of the list; `TokenInv` that a token
  stands for one subscription in the list, the copy and the results; `CountInv`
  that the failure count and the time of the first failure agree with the
  deliveries made, those in hand included, even when the same port unsubscribes
  and subscribes again during a delivery.
* `XmppProofs`, from `StopSigsAssumption` and `MissedAssumption`: `Safety`,
  `OnlyLateSignalsKill` (`KilledByLaterSignal`), `ReturnOnlyWhenQuiet`
  (`ReturnedIsQuiet`) and `OfflineMeansOffline` (`OfflineHolds`). `PhaseInv` says
  which threads can be at work in which phase of `main()` (the command thread when
  it is about to be joined), `LateInv` that a stop
  signal still under way after the drain is known to be late, `OfflineInv` that a
  client past the test of the wish is the only one.
  About the chat side, from no assumption: `BotSafety`
  (`BotSpec => []BotInv`), `CompletionsAreOwn` (`CompletionIsOwn`),
  `NoCommandIsStranded` (`NothingStranded`) and `SubscriptionsAreKept`
  (`SubscriptionsKept`). `ClaimsInv` collects everything that says whose task a
  number is (the service, an event under way, the list of asynchronous tasks, the
  command about to extend it) and says that those of one numbering agree, that
  none is from a later numbering than the service's, and that a number yet to be
  given in the present one is nobody's. `FileInv` says what the file has while it
  is rewritten, `SenderInv` what the command in work has already done for its
  sender, which the answer then confirms; `SubscriptionsKept` is itself a part of
  `BotInv`, since what a restart reads depends on it.
* `CltCmdProofs`, from `ClientAssumption` and `OptionsAssumption`: `Safety`,
  `EveryAnswerIsOwn` (`AnswersAreOwn`), `EveryCommandIsReported` (`Reported`) and
  `StopIsAlwaysClean` (`StopIsClean`), for any number of calls. The types of
  `NetOK` carry that an answer under way has the id of its call or none;
  `CallInv` that a call in `receive` has either sent its request or will not use
  an answer; `ChainInv` that the chain, the command in hand and the number of the
  call agree; `LinesInv` that the lines are those of the calls that returned. The
  tables of options stay unexpanded: a command is whatever `Push` makes.

There is one lemma per action and, under it, one step per part of the invariant
that the action disturbs. TLC checks an inductive invariant like any other one:
each was an `INVARIANT` of the module's configuration before it was proved.

Where a proof needs an induction (a recursive function exists and unfolds, what
it holds for every length), it looks at the set of numbers for which the
statement fails and at the smallest of them (`NatMinimum`). The induction
theorems of the library take the statement as an operator, which the provers
cannot instantiate.

Only model-checked:

* all liveness, that is `PausedResumes`, `FramedRequestsLeave`, `ResponsesLeave`,
  `DroppedIsClosed`, `CallsReturn`, `WakeupsServed`, `TasksFinish`, `EventsLeave`,
  `EveryRequestAnswered`, `StopEnds`, `WorkDataFreed`, `SilentNoticed`: fairness
  is beyond the prover;
* `InterfaceAgrees`: a fact about every option of the tools and every answer to
  it, that is about three finite tables of records. TLC evaluates it for all
  options of both tools with all kinds of arguments, so nothing is left for a
  proof to generalise.

## 5. Where the code and its comments differ

The models behave as the code does, and the properties are stated accordingly.

Library:

* `drop_connection()` writes `pending[cltid]` (`L/src/ADNetServer.cpp:145`). If
  the listen thread has closed the connection since the response thread
  duplicated its fd, this makes a new entry that nothing removes before stop. The
  comment at lines 135-138 assumes that the entry is still there.
* `stop_thread()` takes `ctrl_lock` before it tests whether it was called from
  the callback (`L/src/ADThread.cpp:152`; the comment at line 158 is about the
  case). If another caller is waiting in `stop_thread()` for that callback,
  neither returns. No callback in the repository stops its own thread at present.
* When a late answer is split by TCP, `send_data()` discards its first part; if
  the second part begins with a nested object, the framer takes this for a
  message, and since it has no id it is accepted
  (`L/src/ADJsonRpcClient.cpp:117`, against `L/src/ADNetClient.cpp:146`). The
  call then finds no result in it and fails. `AnswersAreOwn` excepts answers
  without an id.
* `queue_framed_requests()` tests whether the connection is dead once for a whole
  batch (`L/src/ADNetServer.cpp:725`), so requests of a dropped connection may
  still be queued. Their responses are discarded.
* Stalls are added up in windows that start anew, not in sliding ones
  (`L/src/ADNetServer.cpp:116`), so "5 s within a minute" (`src/README.md:27`)
  can be almost 10 s. `TwiceTheBudget` is the bound that holds.
* A completion event is sent after its record is marked done
  (`L/src/ADTaskWorker.cpp:69`). A reset in between lets the event name an id
  that belongs to a new task.
* While a batch is being delivered the queue fills again, so up to twice
  `ADEVNT_MGR_MAX_QUEUED` events wait (`L/src/ADEvntMgr.cpp:31`).
* The RPC thread ignores a failure of `json_send_response()`
  (`L/src/ADJsonRpcMapper.cpp:42`) and `send_json_object()` one of
  `schedule_response()` (`L/src/ADJsonRpcProxy.cpp:333`), so without memory a
  reply is lost. `EveryRequestAnswered` and `RpcQueue` say so.
* Nobody calls `response_done()` for a lost reply: its place in the count of
  pending requests stays taken, although `L/src/ADNetServer.cpp:742` says
  "released by response_done() for this request". When a connection has lost more
  replies than half the limit, its count no longer comes down to where a pause
  ends, and once paused it stays paused. `CountIsExact` shows that this is the
  only leak.
* A loop of `queue_framed_requests()` that ends for lack of memory has lost the
  request it took, and leaves the complete requests behind it in the framer until
  the client sends again (`L/src/ADNetServer.cpp:749-774`).
* A stop signal that is handled between the installation of the handlers and the
  reset of the flag (`L/src/ADTimer.cpp:82-103`) is lost; `StopEnds` is about
  requests after it.
* `set_devop_state` answers IN_PROG without a task id
  (`L/src/ADJsonRpcMgr.cpp:965`), and the word and dword setters cut the value to
  eight bits (lines 1032 and 1069).

System manager:

* The list of log lines is emptied without its lock (`S/LogHandler.cpp:123`)
  while `get_logline` reads it under the lock. `LogInOrder` excepts a read that
  meets the emptying. A line whose shell cannot be started is skipped, so the
  count is then not the last index plus one.
* After an update the flag that forces a new reading of the backup version is
  cleared in the object that runs the task, not in the one that answers
  `get_fmwver` (`S/SysRpc.cpp:787`): the old version is shown until a restart.
* `DevOp.operation` has no initial value (`S/SysRpc.cpp:466`).
* The event monitor changes copies of its entries (`S/EventMonitor.cpp:100` and
  123).
* `get_eth_name` has no lower bound for its index.
* With `DEBUG_TEST_MODE` (`src/CMakeLists.txt:18`) the shutdown RPC is supported;
  the model is the ordinary build.

Command line clients:

* `--unsubscribe` without an argument sends a READ without the token the server
  insists on. The read variants of some enumeration options, and of `--hostname`,
  fetch a name the push function leaves unset. `InterfaceAgrees` names both.
* A failed connect prints nothing, nor does an information command whose text
  does not fit. `Reported` excepts both.
* The worker has no case for `STRING_GET_SET_WITH_STRING_PARA`.

XMPP proxy:

* `send_reply()`, pings and several commands use the gloox client on other
  threads than the XMPP thread, although `X/ADXmppProxy.cpp:44-47` says that only
  this thread touches it; the commands `buddylist`, `subscribe`
  and `unsubscribe` dereference it
  while there is none. `XmppBot` has these as crashes.
* `mySessions` is not emptied between connections, so a reply may use a session
  of an earlier client (`ReplyCrashes`).
* An offline request that falls between the client thread's test and its connect
  is answered with one more connection. `OfflineHolds` allows that one.
* A completion event that overtakes the entry in `AsyncTaskList`, or is lost, is
  not reported, and the entry stays for the life of the process. After a restart
  of a service the proxy is no longer its subscriber, so no completion is
  reported.
* Task numbers begin at 1 again after a restart of a service and after the RPC
  `reset_task_status` (`L/src/ADTaskWorker.cpp:225-241`), which waits for tasks
  that are queued or run but knows nothing of its subscribers. An entry that was
  left behind then has the number of a later task, and whoever it names is told
  of another user's task; the same holds for an event from before. `CompletionIsOwn`
  is about events and entries of one numbering.
* The event file has no name by default (`X/XmppMgr.cpp:129`, `X/MyCmdline.cpp:78`);
  `ExtendEventSubscrList()` and `RewriteEventSubscrList()` then return a failure
  that `proc_cmd_event_gpio()` ignores (`X/XmppMgr.cpp:1595` and 1602), as nobody
  asks whether the file could be opened, read or written. The command succeeds and
  the next start has no subscription.
* After a start that could not read the file, a user who subscribes again has two
  lines in it, and after the next start two entries; `event_gpio ... 0` switches
  the first one off only (`Once` in `SubscriptionsKept`).
* The subscription file is truncated and rewritten (`X/XmppMgr.cpp:1652`): a crash
  in between, or a write that fails, loses subscriptions that were acknowledged.
* `~XmppMgr` joins the command thread without a limit (`X/XmppMgr.cpp:171`), so a
  command in work (`sleep`, line 1731, or calls of a service that does not
  answer) can make the end take longer than the 5 seconds of the client thread.
* GPIO events walk `myEventList` without a lock. `xmpshutdown` is marked ADMIN in
  the table but does not check it. `sms_delete`, `update_sts` and `update_res`
  have a case but no name in the table. Reading the display calls the RPC that
  writes it. `fmw_hostname` expands its argument, `set_hostname` does not. An
  alias with capitals in its name is never found. A result of
  `XmppMgr::Start()` is ignored by `main()`.

## 6. Not modelled

* In `ADNetServer`: fatal errors of `select()` and `accept()`, the binary sockets
  (`cltid < 0`), and connections that arrive after `stop_receiving()`. Putting a response in its
  chain and waking the thread are one step; the difference is a wakeup that finds
  nothing.
* JSON itself: whether a request parses, has an id and names a known method is a
  free choice in `RpcPipeline`. `send_raw_data_and_receive_resp()` of the client,
  which takes any answer. The text of numbers and enumerations.
* Time, except in `SendBudget` and `EvntMgr`: a time-out may come at any moment.
  The 5 seconds of the stop are therefore "at last".
* `ADTimer`: custom signals, SIGIO and the shutdown notification. In `Signals` a
  forced exit raises its flag once.
* Lines of the event file that are written in part. A command that ends the
  process before `main()` returns is in `XmppBot` only; what a command does is
  left out of `XmppLife`.
* Failing allocations in `log_print_message()`
  (`L/src/ADCmnCltCmdProcessor.cpp:179-214`), after which the line of a command
  is missing.
* gloox, the shell scripts, the GSM and GPIO services: external, known by their
  answers. The AI bot and the stub `CXmppProxy`.
* `ADEvntNotifier`, `ADSettings`, `ADSerial`: no other file of the repository uses
  them. Hardware drivers, displays, device identification, string helpers and
  vendored code (`lib-display`, `lib-settings`, `ss_oled`, `ADJsonChecker`):
  `components` in `PROJECT.json` gives the reasons.
* The options `push_string_get_set_with_string_arg` and `push_int_type_command`,
  which no tool uses.

## 7. Plan

Every invariant of the runs except `InterfaceAgrees`, and every property of theirs
that is not liveness, has a proof. What would extend the project:

1. The completion event of `TaskWorker`, with the id it carries, composed with
   the subscriber's side in `XmppBot` (the hazard at
   `L/src/ADTaskWorker.cpp:70`).
2. `ADNetServer`: fatal errors of `select()` and `accept()`.
3. Composition of `NetServer` with `RpcQueue`, which is now only what the one
   expects and the other implements.
