# A TLA+ model of linux_cpp_WebServer

The server is a C++17 program with one main reactor, several sub-reactors and
a pool of worker threads; it speaks HTTP/1.1 and WebSocket and keeps chat rooms.
This directory models its concurrent core, checks it with TLC on small
instances, and proves part of what is checked with TLAPS for all instances.

## 1. The system

| part | state | operations | talks to |
|---|---|---|---|
| main reactor, `WebServer` | listening socket, signal pipe, round-robin counter | `eventLoop` (accept, signals), `init`, destructor | writes descriptor numbers, -2 (tick) and -1 (stop) into the pipe of a SubReactor |
| `SubReactor` (one thread each) | epoll set, `m_connections[fd]`, `m_ws_connections[fd]`, `m_client_data[fd]` | `eventLoop`, `handle_new_connection`, `handle_action` | appends jobs to the pool, takes tasks from its mailbox |
| mailbox of a SubReactor | `m_task_queue`, its mutex, `m_wakeup_fd` | `addTask` (any thread), `handle_wakeup` | workers and WebSocket callbacks post the `Action` of a descriptor |
| `ThreadPool` | `m_workqueue`, `m_stop`, a mutex, a condition variable | `append`, `run`, destructor | runs the handlers of connections |
| timers, `TimerManager` and `Tools` | a multimap by expiry, an index by address, `client_data` | `init_timer`, `adjust_timer`, `del_timer`, `tick` | `tick` posts a close |
| `HttpConnection`, `HttpParser` | read buffer, parser state, response being sent | `handle_read`, `handle_write` | returns an `Action` |
| `WebSocketConn` | `read_buf_`, `write_buf_` and its mutex, `closed_` | `handle_read`, `handle_write`, `send_text` | gives frames to `WebSocketServer` |
| `WebSocketServer` (singleton) | `conns_`, `rooms_`, `users_`, `fd_callbacks_`, one mutex | connect, remove, auth, join, leave, chat | a callback posts `Write` to a SubReactor |
| `Log`, `BlockQueue` | ring with two condition variables, writer thread, current file | `push`, `pop`, `switch_log`, destructor | every thread logs |
| `SqlConnectionPool`, `connectionRAII` | `connList`, two counters, a mutex, a condition variable | `GetConnection`, `ReleaseConnection`, `DestroyPool` | handlers hold a connection while they query |
| `HttpConnectionPool`, `BufferPool` | stacks of free objects | acquire, release | a free `HttpConnection` serves the next connection |
| `Router`, `Handler`, sessions | `m_context.sessions` and its mutex, the table `users` | register, login, validate, logout, files, upgrade | called by `HttpConnection` in a worker |
| `HttpRequest`, `HttpResponse`, `Config`, MIME and hashing helpers | values | formatting and lookup | |

What is hard. Everything the reactor knows is indexed by descriptor number, and
numbers come back: an event, a task, a timer or a job may outlive its
connection. EPOLLONESHOT is the only thing that keeps two workers out of one
connection. Queues are handed over between threads with an eventfd or with
condition variables. The WebSocket side sends to a connection from threads that
do not handle it. The HTTP parser is called again with whatever TCP delivered,
and its object serves the next connection. Handlers wait for database
connections while they occupy a worker. The destructor takes the program apart
while workers may still be busy, and tells its threads through pipes that can
be full. PROJECT.json lists these hazards, each
at its line, with the properties that speak of it.

What makes each part correct:

* mailbox, pool, log: first in, first out, nothing lost, nobody asleep over work;
* SubReactor: an action hits the connection it was decided for, one handler at
  a time, tables and sockets agree, a connection is never disarmed for good;
* timers: an HTTP connection has its own timer while it lives;
* WebSocketConn: bytes leave in order, frames are handled in order, what was
  written gets sent;
* WebSocketServer: the four maps agree with each other;
* HttpConnection: one answer to each request, its own, after its last byte, with
  the body stored as it was sent; no file left open;
* database connections: each in the list or in one hand, nobody asleep beside a
  free one; sessions: those that were opened and not logged out;
* WebServer: a stop ends every thread and leaves nothing behind;
* log files: every line, in order, on the right day, also at exit.

## 2. The modules

| module | models | what its state and actions are |
|---|---|---|
| `Fifo` | nothing of the code: the abstract queue | `accepted`, `delivered`; `Put`, `Get`; fair delivery |
| `Mailbox`, `WorkerPool` | nothing of the code: the task queue and the pool as their users see them | `Post`, `TakeAll`, `RunOne`; `Put`, `Take`, `End`, `Stop`, `Leave` |
| `TaskQueue` | `addTask`, `handle_wakeup` and the epoll loop around them | an action for each critical section and system call: push, write of the eventfd, `epoll_wait`, read, swap, one task |
| `ThreadPool` | `append`, `run`, destructor | `wait` is an action of its own; notification chooses any sleeper; wake-ups may be spurious |
| `SubReactor` | `eventLoop`, `handle_new_connection`, `handle_action`, timers, epoll, descriptors, and the handlers reduced to the action they return | the kernel (`sock`, `armed`), the loop (`rpc`, `events`, `msgs`, `batch`), the tables (`http`, `ws`, `cd`), `timers`, `jobs`, `work` |
| `WebSocketConn` | one connection, its handlers and the broadcasts to it | every step that locks, unlocks, receives, sends or erases is an action; a frame out is two bytes so that it can be torn |
| `WebSocketServer` | the four maps | an action per critical section of `mtx_`; posting the answer and arming the descriptor are one step |
| `HttpConnection` | `handle_read`, `parse`, `handle_multipart`, `handle_write`, `prepare_response`, the resets, release to and acquisition from the pool | a request is a sequence of pieces (first line, line end, header, body byte, boundary, part headers, dashes); a segment may end between the pairs of pieces in `Cuts`; `files` says which of `m_file_fd` and the parser's stream are open |
| `SqlPool` | `SqlConnectionPool` and `connectionRAII` | `connList` and both counters as in the code; a worker is out, at the lock, asleep, holding a connection, or on its way to `notify_one` |
| `Server` | the main reactor, pipes, loops, worker pool, handlers, sessions and the destructor, composed with `SqlPool` | `mpc` is the main thread, in `eventLoop` and then in `~WebServer`; a handler is a job that goes from step to step |
| `Log` | `BlockQueue`, `thread_func`, `write_single_log`, `switch_log`, destructor | the ring as it is in the code (`m_front`, `m_back`, `m_size`), the files as sequences of lines |
| `MC*` | | the instances TLC checks |
| `*Proofs` | | theorems and their proofs |

How they fit. `SubReactor` and `Server` use the mailbox and the pool as atomic
queues. `TaskQueue` and `ThreadPool` justify that: both are shown to implement
`Fifo`, and, step by step, `Mailbox` and `WorkerPool`, to which the users are shown to
keep in turn (section 4).
`SubReactor` reduces a handler to the actions it may return; `HttpConnection` and
`WebSocketConn` are those handlers, each with the arming that `SubReactor` does.
`SubReactor` guarantees the one-handler rule (`HandlersExclusive`) that
`HttpConnection` is built on; for WebSockets the rule does not hold, and
`WebSocketConn` starts from that.

Connection numbers in `SubReactor` and `WebSocketServer` are history: the code
knows descriptor numbers only, and no guard reads the connection of an event, a
task or a timer. The variables `accepted`, `delivered`, `taken`, `posted`,
`executed`, `signed`, `handled` and `wire` are history as well.

Abstractions that a reader may ask about:

* `SubReactor` has one SubReactor. Several share only the pool, the log,
  `WebSocketServer`, the sessions and the database, whose models have several
  callers; `Server` has several, and their pipes.
* `SubReactor` reads the pipe as a whole. The code reads eight messages at a
  time; its instances never have more than four. `Server` reads `Batch` at a time
  from a pipe that holds `PipeCap`.
* `Server` is as coarse as the order of the parts needs: the pool's queue and the
  mailboxes change in one step (`ThreadPool` and `TaskQueue` are the detail), a
  connection is its number and is answered without closing, and the limit of
  10000 jobs is not reached. Timers do nothing there beyond taking room in the
  pipes. Signals may come at any time, SIGINT and SIGTERM again after the first,
  and a signal that finds the main thread waiting for room in a pipe interrupts its
  `write` (`Interrupt`): the handlers are installed without SA_RESTART
  (`WebServer.cpp:205`, `Tools.cpp:66`), nobody looks at the result of the write,
  and its message is dropped, with an accepted connection its descriptor. The signal
  may also be delivered to another thread, which then waits on. Left out are signals
  that are raised after the loop and interrupt nothing: nobody reads their message.
* A handler of `Server` registers, logs in, logs out or does nothing to shared
  state. A query may fail whenever it is made. Session ids never collide (32
  random characters), and a client logs out only an id it was told.
* When a worker posts to a SubReactor that is deleted (undefined behaviour), the
  task is lost or the program crashes.
* All timers have the same delay, so their order is that of the last
  `init_timer` or `adjust_timer`, and a tick may find the first expired or
  nothing. Several that expire in one tick are several ticks.
* `HttpRead` and `HttpWrite` in `SubReactor` return whatever the connection
  may return in that state, including Close; I/O on a number that is not open
  fails.
* The headers of a request are one line. A multipart body has one part, a field
  or a file, perhaps behind a preamble. A response is sent in one or two halves,
  a file in two. A handler may refuse what it likes, and a file may not open
  (`HttpConnection.cpp:233-250`): 404 stands for the status of every refusal (403,
  404, 500 of `handle_static_file` and of `prepare_response`, 400, 401, 405, 500 of
  the others), so that 400 is the parser's alone.
* Some error exits of the parser are left out, all of which end like the ones that
  are there, in the answer 400: a multipart request whose headers name no boundary
  (`HttpParser.cpp:123`), a Content-Length that is no number (`:142`), and a temporary
  file that cannot be opened (`:253`), which is a 400 that the client has not
  deserved. The exits at `:138` and `:153` cannot be reached: the state BODY is
  entered with a Content-Length, and no more than what is missing is appended.
* `send_text` reads `closed_` before it locks: `TestClosed` and `SendText` are two
  steps, and the connection may be closed between them.
* The lock of the session map is not there in `Server`: an access to the map is one
  step, which is what `session_mtx` makes of it.
* An object of the pool serves one connection after the other. Which free object
  `acquire` gives does not matter, since all have been reset.
* The clock of the log moves between two lines, by days. `m_flush_interval` is
  1, so a written line is in the file.
* `WriterEnds` needs an empty ring. If the ring could hold lines behind the end
  marker the writer would not end here, and `ExitEnds` would fail: the drain
  loop of `thread_func` has nothing to do.

## 3. The runs

| run | question | instance |
|---|---|---|
| `TaskQueue` | is a task ever left without a wake-up, or a wake-up without a value in the eventfd? | two workers and the reactor itself post, two tasks each |
| `ThreadPool` | is a job ever left while workers sleep, or dropped at the end? | three workers, two SubReactors, a queue of two |
| `SubReactor_timeouts` | do tables and sockets agree, does a connection lose its timer, and is one ever stuck? | two connections, pool queue of one (so jobs are dropped), idle timeouts, HTTP only, numbers and addresses not reused |
| `SubReactor_reuse` | does an action or a read or write ever hit another connection? | three connections on two descriptors, numbers and timer addresses reused, no idle timeouts, HTTP only |
| `SubReactor_upgrades` | the same tables through upgrade, broadcast and close; is an HTTP connection ever in two handlers? | two connections, no reuse, no idle timeouts |
| `SubReactor_recycled_fd` | the comment that a timeout is synchronous with the close | violation: one descriptor, two connections, timeouts and reuse |
| `WebSocketConn` | can two workers tear or reorder the bytes sent, and is what was written sent? | two workers, two frames in, two messages out |
| `WebSocketConn_stranded` | the comment that a non-empty buffer has a writer | violation: two workers, one message each way |
| `WebSocketServer` | do the four maps agree at every step? | two workers, two descriptors, two connections, two users, one room |
| `HttpConnection` | is every request answered once, with its own answer, its body whole, its files closed? | up to three requests of seven kinds for each connection, any number of connections on one object, segments cut at eleven places |
| `Log` | are lines kept, in order, in the right file, until the end? | two loggers and the destructor, ring of two, a file of two lines, three days |
| `Server` | are connections to the database, sessions and threads where they belong, through a stop at any time? | two SubReactors with pipes of one message, two workers, one database connection, one user, two connections, alarms or stop signals and then one more stop signal, two requests |

The bounds are enough for each hazard to occur: two connections on one number
is what reuse needs, three let a stale action skip one; a queue of one is full
with one job; a ring of two goes round with three items, and a logger and the
destructor wait on it; a day changes before, within and after a full file; one database
connection makes the second of two workers sleep; a pipe of one is full with a
connection, a tick or the stop from the loop, so that whatever comes next, a
connection, a tick, a second stop or the message of the destructor, has to wait for
room, may be interrupted, and may wait for a loop that has ended. `MaxEvents` bounds
the connections accepted and the signals raised, and allows one stop signal more.
`MaxEvents` and `MaxJobs` only bound what clients, users and the clock do: two logins, a
login and its logout, or a login before a registration are what two requests
can be. With one user, `SessionsRight` still has two sessions of the same user,
and logins that must fail; the proof has any number of users.
Symmetry is used in safety runs, over workers (and users), which no definition
tells apart. `CHECK_DEADLOCK FALSE` is in every configuration: with the bounded
number of requests, lines or connections used up the system has nothing left to
do and rests.

### What the switches stand for, and what does not hold

The three passing `SubReactor` runs differ in what the environment does, and no
run has all of it: the code breaks when idle timeouts meet reused numbers or
upgrades. Two of these disagreements with the code's own comments are runs. The
others can be seen by changing one line of a configuration, as follows; TLC
finds each of them violated.

| change | property | what happens in the code |
|---|---|---|
| `SubReactor_timeouts`: `Reuse = {"ptr"}` | `TimersLive` | `Timer.cpp:65` deletes the timer, `client_data` keeps its address, and `del_timer` deletes a new timer there |
| `SubReactor_timeouts`: `Upgrades = TRUE` | `TablesMatchSockets` | `SubReactor.cpp:177` makes a WebSocketConn for a connection that timed out before its Upgrade came |
| `SubReactor_timeouts`: `Upgrades = TRUE` | `NeverStuck` | `SubReactor.cpp:304` ignores that the pool refused the job; WebSockets have no timer |
| `SubReactor_upgrades`: `Reuse = {"fd"}` | `TablesMatchSockets` | `WebSocketConn.cpp:16` and `SubReactor.cpp:167` both close the number |
| `WebSocketConn`: as it is | `InputInOrder` | a broadcast arms the descriptor while `handle_read` runs, and `read_buf_` has no lock |
| `WebSocketServer`: as it is | `IndexExact` | `WebSocketServer.cpp:335`, a second auth leaves the old name in `users_` |
| `WebSocketServer`: as it is | `NoEmptyRoom` | `WebSocketServer.cpp:64` never erases a room |
| `WebSocketServer`: as it is | `NamesOwn` | `WebSocketServer.cpp:333`, the number was reused between session lookup and naming |
| `HttpConnection`: `Cuts <- MCHeaderCut` | `RightAnswers` | `HttpParser.cpp:113` starts again at the first line, in state HEADERS: 400 |
| `HttpConnection`: `Kinds <- MCEmptyPost` | `Answered` | `HttpParser.cpp:108`, Content-Length 0 is never complete |
| `HttpConnection`: `Pipelining = TRUE` | `Answered` | `HttpConnection.cpp:309` throws the next request away |
| `HttpConnection`: `Kinds <- MCMisplaced` | `RightAnswers` | `HttpConnection.cpp:78`, an upgrade of an unknown path is answered 404 and upgraded all the same |
| `HttpConnection`: `Kinds <- MCKeepUpgrade` | `RightAnswers` | `HttpConnection.cpp:199`, an upgrade that asks for keep-alive is answered 101 and stays HTTP |
| `HttpConnection`: `Kinds <- MCMultipart`, `Cuts <- MCAfterBoundary` | `RightAnswers` | `HttpParser.cpp:213`, what follows a boundary has not come in yet: 400 |
| `HttpConnection`: `Kinds <- MCMultipart`, `Cuts <- MCBeforeBoundary` | `Answered` | `HttpParser.cpp:269`, the line end is stored as data and the boundary no longer found |
| `HttpConnection`: `Kinds <- MCMultipart`, `Cuts <- MCLastEnd` | `RightAnswers` | `HttpParser.cpp:204`, the last line end comes in after the answer was begun, as the first line of the next request |
| `Log`: `MonthDays = 2` | `FilesSplit` | `Log.cpp:40` compares the day of the month: a silent month is not noticed |
| `Server`: as it is | `NoUseAfterDelete` | `WebServer.cpp:38` deletes the SubReactors, `:64` joins the workers |
| `Server`: as it is, invariant `~Stuck` (an operator of its own) | `~Stuck` | `WebServer.cpp:25`, `:254`, `:282`, `SubReactor.cpp:80`: the write end of the pipe blocks, and a loop that has ended does not read; only another signal gets the main thread on |

`MonthDays` is the length of a month. The `Log` run has 31, more than its three
days, so that no day of the month comes back.

### Fairness

* `TaskQueue`, `ThreadPool`, `Log`: threads that can go on do, weakly fair, and
  `std::mutex` is not assumed to be fair to a thread that asks for it. Callers
  owe nothing: they may never post, append or log. A call that has begun goes on.
* `SubReactor`: the loop's dispatch, `epoll_wait` while the pipe or the eventfd
  is readable (level-triggered), and every worker are weakly fair. SIGALRM keeps
  coming (`alarm` is set again at each). `TickExpire` is strongly fair: time
  passes, so the first timer expires unless it is moved again and again. Clients
  owe nothing.
* `WebSocketConn`, `HttpConnection`: threads as above. Strong fairness of `Send`
  and `WriteSome` says that a client that stays takes some bytes in the end; the
  code has no other way out of a full socket buffer.
* `Server`: the main thread, each loop and each worker are weakly fair. A
  connection, a request, a signal, an alarm and a failure of `epoll_wait` may all
  stay away. Weak fairness of a worker is enough for `StopEnds` though it may
  find the connection list empty again and again: requests are finite.

## 4. The proofs

Each component has its theorems in a module of its own: `TaskQueueProofs`,
`ThreadPoolProofs`, `SubReactorProofs`, `WebSocketConnProofs`,
`WebSocketServerProofs`, `HttpConnectionProofs`, `LogProofs` and `ServerProofs`.
They hold for every value of the constants, from the assumptions named in each
module: finite sets of threads, positive sizes, and bounds that are natural
numbers. Every invariant that a run checks is a theorem. Some hold only in an
environment that the theorem names as its hypothesis (`Exclusive`, `Calm`,
`TimersApart`, `Served`, `MaxDate < MonthDays`). The hypotheses are the settings of
the passing runs, stated for every size, and what they leave out is what the
table of section 3 shows to break the code.

* `TaskQueueProofs`: `TypeCorrect`, `WakeupNotLost`, `ReadSucceeds`, `OrderKept`,
  `MailboxIsFifo`. `TypeCorrect` is of the proof only, no run needs it; `ReadSucceeds` is
  the property `ReadNeverFails`. A queued task has a readable eventfd, or a poster about to
  write, or the reactor between read and swap. That last case is why the read
  has to come before the swap; the mutant with the other order breaks it. The
  order needs that the local batch is empty outside `handle_wakeup`.
* `ThreadPoolProofs`: `TypeCorrect`, `OrderKept`, `PoolIsFifo`,
  `NoNotificationLost`, `NothingDropped`. That no job waits for sleepers only is
  inductive with a count: the jobs queued do not outnumber the notifications on
  their way plus the workers that are awake and will look again. `NothingDropped`
  rests on `ExitInv` (a worker has left only when the pool has stopped and its
  queue is empty, and an append no longer adds) and `EndInv` (what was taken is
  finished or in a worker's hand, a fact about cardinalities).
* `SubReactorProofs`: `TypeCorrect` without hypotheses; under `Exclusive`
  (numbers do not come back, or there are neither timeouts nor upgrades)
  `ActionsHitOwnerHolds`, `IoOnOwnSocketHolds`, `HandlersExclusiveHolds`; under `Calm`
  (the same, and not both timeouts and upgrades) `TablesMatchSocketsHolds`; under
  `TimersApart` (no timeouts, or addresses of timers do not come back, and numbers
  only without upgrades) `TimersLiveHolds`. The invariant follows the one shot of
  EPOLLONESHOT: for each descriptor it is armed, reported by `epoll_wait`, in a
  waiting job or in a handler, or in the task that will arm it again, and in one
  of these places only (`Tokens`). That is inductive only together with `Owned`
  (whatever speaks of a descriptor, in the pipe, the tables, the events, the queue or
  the tasks, speaks of the connection it belongs to), `Sockets` (a connection has
  one descriptor) and `Switched` (what the environment withholds leaves no trace).
  The timers need three more: an address is not in use before its connection is
  accepted (`Fresh`), the address in `m_client_data` leads to the timer of the
  descriptor itself (`OwnTimers`), and a connection in the table has a running timer
  or its close is posted (`Kept`).
* `WebSocketConnProofs`: `TypeCorrect`, `BytesInOrder`, `NothingStrandedAlone`, for any
  finite set of workers. The wire followed by `write_buf_` is every frame made, except
  while the holder of `write_mtx_` has sent bytes and not erased them (`Stream`,
  `Follows`), when nobody appends (`Locked`). The types need a count: the frames and
  the workers about to append do not outnumber the messages begun (`Counted`).
  `NothingStrandedAlone` is the comment of `broadcastRoomLocked` that run
  `WebSocketConn_stranded` refutes, proved for connections with which no two workers
  were ever busy at a time: it is their meeting that breaks it and nothing else.
* `WebSocketServerProofs`: `TypeCorrect`, `RoomsConnected`, `CallbackThere`,
  `NamesIndexed`. None of the four map invariants is inductive alone. `Inv` adds
  that a connection has one number (`OneNumberEach`) and that a connection that
  is not there yet has no name (`FreshUnnamed`); without them the naming of one
  descriptor could rename another.
* `HttpConnectionProofs`: `TypeCorrect` and `FilesClosedHolds` without hypotheses, for
  any kinds of requests, lengths of bodies and cuts. They rest on `Types2`, the types
  with `BodyFits` (what is stored of a body is never more than the headers told, or
  the subtraction in `BodyBytes` would leave the natural numbers) and `FilesInv` (where
  each of the files may be open). `RightAnswersHold` and `NoEarlyAnswerHolds` suppose
  `Served`: no pipelining, none of the cuts that the parser does not stand
  (`BadCuts`), no misplaced upgrade, none with keep-alive, and no body in a kind that
  has none. `StreamInv` says that a connection waits, reads, answers or is over, and
  while it reads that the buffer, the kernel and what is still unsent are, one behind
  the other, the text of the last request from some piece on, and that the parser's
  state is what the pieces before it make of it (`Parsed`). The step of the parser is
  then one lemma for each kind of piece.
* `LogProofs`: `TypeCorrect`, `OrderKept`, `RingIsFifo`, `NoNotificationLost`,
  `FilesInOrderHolds`, `FilesNeverLong`, `FilesSplitHolds`, `NothingLost`. The ring
  invariant is `QueueTypeOK`, that `m_back` is `m_front + m_size` around the ring
  (`BackFollows`), and that a pusher has a slot or waits for one (`PushDue`).
  The files rest on `OpenFile`: every file behind the open one, by date and suffix,
  is empty, the suffix is at most `m_count / m_split_lines`, and the open file has no
  more lines than were counted since it was opened. So the next line goes to the open
  file or to one behind all that have lines (`NextFile`), and the log, which is the
  files one behind the other, grows at its end (`LogGrows`, from lemmas about
  `FlattenSeq`). That the suffix never leaves its type is again a count: the items
  pushed are all different (`Once`), so there are no more lines in the files than the
  threads have to log (`CountFits`). `NothingLost` needs that ~Log pushes last
  (`ExitLast`, `WriterEnded`). Only the day of a line needs a hypothesis, that no day
  of the month comes back; the length of the files and their order do not.
* `ServerProofs`: `AccountKept`, `NoSleeperLeft`, `SessionsKept`, `ExitClean`,
  `TypeCorrect`. Its first part has lemmas about one step of the pool of database
  connections, free of who calls it: it keeps the types, the account of who has
  which connection (`StepKeepsAccount`) and that nobody sleeps beside a free one
  (`StepKeepsSleeper`). `SqlInv` adds to the two properties that a worker is at
  "has" exactly when it holds a connection. `NoSqlSleeper` is inductive because
  it is a count: there are no more free connections than workers on their way to
  the lock or to `notify_one`, as long as somebody sleeps. The
  invariant `SafeInv` is `SqlInv` with `JobInv` (a worker that holds or asks for a
  connection is at the step that needs one, so one that is idle or gone holds
  none), `EndInv` (no loop runs from the time the SubReactors are deleted, so a
  crash finds none; a worker has gone only when the pool is stopped and its queue
  is empty, and all have when the destructor is past the join), `DataInv` (an id
  that is told, or in a worker's hand, has been drawn; who is about to be given a
  session is registered) and `ReactorTypes`. `ExitClean` needs the first three
  together: `DestroyPool` closes what is in the list, so nothing may be out.
  `TypeCorrect` bounds the ids by the requests that came and are still to be served.

How the parts fit is proved through two specifications in the middle, `WorkerPool` and
`Mailbox`, that know neither locks nor notifications. From below, `PoolSeenOutside`
and `MailboxSeenOutside` say that every step of `ThreadPool` and `TaskQueue` is one of
theirs or a stutter. From above, `PoolUsedRightly` (of `SubReactor` and of `Server`) and
`MailUsedRightly` say the same of the steps of their users. So a user never does what
the detailed module supposes that nobody does. The one that matters is in the
destructor: `ThreadPool` supposes that nothing is appended after `m_stop`, and in
`Server` that rests on `EndInv`, by which no loop runs from the time the pool is
stopped, whether the loop of the main thread ended by a signal or by a failure, and
whatever waits in the pipes. `Server` keeps its answers in a set for each loop, since
the order in which connections are armed again does not show, so `Mailbox` is not for
it.

Only model-checked: the liveness properties (`DestroyEnds`, `NeverStuck`, `Delivered`,
`Answered`, `ExitEnds`, `StopEnds`) and the fairness in `ImplementsFifo`, of which the
proofs show the safety part (`MailboxIsFifo`, `PoolIsFifo`): the prover has neither
fairness nor ENABLED. The library's
induction theorems take an operator as a parameter, which the provers cannot
instantiate; the lemmas about `FlattenSeq` use an induction whose predicate is a set
of numbers (`SetInduction`), those about the segments of a request that a set of
numbers has a least element (`FirstIsLeast`).

## 5. What is not modelled, and the plan

Not modelled because there is nothing concurrent or stateful in it: `Config`,
start-up, formatting of requests, responses and log lines, form and URL
decoding, MIME types, SHA-1 and base64, routing tables, `printRoomInfo`, the
front-end pages, the build. `BufferPool` and the stack of `HttpConnectionPool` are
lists behind one lock; what matters about them, the state an object comes back
with, is in `HttpConnection`. WebSocket frames are whole in `WebSocketConn`: the
lengths and masks of `parseFrames` are arithmetic of one thread. Signals other
than SIGALRM, SIGINT and SIGTERM, and failures of `epoll_create`, `fopen` and the
like, are left out, and so is a file that changes while it is sent.

To come: the hazards without a property, listed in PROJECT.json with the reason; and
that the handlers of `HttpConnection` and `WebSocketConn` return only the actions that
`SubReactor` lets a handler return, which now is read off the modules.

## 6. Running

    tlc -workers 2 -config SubReactor_reuse.cfg MCSubReactor
    tlapm ThreadPoolProofs.tla

PROJECT.json maps every definition to the lines it models and names, for each
property, a mutant of a definition that makes TLC find it violated.
