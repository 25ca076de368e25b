----------------------------- MODULE SubReactor -----------------------------
(***************************************************************************)
(* One SubReactor with the parts it works with: the kernel's table of file *)
(* descriptors and its epoll set, the pipe from the main reactor, the      *)
(* tables m_connections, m_ws_connections and m_client_data, which are all *)
(* indexed by file descriptor number, the timers, the task queue and the   *)
(* worker pool.                                                            *)
(*                                                                         *)
(* Connections are numbered in the order in which they are accepted.  The  *)
(* code knows them by descriptor number only: the connection carried by an *)
(* event, a task, a timer or a job is a history variable, which no guard   *)
(* reads.  Where the module compares a connection it speaks of an object   *)
(* or a socket that the code holds: the shared_ptr of a job, or the socket *)
(* behind a descriptor.                                                    *)
(***************************************************************************)
EXTENDS Naturals, Sequences, FiniteSets, SequencesExt

CONSTANTS MaxConns,    \* bound: the connections accepted
          MaxFds,      \* bound: the descriptor numbers clients can get
          Workers,     \* the worker threads
          MaxQueue,    \* m_max_requests of the pool
          Timeouts,    \* SIGALRM arrives and timers expire
          Upgrades,    \* clients ask for the WebSocket protocol
          MaxBroadcasts, \* bound: the messages sent to WebSocket clients
          Reuse        \* what is handed out again once free: "fd", "ptr"

ASSUME BoundsAssumption ==
  /\ MaxConns \in Nat /\ MaxFds \in Nat /\ MaxBroadcasts \in Nat
  /\ MaxQueue \in Nat \ {0}
ASSUME SwitchesAssumption ==
  Timeouts \in BOOLEAN /\ Upgrades \in BOOLEAN /\ Reuse \subseteq {"fd", "ptr"}

None == 0
Conns == 1 .. MaxConns
Fds == 1 .. MaxFds

VARIABLES
  accepted,   \* the connections accepted so far are 1 .. accepted
  sock,       \* sock[fd]: the connection whose socket is descriptor fd
  armed,      \* armed[c]: c's socket in the epoll set: "none", "off" (the
              \* one shot was fired), "in" or "out"
  pipe,       \* m_pipefd: the messages from the main reactor
  rpc,        \* where eventLoop is: "poll", "dispatch", "msgs", "tasks"
  events,     \* the events that epoll_wait returned and are not dispatched
  msgs,       \* the messages read from the pipe and not yet handled
  batch,      \* the tasks taken by handle_wakeup and not yet run
  closing,    \* the descriptor that removefd has still to close, or None
  tasks,      \* m_task_queue
  http,       \* m_connections[fd]
  ws,         \* m_ws_connections[fd], and conns_ of WebSocketServer
  wsClosed,   \* the WebSocketConn objects with closed_ set
  reply,      \* reply[c]: what handle_write finds in an HttpConnection
  cd,         \* m_client_data[fd]: its timer, and timer_deleted
  timers,     \* TimerManager: the timers in the order of their expiry
  casts,      \* the messages sent to WebSocket clients so far
  jobs,       \* m_workqueue of the pool
  work        \* work[w]: what worker w does

kernelVars == <<accepted, sock, armed>>
loopVars   == <<rpc, events, msgs, batch, closing>>
tableVars  == <<http, ws>>
connVars   == <<wsClosed, reply, casts>>
timerVars  == <<cd, timers>>
poolVars   == <<jobs, work>>
vars == <<kernelVars, pipe, loopVars, tasks, tableVars, connVars, timerVars,
          poolVars>>

Actions == {"Read", "Write", "Wait", "Close", "Upgrade"}
Task(act, fd, c) == [act |-> act, fd |-> fd, conn |-> c]
Job(kind, dir, fd, c) == [kind |-> kind, dir |-> dir, fd |-> fd, conn |-> c]
Event(src, fd, c, ev) == [src |-> src, fd |-> fd, conn |-> c, ev |-> ev]

\* The messages in the pipe: -2, and the number of a new descriptor.
Tick == [fd |-> None, conn |-> None]
NewConn(fd, c) == [fd |-> fd, conn |-> c]

NoJob == Job("none", "in", None, None)
Idle == [at |-> "idle", job |-> NoJob, act |-> "Read"]

Init ==
  /\ accepted = 0
  /\ sock = [fd \in Fds |-> None] /\ armed = [c \in Conns |-> "none"]
  /\ pipe = <<>> /\ msgs = <<>> /\ batch = <<>> /\ tasks = <<>>
  /\ rpc = "poll" /\ events = {} /\ closing = None
  /\ http = [fd \in Fds |-> None] /\ ws = [fd \in Fds |-> None]
  /\ wsClosed = {} /\ reply = [c \in Conns |-> "none"]
  /\ cd = [fd \in Fds |-> [timer |-> None, deleted |-> FALSE]]
  /\ timers = <<>>
  /\ casts = 0 /\ jobs = <<>> /\ work = [w \in Workers |-> Idle]

-----------------------------------------------------------------------------
(* The kernel: descriptors and the epoll set. *)

\* The descriptors that accept may return.
FreeFds ==
  LET free == {fd \in Fds : sock[fd] = None} IN
    IF "fd" \in Reuse
      THEN {fd \in free : \A other \in free : fd <= other}
      ELSE free \cap {accepted + 1}

Registered(fd) == sock[fd] # None /\ armed[sock[fd]] # "none"

\* epoll_ctl MOD of a descriptor; it fails when none is registered.
ModFd(fd, ev) ==
  armed' = IF Registered(fd) THEN [armed EXCEPT ![sock[fd]] = ev] ELSE armed

\* Mutant: without EPOLLONESHOT the descriptors stay armed.
FireOneShotsNot(fds) == UNCHANGED armed

\* EPOLLONESHOT: what epoll_wait reported is disarmed.
FireOneShots(fds) ==
  armed' = [c \in Conns |->
              IF \E fd \in fds : sock[fd] = c THEN "off" ELSE armed[c]]

\* Mutant: the descriptor leaves the epoll set and is not closed.
CloseFdNot(fd) ==
  /\ UNCHANGED sock
  /\ armed' = [c \in Conns |-> IF c = sock[fd] THEN "none" ELSE armed[c]]

\* close of a descriptor, by whoever knows its number; the kernel takes the
\* socket out of the epoll set.  It fails when the descriptor is not open.
CloseFd(fd) ==
  /\ sock' = [sock EXCEPT ![fd] = None]
  /\ armed' = [c \in Conns |-> IF c = sock[fd] THEN "none" ELSE armed[c]]

-----------------------------------------------------------------------------
(* The timers of Tools and TimerManager. *)

TimerSet(q) == {q[i] : i \in 1 .. Len(q)}
LivePtrs == {t.ptr : t \in TimerSet(timers)}

\* The addresses that `new util_timer` may return for connection c.
FreePtrs(c) ==
  IF "ptr" \in Reuse THEN (1 .. c) \ LivePtrs ELSE {c}

HasTimer(fd) == cd[fd].timer # None /\ ~cd[fd].deleted

\* The node of the timer at address p is found by the index and taken out.
Without(p) ==
  IF p \in LivePtrs
    THEN RemoveAt(timers, CHOOSE i \in 1 .. Len(timers) : timers[i].ptr = p)
    ELSE timers

\* Mutant: timer_deleted keeps the value the last connection left in it.
InitTimerStale(fd, c) ==
  \E p \in FreePtrs(c) :
    /\ cd' = [cd EXCEPT ![fd] = [timer |-> p, deleted |-> @.deleted]]
    /\ timers' = Append(timers, [ptr |-> p, fd |-> fd, conn |-> c])

InitTimer(fd, c) ==
  \E p \in FreePtrs(c) :
    /\ cd' = [cd EXCEPT ![fd] = [timer |-> p, deleted |-> FALSE]]
    /\ timers' = Append(timers, [ptr |-> p, fd |-> fd, conn |-> c])

\* Mutant: the timer is taken out and not put back.
AdjustTimerLost(fd) ==
  /\ timers' = IF HasTimer(fd) THEN Without(cd[fd].timer) ELSE timers
  /\ UNCHANGED cd

\* All timers are set to the same delay: the adjusted one becomes the last.
AdjustTimer(fd) ==
  LET p == cd[fd].timer IN
  /\ timers' = IF HasTimer(fd) /\ p \in LivePtrs
                 THEN Append(Without(p),
                             CHOOSE t \in TimerSet(timers) : t.ptr = p)
                 ELSE timers
  /\ UNCHANGED cd

DelTimer(fd) ==
  IF HasTimer(fd)
    THEN /\ timers' = Without(cd[fd].timer)
         /\ cd' = [cd EXCEPT ![fd] = [timer |-> None, deleted |-> TRUE]]
    ELSE UNCHANGED timerVars

-----------------------------------------------------------------------------
(* The main reactor: accept, and the forwarding of SIGALRM. *)

Accept ==
  /\ accepted < MaxConns
  /\ \E fd \in FreeFds :
       /\ sock' = [sock EXCEPT ![fd] = accepted + 1]
       /\ pipe' = Append(pipe, NewConn(fd, accepted + 1))
  /\ accepted' = accepted + 1
  /\ UNCHANGED <<armed, loopVars, tasks, tableVars, connVars, timerVars,
                 poolVars>>

\* Bound: one tick at a time is in the pipe.
ForwardTick ==
  /\ Timeouts
  /\ \A i \in 1 .. Len(pipe) : pipe[i] # Tick
  /\ pipe' = Append(pipe, Tick)
  /\ UNCHANGED <<kernelVars, loopVars, tasks, tableVars, connVars, timerVars,
                 poolVars>>

-----------------------------------------------------------------------------
(* eventLoop: wait, then dispatch each event, in whatever order they came. *)

\* epoll_wait reports the pipe and the eventfd while they are readable, and
\* those clients that the network makes readable, writable or hung up.
EpollWait ==
  /\ rpc = "poll"
  /\ \E clients \in SUBSET {fd \in Fds : Registered(fd)
                                          /\ armed[sock[fd]] # "off"} :
       \E hungUp \in SUBSET clients :
         /\ events' =
              {Event("pipe", None, None, "in") : m \in {pipe} \ {<<>>}}
              \cup {Event("wakeup", None, None, "in") : q \in {tasks} \ {<<>>}}
              \cup {Event("client", fd, sock[fd],
                          IF fd \in hungUp THEN "hup" ELSE armed[sock[fd]])
                      : fd \in clients}
         /\ FireOneShots(clients)
  /\ events' # {}
  /\ rpc' = "dispatch"
  /\ UNCHANGED <<accepted, sock, pipe, msgs, batch, closing, tasks, tableVars,
                 connVars, timerVars, poolVars>>

DispatchDone ==
  /\ rpc = "dispatch" /\ events = {}
  /\ rpc' = "poll"
  /\ UNCHANGED <<kernelVars, pipe, events, msgs, batch, closing, tasks,
                 tableVars, connVars, timerVars, poolVars>>

DispatchPipe ==
  /\ rpc = "dispatch"
  /\ \E e \in events : e.src = "pipe" /\ events' = events \ {e}
  /\ msgs' = pipe /\ pipe' = <<>>
  /\ rpc' = "msgs"
  /\ UNCHANGED <<kernelVars, batch, closing, tasks, tableVars, connVars,
                 timerVars, poolVars>>

DispatchWakeup ==
  /\ rpc = "dispatch"
  /\ \E e \in events : e.src = "wakeup" /\ events' = events \ {e}
  /\ batch' = tasks /\ tasks' = <<>>
  /\ rpc' = "tasks"
  /\ UNCHANGED <<kernelVars, pipe, msgs, closing, tableVars, connVars,
                 timerVars, poolVars>>

\* EPOLLRDHUP, EPOLLHUP and EPOLLERR: the close is posted, not done.
DispatchHup ==
  /\ rpc = "dispatch"
  /\ \E e \in events :
       /\ e.src = "client" /\ e.ev = "hup"
       /\ events' = events \ {e}
       /\ tasks' = Append(tasks, Task("Close", e.fd, e.conn))
  /\ UNCHANGED <<kernelVars, pipe, rpc, msgs, batch, closing, tableVars,
                 connVars, timerVars, poolVars>>

\* Mutant: the pool takes one job too many.
AppendJobOver(job) ==
  /\ jobs' = IF Len(jobs) <= MaxQueue THEN Append(jobs, job) ELSE jobs
  /\ UNCHANGED work

\* The answer of m_pool->append is not looked at.
AppendJob(job) ==
  /\ jobs' = IF Len(jobs) < MaxQueue THEN Append(jobs, job) ELSE jobs
  /\ UNCHANGED work

\* EPOLLIN and EPOLLOUT: the descriptor number leads to the object.
DispatchIo ==
  /\ rpc = "dispatch"
  /\ \E e \in events :
       /\ e.src = "client" /\ e.ev \in {"in", "out"}
       /\ events' = events \ {e}
       /\ \/ /\ ws[e.fd] # None
             /\ AppendJob(Job("ws", e.ev, e.fd, ws[e.fd]))
             /\ UNCHANGED timerVars
          \/ /\ ws[e.fd] = None /\ http[e.fd] # None
             /\ AdjustTimer(e.fd)
             /\ AppendJob(Job("http", e.ev, e.fd, http[e.fd]))
          \/ /\ ws[e.fd] = None /\ http[e.fd] = None
             /\ UNCHANGED <<timerVars, poolVars>>
  /\ UNCHANGED <<kernelVars, pipe, rpc, msgs, batch, closing, tasks, tableVars,
                 connVars>>

-----------------------------------------------------------------------------
(* The messages from the main reactor. *)

\* handle_new_connection: addfd, the HttpConnection, its timer.
HandleNewConnection ==
  /\ rpc = "msgs" /\ msgs # <<>> /\ Head(msgs) # Tick
  /\ LET fd == Head(msgs).fd
         c  == Head(msgs).conn
     IN  /\ armed' = IF sock[fd] # None /\ ~Registered(fd)
                       THEN [armed EXCEPT ![sock[fd]] = "in"] ELSE armed
         /\ http' = [http EXCEPT ![fd] = c]
         /\ InitTimer(fd, c)
  /\ msgs' = Tail(msgs)
  /\ UNCHANGED <<accepted, sock, pipe, rpc, events, batch, closing, tasks, ws,
                 connVars, poolVars>>

\* tick finds a timer that has expired: it forgets the timer, runs the
\* callback, which posts the close unless timer_deleted is set, and deletes
\* the timer; m_client_data keeps its address.  The ticks that expire several
\* timers are several messages here.
TickExpire ==
  /\ rpc = "msgs" /\ msgs # <<>> /\ Head(msgs) = Tick
  /\ timers # <<>>
  /\ LET t == Head(timers) IN
       tasks' = IF cd[t.fd].deleted THEN tasks
                                    ELSE Append(tasks, Task("Timeout", t.fd, t.conn))
  /\ timers' = Tail(timers)
  /\ msgs' = Tail(msgs)
  /\ UNCHANGED <<kernelVars, pipe, rpc, events, batch, closing, tableVars,
                 connVars, cd, poolVars>>

TickNothing ==
  /\ rpc = "msgs" /\ msgs # <<>> /\ Head(msgs) = Tick
  /\ msgs' = Tail(msgs)
  /\ UNCHANGED <<kernelVars, pipe, rpc, events, batch, closing, tasks,
                 tableVars, connVars, timerVars, poolVars>>

MsgsDone ==
  /\ rpc = "msgs" /\ msgs = <<>>
  /\ rpc' = "dispatch"
  /\ UNCHANGED <<kernelVars, pipe, events, msgs, batch, closing, tasks,
                 tableVars, connVars, timerVars, poolVars>>

-----------------------------------------------------------------------------
(* handle_wakeup: the tasks, that is handle_action. *)

\* A job, or one of the given workers, holds a shared_ptr to c's WebSocketConn.
WsHeld(c, workers) ==
  \/ \E i \in 1 .. Len(jobs) : jobs[i].kind = "ws" /\ jobs[i].conn = c
  \/ \E w \in workers : work[w].job.kind = "ws" /\ work[w].job.conn = c

\* ~WebSocketConn, which runs when nobody holds the object, closes the
\* descriptor number of the object unless closed_ is set.
DestructorCloses(c, workers) ==
  c # None /\ ~WsHeld(c, workers) /\ c \notin wsClosed

Running(acts) ==
  rpc = "tasks" /\ closing = None /\ batch # <<>> /\ Head(batch).act \in acts

\* An action Close, or a timeout that finds an HttpConnection to close.
RunningClose ==
  \/ Running({"Close"})
  \/ Running({"Timeout"}) /\ http[Head(batch).fd] # None

NextTask == batch' = Tail(batch) /\ UNCHANGED <<rpc, events, msgs>>

TaskRearm ==
  /\ Running({"Read", "Wait", "Write"})
  /\ ModFd(Head(batch).fd, IF Head(batch).act = "Write" THEN "out" ELSE "in")
  /\ NextTask
  /\ UNCHANGED <<accepted, sock, pipe, closing, tasks, tableVars, connVars,
                 timerVars, poolVars>>

\* Close of a WebSocket connection; removefd follows, and the descriptor may
\* be open or not when it does.
TaskCloseWs ==
  /\ RunningClose
  /\ LET fd == Head(batch).fd IN
       /\ ws[fd] # None
       /\ ws' = [ws EXCEPT ![fd] = None]
       /\ IF DestructorCloses(ws[fd], Workers)
            THEN CloseFd(fd) ELSE UNCHANGED <<sock, armed>>
       /\ closing' = fd
  /\ NextTask
  /\ UNCHANGED <<accepted, pipe, tasks, http, connVars, timerVars, poolVars>>

RemoveFd ==
  /\ closing # None
  /\ CloseFd(closing)
  /\ closing' = None
  /\ UNCHANGED <<accepted, pipe, rpc, events, msgs, batch, tasks, tableVars,
                 connVars, timerVars, poolVars>>

TaskCloseHttp ==
  /\ RunningClose
  /\ LET fd == Head(batch).fd IN
       /\ ws[fd] = None
       /\ DelTimer(fd)
       /\ http' = [http EXCEPT ![fd] = None]
       /\ CloseFd(fd)
  /\ NextTask
  /\ UNCHANGED <<accepted, pipe, closing, tasks, ws, connVars, poolVars>>

\* The task of a timeout whose connection is gone.
TaskTimeoutGone ==
  /\ Running({"Timeout"}) /\ http[Head(batch).fd] = None
  /\ NextTask
  /\ UNCHANGED <<kernelVars, pipe, closing, tasks, tableVars, connVars,
                 timerVars, poolVars>>

\* Mutant: the HttpConnection stays in its table.
TaskUpgradeKeeps ==
  /\ Running({"Upgrade"})
  /\ LET fd == Head(batch).fd IN
       /\ DelTimer(fd)
       /\ ws' = [ws EXCEPT ![fd] = Head(batch).conn]
       /\ ModFd(fd, "in")
  /\ NextTask
  /\ UNCHANGED <<accepted, sock, pipe, closing, tasks, http, connVars,
                 poolVars>>

\* Upgrade: the HttpConnection and its timer go, a WebSocketConn is made and
\* registered, which destroys the one that was there, and the descriptor is
\* armed if it is still open.  No timer is set.
TaskUpgrade ==
  /\ Running({"Upgrade"})
  /\ LET fd == Head(batch).fd IN
       /\ DelTimer(fd)
       /\ http' = [http EXCEPT ![fd] = None]
       /\ ws' = [ws EXCEPT ![fd] = Head(batch).conn]
       /\ IF DestructorCloses(ws[fd], Workers)
            THEN CloseFd(fd) ELSE ModFd(fd, "in") /\ UNCHANGED sock
  /\ NextTask
  /\ UNCHANGED <<accepted, pipe, closing, tasks, connVars, poolVars>>

WakeupDone ==
  /\ rpc = "tasks" /\ batch = <<>> /\ closing = None
  /\ rpc' = "dispatch"
  /\ UNCHANGED <<kernelVars, pipe, events, msgs, batch, closing, tasks,
                 tableVars, connVars, timerVars, poolVars>>

-----------------------------------------------------------------------------
(* The worker threads: take a job, run its handler, post the action. *)

WorkerTake(w) ==
  /\ work[w].at = "idle" /\ jobs # <<>>
  /\ work' = [work EXCEPT ![w] = [at |-> "handler", job |-> Head(jobs),
                                  act |-> "Read"]]
  /\ jobs' = Tail(jobs)
  /\ UNCHANGED <<kernelVars, pipe, loopVars, tasks, tableVars, connVars,
                 timerVars>>

Return(w, act) ==
  work' = [work EXCEPT ![w].at = "post", ![w].act = act]

\* HttpConnection::handle_read.  On a descriptor that is not open recv fails.
HttpRead(w) ==
  LET c == work[w].job.conn IN
  /\ work[w].at = "handler" /\ work[w].job.kind = "http"
  /\ work[w].job.dir = "in"
  /\ \/ Return(w, "Close") /\ UNCHANGED reply
     \/ /\ sock[work[w].job.fd] # None
        /\ Return(w, "Read") /\ UNCHANGED reply
     \/ /\ sock[work[w].job.fd] # None
        /\ Return(w, "Write")
        /\ \E r \in {"http"} \cup {u \in {"upgrade"} : Upgrades} :
             reply' = [reply EXCEPT ![c] = r]
  /\ UNCHANGED <<kernelVars, pipe, loopVars, tasks, tableVars, wsClosed,
                 casts, timerVars, jobs>>

\* HttpConnection::handle_write.  What follows the last byte is a wait for
\* the next request, the upgrade, or the close.
HttpWrite(w) ==
  LET c    == work[w].job.conn
      open == sock[work[w].job.fd] # None
  IN
  /\ work[w].at = "handler" /\ work[w].job.kind = "http"
  /\ work[w].job.dir = "out"
  /\ \/ /\ reply[c] = "none"
        /\ Return(w, "Read") /\ UNCHANGED reply
     \/ /\ reply[c] \in {"http", "upgrade"} /\ open
        /\ Return(w, "Write") /\ UNCHANGED reply
     \/ /\ reply[c] = "http" /\ open
        /\ Return(w, "Wait") /\ reply' = [reply EXCEPT ![c] = "none"]
     \/ /\ reply[c] = "upgrade" /\ open
        /\ Return(w, "Upgrade") /\ reply' = [reply EXCEPT ![c] = "sent"]
     \/ /\ reply[c] # "none"
        /\ Return(w, "Close") /\ UNCHANGED reply
  /\ UNCHANGED <<kernelVars, pipe, loopVars, tasks, tableVars, wsClosed,
                 casts, timerVars, jobs>>

\* WebSocketConn::handle_read and handle_write.
WsHandler(w) ==
  LET c == work[w].job.conn IN
  /\ work[w].at = "handler" /\ work[w].job.kind = "ws"
  /\ \/ Return(w, "Close") /\ wsClosed' = wsClosed \cup {c}
     \/ /\ c \notin wsClosed /\ sock[work[w].job.fd] # None
        /\ \E act \in {"Read", "Write"} : Return(w, act)
        /\ UNCHANGED wsClosed
  /\ UNCHANGED <<kernelVars, pipe, loopVars, tasks, tableVars, reply,
                 casts, timerVars, jobs>>

\* A frame leads to a message to a client, the sender or another one that is
\* in conns_: its callback posts Write, whatever its descriptor is doing.
WsBroadcast(w) ==
  /\ work[w].at = "handler" /\ work[w].job.kind = "ws"
  /\ work[w].job.dir = "in" /\ work[w].job.conn \notin wsClosed
  /\ casts < MaxBroadcasts /\ casts' = casts + 1
  /\ \E fd \in {f \in Fds : ws[f] # None} :
       tasks' = Append(tasks, Task("Write", fd, ws[fd]))
  /\ UNCHANGED <<kernelVars, pipe, loopVars, tableVars, wsClosed, reply,
                 timerVars, poolVars>>

\* addTask with the descriptor number the job was made for.
WorkerPost(w) ==
  /\ work[w].at = "post"
  /\ tasks' = Append(tasks, Task(work[w].act, work[w].job.fd,
                                 work[w].job.conn))
  /\ work' = IF work[w].job.kind = "ws"
               THEN [work EXCEPT ![w].at = "drop"]
               ELSE [work EXCEPT ![w] = Idle]
  /\ UNCHANGED <<kernelVars, pipe, loopVars, tableVars, connVars, timerVars,
                 jobs>>

\* The shared_ptr of the job goes; it may be the last one.
WorkerDrop(w) ==
  /\ work[w].at = "drop"
  /\ work' = [work EXCEPT ![w] = Idle]
  /\ LET c == work[w].job.conn IN
       IF DestructorCloses(c, Workers \ {w}) /\ \A fd \in Fds : ws[fd] # c
         THEN CloseFd(work[w].job.fd) ELSE UNCHANGED <<sock, armed>>
  /\ UNCHANGED <<accepted, pipe, loopVars, tasks, tableVars, connVars,
                 timerVars, jobs>>

-----------------------------------------------------------------------------
MainReactor == Accept \/ ForwardTick

Dispatch ==
  \/ DispatchDone \/ DispatchPipe \/ DispatchWakeup \/ DispatchHup \/ DispatchIo
  \/ HandleNewConnection \/ TickExpire \/ TickNothing \/ MsgsDone
  \/ TaskRearm \/ TaskCloseWs \/ TaskCloseHttp \/ TaskTimeoutGone
  \/ TaskUpgrade \/ RemoveFd \/ WakeupDone

Worker(w) ==
  \/ WorkerTake(w) \/ WorkerPost(w) \/ WorkerDrop(w)
  \/ HttpRead(w) \/ HttpWrite(w) \/ WsHandler(w) \/ WsBroadcast(w)

Next == MainReactor \/ EpollWait \/ Dispatch \/ \E w \in Workers : Worker(w)

Safe == Init /\ [][Next]_vars

\* The threads run, handlers return and SIGALRM keeps coming.  epoll_wait
\* returns by itself for the pipe and the eventfd only: clients owe nothing.
\* Time passes: the first timer expires unless it is moved again and again.
Spec ==
  /\ Safe
  /\ WF_vars(Dispatch)
  /\ WF_vars((pipe # <<>> \/ tasks # <<>>) /\ EpollWait)
  /\ \A w \in Workers : WF_vars(Worker(w))
  /\ WF_vars(ForwardTick) /\ SF_vars(TickExpire)

-----------------------------------------------------------------------------
Tasks == [act : Actions \cup {"Timeout"}, fd : Fds, conn : Conns]
Jobs == [kind : {"http", "ws"}, dir : {"in", "out"}, fd : Fds, conn : Conns]
Timers == [ptr : Conns, fd : Fds, conn : Conns]
Messages == [fd : Fds, conn : Conns] \cup {Tick}
Events ==
  [src : {"client"}, fd : Fds, conn : Conns, ev : {"in", "out", "hup"}]
    \cup {Event("pipe", None, None, "in"), Event("wakeup", None, None, "in")}

TypeOK ==
  /\ accepted \in 0 .. MaxConns
  /\ sock \in [Fds -> {None} \cup Conns]
  /\ armed \in [Conns -> {"none", "off", "in", "out"}]
  /\ pipe \in Seq(Messages) /\ msgs \in Seq(Messages)
  /\ rpc \in {"poll", "dispatch", "msgs", "tasks"}
  /\ events \in SUBSET Events
  /\ batch \in Seq(Tasks) /\ tasks \in Seq(Tasks)
  /\ closing \in {None} \cup Fds
  /\ http \in [Fds -> {None} \cup Conns] /\ ws \in [Fds -> {None} \cup Conns]
  /\ wsClosed \in SUBSET Conns
  /\ reply \in [Conns -> {"none", "http", "upgrade", "sent"}]
  /\ cd \in [Fds -> [timer : {None} \cup Conns, deleted : BOOLEAN]]
  /\ timers \in Seq(Timers)
  /\ casts \in 0 .. MaxBroadcasts
  /\ jobs \in Seq(Jobs) /\ Len(jobs) <= MaxQueue
  /\ work \in [Workers -> [at : {"idle", "handler", "post", "drop"},
                           job : Jobs \cup {NoJob}, act : Actions]]

\* An HttpConnection is in the hands of one worker at a time: the one-shot
\* arming of epoll is what keeps two of them apart, the object has no lock.
\* Of a WebSocketConn this is not so: a broadcast arms its descriptor while a
\* handler runs (module WebSocketConn shows what comes of it).
InHandler(c) ==
  Cardinality({i \in 1 .. Len(jobs) :
                 jobs[i].kind = "http" /\ jobs[i].conn = c})
    + Cardinality({w \in Workers :
                     /\ work[w].at = "handler"
                     /\ work[w].job.kind = "http" /\ work[w].job.conn = c})

HandlersExclusive == \A c \in Conns : InHandler(c) <= 1

\* The action about to be applied in handle_action was decided for the
\* connection that owns the descriptor now.
ActionsHitOwner ==
  rpc = "tasks" /\ closing = None /\ batch # <<>> =>
    sock[Head(batch).fd] \in {None, Head(batch).conn}

\* A handler reads and writes the socket of its own connection.
IoOnOwnSocket ==
  \A w \in Workers : work[w].at = "handler" =>
    sock[work[w].job.fd] \in {None, work[w].job.conn}

\* Every open socket is known to the reactor by exactly one of its tables, or
\* is on its way there, and every table entry has its open socket: no
\* descriptor leaks and no entry outlives its socket.
OnItsWay(c) ==
  \E q \in {pipe, msgs} : \E i \in 1 .. Len(q) : q[i] # Tick /\ q[i].conn = c

TablesMatchSockets ==
  \A fd \in Fds :
    /\ http[fd] # None => http[fd] = sock[fd] /\ ws[fd] = None
    /\ ws[fd] # None => ws[fd] = sock[fd]
    /\ sock[fd] # None =>
         http[fd] # None \/ ws[fd] # None \/ closing = fd \/ OnItsWay(sock[fd])

\* Every HTTP connection has its own timer running, or the close that its
\* timer posted is on its way.
TimeoutPosted(fd) ==
  \E q \in {tasks, batch} : \E i \in 1 .. Len(q) :
    q[i].act = "Timeout" /\ q[i].fd = fd

TimersLive ==
  \A fd \in Fds : http[fd] # None =>
    \/ TimeoutPosted(fd)
    \/ \E t \in TimerSet(timers) :
         t.ptr = cd[fd].timer /\ t.fd = fd /\ HasTimer(fd)

\* The pool as the reactor uses it.
Doing == [w \in Workers |-> IF work[w].at = "idle" THEN "nothing" ELSE "job"]

Pool == INSTANCE WorkerPool
  WITH Items <- Jobs, queue <- jobs, stopped <- FALSE, doing <- Doing

\* The task queue as the loop and the workers use it.
Mail == INSTANCE Mailbox WITH Items <- Tasks, waiting <- tasks, running <- batch

\* A connection whose one-shot event was taken is armed again or closed in
\* the end: dropped jobs are made good by the timer.
NeverStuck == \A c \in Conns : armed[c] = "off" ~> armed[c] # "off"
=============================================================================
