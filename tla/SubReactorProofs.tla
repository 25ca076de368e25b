-------------------------- MODULE SubReactorProofs --------------------------
(***************************************************************************)
(* A loop, its connection tables, its timers and its workers, for any      *)
(* numbers of connections, descriptors, workers, queue places and pending  *)
(* signals.  TypeOK needs nothing.  The other theorems say on what        *)
(* environment they rest:                                                  *)
(*                                                                         *)
(*   Exclusive     descriptor numbers do not come back, or there are       *)
(*                 neither idle timeouts nor upgrades                      *)
(*   Calm          as Exclusive, and not both timeouts and upgrades        *)
(*   TimersApart   no timeouts, or timer addresses do not come back and    *)
(*                 descriptor numbers do so only without upgrades          *)
(*                                                                         *)
(* In the other environments the code breaks them: a timeout closes a      *)
(* descriptor while a handler still has it and accept gives the number to  *)
(* the next client.                                                        *)
(*                                                                         *)
(* The invariant follows the one shot of EPOLLONESHOT.  It is in one place *)
(* at a time: armed, reported, with a handler, or in the task that arms    *)
(* it again (Tokens); whatever speaks of a descriptor speaks of the        *)
(* connection it was accepted for (Owned); a connection has one descriptor *)
(* (Sockets); and the events that the environment withholds leave no trace *)
(* (Switched).                                                             *)
(***************************************************************************)
EXTENDS SubReactor, SequenceTheorems, FiniteSetTheorems, TLAPS

USE BoundsAssumption, SwitchesAssumption

\* What a queue holds, whether some of it is in S, and that at most one is.
Elems(q) == {q[i] : i \in 1 .. Len(q)}
Has(q, S) == \E i \in 1 .. Len(q) : q[i] \in S
Once(q, S) == \A i, j \in 1 .. Len(q) : q[i] \in S /\ q[j] \in S => i = j

\* The messages, tasks and jobs that speak of descriptor fd.
NewOn(fd) == {m \in Messages : m # Tick /\ m.fd = fd}
TasksOn(fd) == {t \in Tasks : t.fd = fd /\ t.act # "Timeout"}
UpgradesOn(fd) == {t \in Tasks : t.fd = fd /\ t.act = "Upgrade"}
JobsOn(kind, fd) == {j \in Jobs : j.fd = fd /\ j.kind = kind}

\* What the control states of the threads say about their variables.
Phases ==
  /\ rpc # "msgs" => msgs = <<>>
  /\ rpc # "tasks" => batch = <<>> /\ closing = None
  /\ \A w \in Workers :
       /\ work[w].at = "idle" <=> work[w].job = NoJob
       /\ work[w].at = "drop" => work[w].job.kind = "ws"

\* A WebSocketConn asks for no upgrade.
PostActs ==
  \A w \in Workers : work[w].at = "post" /\ work[w].job.kind = "ws" =>
    work[w].act # "Upgrade"

\* What does not happen when the environment never asks for it.
NoTimeouts ==
  /\ Tick \notin Elems(pipe) \cup Elems(msgs)
  /\ \A t \in Elems(tasks) \cup Elems(batch) : t.act # "Timeout"

NoUpgrades ==
  /\ closing = None /\ ws = [fd \in Fds |-> None]
  /\ \A job \in Elems(jobs) : job.kind = "http"
  /\ \A w \in Workers : /\ work[w].job.kind # "ws"
                        /\ work[w].at = "post" => work[w].act # "Upgrade"
  /\ \A c \in Conns : reply[c] \in {"none", "http"}
  /\ \A t \in Elems(tasks) \cup Elems(batch) : t.act # "Upgrade"

Switched == (~Timeouts => NoTimeouts) /\ (~Upgrades => NoUpgrades)

\* The places where what was decided for descriptor fd may be: its socket is
\* armed, its event is reported, a handler has its job, its task is posted.
Ready(s, a, fd) == s[fd] # None /\ a[s[fd]] \in {"in", "out"}
Reported(evs, fd) == \E e \in evs : e.src = "client" /\ e.fd = fd
OnceReported(evs, fd) ==
  \A d, e \in evs :
    d.src = "client" /\ d.fd = fd /\ e.src = "client" /\ e.fd = fd => d = e
Held(W, kind, fd) == \E w \in Workers : W[w].job \in JobsOn(kind, fd)
OnceHeld(W, fd) ==
  \A v, w \in Workers :
    W[v].job \in JobsOn("http", fd) /\ W[w].job \in JobsOn("http", fd) => v = w

Handled(fd) == Has(jobs, JobsOn("http", fd)) \/ Held(work, "http", fd)
HandledWs(fd) == Has(jobs, JobsOn("ws", fd)) \/ Held(work, "ws", fd)
Upgrading(fd) == Has(tasks, UpgradesOn(fd)) \/ Has(batch, UpgradesOn(fd))
Coming(fd) == Has(pipe, NewOn(fd)) \/ Has(msgs, NewOn(fd))

\* Nothing speaks of descriptor fd.
Quiet(fd) ==
  /\ ~Ready(sock, armed, fd) /\ ~Reported(events, fd)
  /\ ~Handled(fd) /\ ~HandledWs(fd)
  /\ ~Has(tasks, TasksOn(fd)) /\ ~Has(batch, TasksOn(fd))
  /\ http[fd] = None /\ ws[fd] = None /\ closing # fd

\* A connection is passed to its loop once, and has one job at a time.
OneMessage(fd) ==
  /\ Once(pipe, NewOn(fd)) /\ Once(msgs, NewOn(fd))
  /\ ~(Has(pipe, NewOn(fd)) /\ Has(msgs, NewOn(fd)))

OneHandler(fd) ==
  /\ Once(jobs, JobsOn("http", fd)) /\ OnceHeld(work, fd)
  /\ ~(Has(jobs, JobsOn("http", fd)) /\ Held(work, "http", fd))

\* The one shot is in one place only.
OneToken(fd) ==
  /\ OnceReported(events, fd)
  /\ Once(tasks, TasksOn(fd)) /\ Once(batch, TasksOn(fd))
  /\ Ready(sock, armed, fd) => ~Reported(events, fd) /\ ~Handled(fd)
  /\ Ready(sock, armed, fd) \/ Reported(events, fd) \/ Handled(fd) =>
       ~Has(tasks, TasksOn(fd)) /\ ~Has(batch, TasksOn(fd))
  /\ Reported(events, fd) => ~Handled(fd)
  /\ ~(Has(tasks, TasksOn(fd)) /\ Has(batch, TasksOn(fd)))

\* Descriptor fd is, or was if numbers are used once, the one of connection c.
Belongs(fd, c) == IF "fd" \in Reuse THEN sock[fd] = c ELSE c = fd

\* Whatever speaks of a descriptor speaks of the connection that it belongs to.
Owned ==
  /\ \A fd \in Fds : /\ http[fd] # None => Belongs(fd, http[fd])
                     /\ ws[fd] # None => Belongs(fd, ws[fd])
  /\ \A e \in events : e.src = "client" => Belongs(e.fd, e.conn)
  /\ \A job \in Elems(jobs) : Belongs(job.fd, job.conn)
  /\ \A w \in Workers :
       work[w].at # "idle" => Belongs(work[w].job.fd, work[w].job.conn)
  /\ \A t \in Elems(tasks) \cup Elems(batch) : Belongs(t.fd, t.conn)
  /\ \A m \in Elems(pipe) \cup Elems(msgs) :
       m # Tick => Belongs(m.fd, m.conn) /\ sock[m.fd] = m.conn

\* accept hands out connections in order, and each has one descriptor.
Sockets ==
  /\ \A fd \in Fds : sock[fd] # None => sock[fd] <= accepted
  /\ \A c \in Conns : armed[c] # "none" => c <= accepted
  /\ \A d, e \in Fds : sock[d] = sock[e] /\ sock[d] # None => d = e
  /\ "fd" \notin Reuse => /\ \A fd \in Fds : sock[fd] \in {None, fd}
                          /\ \A t \in Elems(timers) : t.fd = t.conn

\* The descriptors that accept may return, now or later.
Acceptable(fd) == sock[fd] = None /\ ("fd" \in Reuse \/ fd > accepted)

TokensAt(fd) ==
  /\ Acceptable(fd) => Quiet(fd) /\ ~Coming(fd)
  /\ Coming(fd) => Quiet(fd)
  /\ OneMessage(fd) /\ OneHandler(fd)
  /\ http[fd] # None => /\ OneToken(fd)
                        /\ ws[fd] = None /\ closing # fd /\ ~HandledWs(fd)
  /\ closing = fd => ws[fd] = None
  /\ ~Timeouts /\ (Handled(fd) \/ Upgrading(fd)) => http[fd] # None
  /\ "fd" \in Reuse => /\ http[fd] = None => Quiet(fd)
                       /\ http[fd] # None => sock[fd] # None

Tokens == \A fd \in Fds : TokensAt(fd)

-----------------------------------------------------------------------------
\* Taking out the element at i moves the later ones down.
LEMMA RemoveAtType ==
  ASSUME NEW S, NEW q \in Seq(S), NEW i \in 1 .. Len(q)
  PROVE  /\ RemoveAt(q, i) \in Seq(S)
         /\ Len(RemoveAt(q, i)) = Len(q) - 1
         /\ \A j \in 1 .. Len(q) - 1 :
              RemoveAt(q, i)[j] = IF j < i THEN q[j] ELSE q[j + 1]
<1> DEFINE a == SubSeq(q, 1, i - 1)
           b == SubSeq(q, i + 1, Len(q))
<1>1. a \in Seq(S) /\ Len(a) = i - 1 /\ \A j \in 1 .. i - 1 : a[j] = q[j]
  BY SubSeqProperties
<1>2. b \in Seq(S) /\ Len(b) = Len(q) - i
      /\ \A j \in 1 .. Len(q) - i : b[j] = q[i + j]
  BY SubSeqProperties
<1> HIDE DEF a, b
<1>3. a \o b \in Seq(S) /\ Len(a \o b) = Len(q) - 1
  BY <1>1, <1>2, ConcatProperties
<1>4. \A j \in 1 .. Len(q) - 1 :
        (a \o b)[j] = IF j < i THEN q[j] ELSE q[j + 1]
  BY <1>1, <1>2, ConcatProperties
<1> QED BY <1>3, <1>4 DEF RemoveAt, a, b

\* The list of timers without one of them is a list of timers.
LEMMA WithoutType ==
  ASSUME TypeOK, NEW p
  PROVE  Without(p) \in Seq(Timers)
<1>1. CASE p \in LivePtrs
  <2>1. \E i \in 1 .. Len(timers) : timers[i].ptr = p
    BY <1>1 DEF LivePtrs, TimerSet
  <2> QED BY <1>1, <2>1, RemoveAtType DEF Without, TypeOK
<1>2. CASE p \notin LivePtrs
  BY <1>2 DEF Without, TypeOK
<1> QED BY <1>1, <1>2

\* init_timer, adjust_timer and del_timer keep the types of the timers and of
\* m_client_data.
LEMMA TimersType ==
  ASSUME TypeOK
  PROVE  /\ \A fd \in Fds, c \in Conns : InitTimer(fd, c) =>
              timers' \in Seq(Timers)
              /\ cd' \in [Fds -> [timer : {None} \cup Conns, deleted : BOOLEAN]]
         /\ \A fd \in Fds : AdjustTimer(fd) \/ DelTimer(fd) =>
              timers' \in Seq(Timers)
              /\ cd' \in [Fds -> [timer : {None} \cup Conns, deleted : BOOLEAN]]
<1>1. ASSUME NEW fd \in Fds, NEW c \in Conns, InitTimer(fd, c)
      PROVE  timers' \in Seq(Timers)
             /\ cd' \in [Fds -> [timer : {None} \cup Conns, deleted : BOOLEAN]]
  <2>1. PICK p \in FreePtrs(c) :
          /\ cd' = [cd EXCEPT ![fd] = [timer |-> p, deleted |-> FALSE]]
          /\ timers' = Append(timers, [ptr |-> p, fd |-> fd, conn |-> c])
    BY <1>1 DEF InitTimer
  <2>2. p \in Conns
    BY DEF FreePtrs, Conns
  <2>3. [ptr |-> p, fd |-> fd, conn |-> c] \in Timers
    BY <2>2 DEF Timers
  <2> QED BY <2>1, <2>2, <2>3, AppendProperties DEF TypeOK
<1>2. ASSUME NEW fd \in Fds, AdjustTimer(fd)
      PROVE  timers' \in Seq(Timers) /\ cd' = cd
  <2> DEFINE p == cd[fd].timer
             t == CHOOSE u \in TimerSet(timers) : u.ptr = p
  <2>1. p \in LivePtrs => t \in Timers
    <3>1. p \in LivePtrs => \E u \in TimerSet(timers) : u.ptr = p
      BY DEF LivePtrs
    <3>2. TimerSet(timers) \subseteq Timers
      BY DEF TimerSet, TypeOK
    <3> QED BY <3>1, <3>2
  <2>2. Without(p) \in Seq(Timers)
    BY WithoutType
  <2>3. timers' = IF HasTimer(fd) /\ p \in LivePtrs
                    THEN Append(Without(p), t) ELSE timers
    BY <1>2 DEF AdjustTimer
  <2>4. cd' = cd
    BY <1>2 DEF AdjustTimer
  <2> HIDE DEF t, p
  <2> QED BY <2>1, <2>2, <2>3, <2>4, AppendProperties DEF TypeOK
<1>3. ASSUME NEW fd \in Fds, DelTimer(fd)
      PROVE  timers' \in Seq(Timers)
             /\ cd' \in [Fds -> [timer : {None} \cup Conns, deleted : BOOLEAN]]
  <2>1. Without(cd[fd].timer) \in Seq(Timers)
    BY WithoutType
  <2>2. timers \in Seq(Timers)
        /\ cd \in [Fds -> [timer : {None} \cup Conns, deleted : BOOLEAN]]
    BY DEF TypeOK
  <2>3. CASE HasTimer(fd)
    <3>1. timers' = Without(cd[fd].timer)
          /\ cd' = [cd EXCEPT ![fd] = [timer |-> None, deleted |-> TRUE]]
      BY <1>3, <2>3 DEF DelTimer
    <3>2. [timer |-> None, deleted |-> TRUE]
            \in [timer : {None} \cup Conns, deleted : BOOLEAN]
      OBVIOUS
    <3> QED BY <2>1, <2>2, <3>1, <3>2
  <2>4. CASE ~HasTimer(fd)
    BY <1>3, <2>2, <2>4 DEF DelTimer, timerVars
  <2> QED BY <2>3, <2>4
<1> QED BY <1>1, <1>2, <1>3 DEF TypeOK

\* TypeOK, with what rpc and the places of the workers say of the variables.
LEMMA Typing == Safe => [](TypeOK /\ Phases)
<1>1. Init => TypeOK /\ Phases
  <2> SUFFICES ASSUME Init PROVE TypeOK /\ Phases
    OBVIOUS
  <2>1. /\ pipe \in Seq(Messages) /\ msgs \in Seq(Messages)
        /\ batch \in Seq(Tasks) /\ tasks \in Seq(Tasks)
        /\ timers \in Seq(Timers) /\ jobs \in Seq(Jobs) /\ Len(jobs) = 0
    BY EmptySeq DEF Init
  <2>2. work \in [Workers -> [at : {"idle", "handler", "post", "drop"},
                              job : Jobs \cup {NoJob}, act : Actions]]
    BY DEF Init, Idle, Actions
  <2> QED BY <2>1, <2>2 DEF Init, TypeOK, Phases, Idle
<1>2. TypeOK /\ Phases /\ [Next]_vars => TypeOK' /\ Phases'
  <2> SUFFICES ASSUME TypeOK, Phases, [Next]_vars PROVE TypeOK' /\ Phases'
    OBVIOUS
  <2> USE DEF TypeOK, Phases, kernelVars, loopVars, tableVars, connVars,
              timerVars, poolVars
  <2>1. CASE Accept
    <3>1. PICK fd \in Fds : pipe' = Append(pipe, NewConn(fd, accepted + 1))
                            /\ sock' = [sock EXCEPT ![fd] = accepted + 1]
      BY <2>1 DEF Accept, FreeFds
    <3>2. accepted + 1 \in Conns
      BY <2>1 DEF Accept, Conns
    <3>3. NewConn(fd, accepted + 1) \in Messages
      BY <3>2 DEF NewConn, Messages
    <3>4. pipe' \in Seq(Messages)
      BY <3>1, <3>3, AppendProperties
    <3>5. sock' \in [Fds -> {None} \cup Conns]
      BY <3>1, <3>2
    <3> QED BY SMTT(40), <2>1, <3>4, <3>5 DEF Accept
  <2>2. CASE ForwardTick
    <3>1. pipe' \in Seq(Messages)
      BY <2>2, AppendProperties DEF ForwardTick, Messages
    <3> QED BY <2>2, <3>1 DEF ForwardTick
  <2>3. CASE EpollWait
    <3>0. PICK clients \in SUBSET {fd \in Fds : Registered(fd)
                                                /\ armed[sock[fd]] # "off"} :
       \E hungUp \in SUBSET clients :
         /\ events' =
              {Event("pipe", None, None, "in") : m \in {pipe} \ {<<>>}}
              \cup {Event("wakeup", None, None, "in") : q \in {tasks} \ {<<>>}}
              \cup {Event("client", fd, sock[fd],
                          IF fd \in hungUp THEN "hup" ELSE armed[sock[fd]])
                      : fd \in clients}
         /\ FireOneShots(clients)
      BY <2>3 DEF EpollWait
    <3>1. PICK hungUp \in SUBSET clients :
         /\ events' =
              {Event("pipe", None, None, "in") : m \in {pipe} \ {<<>>}}
              \cup {Event("wakeup", None, None, "in") : q \in {tasks} \ {<<>>}}
              \cup {Event("client", fd, sock[fd],
                          IF fd \in hungUp THEN "hup" ELSE armed[sock[fd]])
                      : fd \in clients}
         /\ FireOneShots(clients)
      BY <3>0
    <3>2. ASSUME NEW fd \in clients
          PROVE  Event("client", fd, sock[fd],
                       IF fd \in hungUp THEN "hup" ELSE armed[sock[fd]])
                   \in Events
      BY DEF Registered, Event, Events
    <3>3. events' \in SUBSET Events
      <4>1. \A q : Event("pipe", None, None, "in") \in Events
                   /\ Event("wakeup", None, None, "in") \in Events
        BY DEF Events
      <4> QED BY <3>1, <3>2, <4>1
    <3>4. armed' \in [Conns -> {"none", "off", "in", "out"}]
      BY <3>1 DEF FireOneShots
    <3> QED BY <2>3, <3>3, <3>4 DEF EpollWait
  <2>4. CASE DispatchDone
    BY <2>4 DEF DispatchDone
  <2>5. CASE DispatchPipe
    BY <2>5, EmptySeq DEF DispatchPipe
  <2>6. CASE DispatchWakeup
    BY <2>6, EmptySeq DEF DispatchWakeup
  <2>7. CASE DispatchHup
    <3>1. PICK e \in events : e.src = "client" /\ e.ev = "hup"
                              /\ events' = events \ {e}
                              /\ tasks' = Append(tasks, Task("Close", e.fd, e.conn))
      BY <2>7 DEF DispatchHup
    <3>2. Task("Close", e.fd, e.conn) \in Tasks
      <4>1. e.fd \in Fds /\ e.conn \in Conns
        <5>1. e \in Events
          BY DEF TypeOK
        <5> QED BY <3>1, <5>1 DEF Events, Event
      <4> QED BY <4>1 DEF Task, Tasks, Actions
    <3>3. tasks' \in Seq(Tasks)
      BY <3>1, <3>2, AppendProperties
    <3> QED BY <2>7, <3>1, <3>3 DEF DispatchHup
  <2>8. CASE DispatchIo
    <3>1. PICK e \in events :
            /\ e.src = "client" /\ e.ev \in {"in", "out"}
            /\ events' = events \ {e}
            /\ \/ /\ ws[e.fd] # None
                  /\ AppendJob(Job("ws", e.ev, e.fd, ws[e.fd]))
                  /\ UNCHANGED timerVars
               \/ /\ ws[e.fd] = None /\ http[e.fd] # None
                  /\ AdjustTimer(e.fd)
                  /\ AppendJob(Job("http", e.ev, e.fd, http[e.fd]))
               \/ /\ ws[e.fd] = None /\ http[e.fd] = None
                  /\ UNCHANGED <<timerVars, poolVars>>
      BY <2>8 DEF DispatchIo
    <3>2. e.fd \in Fds
      BY SMTT(40), <3>1 DEF Events, Event
    <3>3. \A c \in Conns : \A kind \in {"http", "ws"} :
            Job(kind, e.ev, e.fd, c) \in Jobs
      BY <3>1, <3>2 DEF Job, Jobs
    <3>4. \A job \in Jobs : AppendJob(job) =>
            jobs' \in Seq(Jobs) /\ Len(jobs') <= MaxQueue /\ work' = work
      BY AppendProperties DEF AppendJob
    <3>5. jobs' \in Seq(Jobs) /\ Len(jobs') <= MaxQueue /\ work' = work
      BY <3>1, <3>2, <3>3, <3>4
    <3>6. timers' \in Seq(Timers)
          /\ cd' \in [Fds -> [timer : {None} \cup Conns, deleted : BOOLEAN]]
      BY <3>1, <3>2, TimersType
    <3> QED BY <2>8, <3>1, <3>5, <3>6 DEF DispatchIo
  <2>9. CASE HandleNewConnection
    <3> DEFINE fd == Head(msgs).fd
               c == Head(msgs).conn
    <3>1. Head(msgs) \in Messages /\ Tail(msgs) \in Seq(Messages)
      BY <2>9, HeadTailProperties DEF HandleNewConnection
    <3>2. fd \in Fds /\ c \in Conns
      BY <2>9, <3>1 DEF HandleNewConnection, Messages
    <3>3. /\ armed' = IF sock[fd] # None /\ ~Registered(fd)
                        THEN [armed EXCEPT ![sock[fd]] = "in"] ELSE armed
          /\ http' = [http EXCEPT ![fd] = c]
          /\ InitTimer(fd, c)
          /\ msgs' = Tail(msgs)
      BY <2>9 DEF HandleNewConnection
    <3> HIDE DEF fd, c
    <3>4. timers' \in Seq(Timers)
          /\ cd' \in [Fds -> [timer : {None} \cup Conns, deleted : BOOLEAN]]
      BY <3>2, <3>3, TimersType
    <3>5. armed' \in [Conns -> {"none", "off", "in", "out"}]
      BY <3>2, <3>3
    <3>6. http' \in [Fds -> {None} \cup Conns]
      BY <3>2, <3>3
    <3> QED BY <2>9, <3>1, <3>3, <3>4, <3>5, <3>6 DEF HandleNewConnection
  <2>10. CASE TickExpire
    <3>1. Tail(msgs) \in Seq(Messages) /\ Tail(timers) \in Seq(Timers)
          /\ Head(timers) \in Timers
      BY <2>10, HeadTailProperties DEF TickExpire
    <3>2. Task("Timeout", Head(timers).fd, Head(timers).conn) \in Tasks
      BY <3>1 DEF Task, Tasks, Timers
    <3>3. tasks' \in Seq(Tasks)
      BY <2>10, <3>2, AppendProperties DEF TickExpire
    <3> QED BY <2>10, <3>1, <3>3 DEF TickExpire
  <2>11. CASE TickNothing
    <3>1. Tail(msgs) \in Seq(Messages)
      BY <2>11, HeadTailProperties DEF TickNothing
    <3> QED BY <2>11, <3>1 DEF TickNothing
  <2>12. CASE MsgsDone
    BY <2>12 DEF MsgsDone
  <2> DEFINE fd == Head(batch).fd
  <2>h. batch # <<>> => Head(batch) \in Tasks /\ Tail(batch) \in Seq(Tasks)
                        /\ fd \in Fds /\ Head(batch).conn \in Conns
    <3>1. batch # <<>> => Head(batch) \in Tasks /\ Tail(batch) \in Seq(Tasks)
      BY HeadTailProperties
    <3>2. \A t \in Tasks : t.fd \in Fds /\ t.conn \in Conns
      BY DEF Tasks
    <3> QED BY <3>1, <3>2
  <2>c. \A f \in Fds : CloseFd(f) =>
          /\ sock' \in [Fds -> {None} \cup Conns]
          /\ armed' \in [Conns -> {"none", "off", "in", "out"}]
    BY DEF CloseFd
  <2>m. \A f \in Fds : \A ev \in {"in", "out"} : ModFd(f, ev) =>
          armed' \in [Conns -> {"none", "off", "in", "out"}]
    BY DEF ModFd, Registered
  <2> HIDE DEF fd
  <2>13. CASE TaskRearm
    <3>1. armed' \in [Conns -> {"none", "off", "in", "out"}]
      BY <2>13, <2>h, <2>m DEF TaskRearm, Running, fd
    <3> QED BY <2>13, <2>h, <3>1 DEF TaskRearm, Running, NextTask
  <2>14. CASE TaskCloseWs
    <3>1. /\ batch # <<>> /\ rpc = "tasks"
          /\ ws' = [ws EXCEPT ![fd] = None]
          /\ CloseFd(fd) \/ UNCHANGED <<sock, armed>>
          /\ closing' = fd
      BY <2>14 DEF TaskCloseWs, RunningClose, Running, fd
    <3>2. /\ sock' \in [Fds -> {None} \cup Conns]
          /\ armed' \in [Conns -> {"none", "off", "in", "out"}]
      BY <3>1, <2>h, <2>c
    <3> QED BY <2>14, <2>h, <3>1, <3>2 DEF TaskCloseWs, NextTask
  <2>15. CASE RemoveFd
    BY <2>15, <2>c DEF RemoveFd
  <2>16. CASE TaskCloseHttp
    <3>1. /\ batch # <<>> /\ rpc = "tasks" /\ closing = None
          /\ DelTimer(fd) /\ http' = [http EXCEPT ![fd] = None] /\ CloseFd(fd)
      BY <2>16 DEF TaskCloseHttp, RunningClose, Running, fd
    <3>2. timers' \in Seq(Timers)
          /\ cd' \in [Fds -> [timer : {None} \cup Conns, deleted : BOOLEAN]]
      BY <3>1, <2>h, TimersType
    <3> QED BY <2>16, <2>h, <2>c, <3>1, <3>2 DEF TaskCloseHttp, NextTask
  <2>17. CASE TaskTimeoutGone
    BY <2>17, <2>h DEF TaskTimeoutGone, Running, NextTask
  <2>18. CASE TaskUpgrade
    <3>1. /\ batch # <<>> /\ rpc = "tasks" /\ closing = None
          /\ DelTimer(fd) /\ http' = [http EXCEPT ![fd] = None]
          /\ ws' = [ws EXCEPT ![fd] = Head(batch).conn]
          /\ CloseFd(fd) \/ (ModFd(fd, "in") /\ UNCHANGED sock)
      BY <2>18 DEF TaskUpgrade, Running, fd
    <3>2. timers' \in Seq(Timers)
          /\ cd' \in [Fds -> [timer : {None} \cup Conns, deleted : BOOLEAN]]
      BY <3>1, <2>h, TimersType
    <3>3. /\ sock' \in [Fds -> {None} \cup Conns]
          /\ armed' \in [Conns -> {"none", "off", "in", "out"}]
      BY <3>1, <2>h, <2>c, <2>m
    <3> QED BY ZenonT(40), <2>18, <2>h, <3>1, <3>2, <3>3 DEF TaskUpgrade, NextTask
  <2>19. CASE WakeupDone
    BY <2>19 DEF WakeupDone
  <2>20. ASSUME NEW w \in Workers, WorkerTake(w) PROVE TypeOK' /\ Phases'
    <3>1. Head(jobs) \in Jobs /\ Tail(jobs) \in Seq(Jobs)
          /\ Len(Tail(jobs)) <= MaxQueue
      BY <2>20, HeadTailProperties DEF WorkerTake
    <3>2. [at |-> "handler", job |-> Head(jobs), act |-> "Read"]
            \in [at : {"idle", "handler", "post", "drop"},
                 job : Jobs \cup {NoJob}, act : Actions]
      BY <3>1 DEF Actions
    <3>3. NoJob \notin Jobs
      BY DEF NoJob, Job, Jobs
    <3> QED BY <2>20, <3>1, <3>2, <3>3 DEF WorkerTake
  <2>r. \A w \in Workers : \A act \in Actions :
          work[w].at = "handler" /\ Return(w, act) =>
            /\ work' \in [Workers -> [at : {"idle", "handler", "post", "drop"},
                                      job : Jobs \cup {NoJob}, act : Actions]]
            /\ \A v \in Workers :
                 /\ work'[v].at = "idle" <=> work'[v].job = NoJob
                 /\ work'[v].at = "drop" => work'[v].job.kind = "ws"
    <3> SUFFICES ASSUME NEW w \in Workers, NEW act \in Actions,
                        work[w].at = "handler", Return(w, act)
                 PROVE  /\ work' \in [Workers ->
                               [at : {"idle", "handler", "post", "drop"},
                                job : Jobs \cup {NoJob}, act : Actions]]
                        /\ \A v \in Workers :
                             /\ work'[v].at = "idle" <=> work'[v].job = NoJob
                             /\ work'[v].at = "drop" => work'[v].job.kind = "ws"
      OBVIOUS
    <3>1. work' = [work EXCEPT ![w] = [work[w] EXCEPT !.at = "post", !.act = act]]
      BY DEF Return
    <3>2. [work[w] EXCEPT !.at = "post", !.act = act]
            \in [at : {"idle", "handler", "post", "drop"},
                 job : Jobs \cup {NoJob}, act : Actions]
      BY ZenonT(40)
    <3> QED BY <3>1, <3>2
  <2>j. \A w \in Workers : work[w].at # "idle" => work[w].job \in Jobs
                           /\ work[w].job.fd \in Fds /\ work[w].job.conn \in Conns
    BY DEF Jobs
  <2>21. ASSUME NEW w \in Workers, HttpRead(w) PROVE TypeOK' /\ Phases'
    <3>1. /\ work[w].at = "handler" /\ \E act \in Actions : Return(w, act)
          /\ \/ UNCHANGED reply
             \/ \E r \in {"http", "upgrade"} :
                  reply' = [reply EXCEPT ![work[w].job.conn] = r]
      BY <2>21 DEF HttpRead, Actions
    <3>2. reply' \in [Conns -> {"none", "http", "upgrade", "sent"}]
      BY <3>1, <2>j
    <3> QED BY <2>21, <3>1, <3>2, <2>r DEF HttpRead
  <2>22. ASSUME NEW w \in Workers, HttpWrite(w) PROVE TypeOK' /\ Phases'
    <3>1. /\ work[w].at = "handler" /\ \E act \in Actions : Return(w, act)
          /\ \/ UNCHANGED reply
             \/ \E r \in {"none", "sent"} :
                  reply' = [reply EXCEPT ![work[w].job.conn] = r]
      BY <2>22 DEF HttpWrite, Actions
    <3>2. reply' \in [Conns -> {"none", "http", "upgrade", "sent"}]
      BY <3>1, <2>j
    <3> QED BY <2>22, <3>1, <3>2, <2>r DEF HttpWrite
  <2>23. ASSUME NEW w \in Workers, WsHandler(w) PROVE TypeOK' /\ Phases'
    <3>1. /\ work[w].at = "handler" /\ \E act \in Actions : Return(w, act)
          /\ wsClosed' \in {wsClosed, wsClosed \cup {work[w].job.conn}}
      BY <2>23 DEF WsHandler, Actions
    <3>2. wsClosed' \in SUBSET Conns
      BY SMTT(40), <3>1, <2>j
    <3> QED BY <2>23, <3>1, <3>2, <2>r DEF WsHandler
  <2>24. ASSUME NEW w \in Workers, WsBroadcast(w) PROVE TypeOK' /\ Phases'
    <3>1. PICK f \in Fds : ws[f] # None
                           /\ tasks' = Append(tasks, Task("Write", f, ws[f]))
      BY <2>24 DEF WsBroadcast
    <3>2. Task("Write", f, ws[f]) \in Tasks
      BY <3>1 DEF Task, Tasks, Actions
    <3>3. tasks' \in Seq(Tasks)
      BY <3>1, <3>2, AppendProperties
    <3>4. casts' \in 0 .. MaxBroadcasts
      BY <2>24 DEF WsBroadcast
    <3> QED BY <2>24, <3>3, <3>4 DEF WsBroadcast
  <2>25. ASSUME NEW w \in Workers, WorkerPost(w) PROVE TypeOK' /\ Phases'
    <3>1. Task(work[w].act, work[w].job.fd, work[w].job.conn) \in Tasks
      BY <2>25, <2>j DEF WorkerPost, Task, Tasks
    <3>2. tasks' \in Seq(Tasks)
      BY <2>25, <3>1, AppendProperties DEF WorkerPost
    <3>3. Idle \in [at : {"idle", "handler", "post", "drop"},
                    job : Jobs \cup {NoJob}, act : Actions]
          /\ Idle.at = "idle" /\ Idle.job = NoJob
      BY DEF Idle, Actions
    <3>4. CASE work[w].job.kind = "ws"
      <4>1. work' = [work EXCEPT ![w] = [work[w] EXCEPT !.at = "drop"]]
        BY <2>25, <3>4 DEF WorkerPost
      <4>2. [work[w] EXCEPT !.at = "drop"]
              \in [at : {"idle", "handler", "post", "drop"},
                   job : Jobs \cup {NoJob}, act : Actions]
        OBVIOUS
      <4>3. work' \in [Workers -> [at : {"idle", "handler", "post", "drop"},
                                   job : Jobs \cup {NoJob}, act : Actions]]
        BY <4>1, <4>2
      <4>4. \A v \in Workers : v # w => work'[v] = work[v]
        BY <4>1
      <4>5. work'[w].at = "drop" /\ work'[w].job = work[w].job
        BY <4>1
      <4>6. work[w].job # NoJob
        BY <2>25 DEF WorkerPost
      <4>7. TypeOK'
        BY <2>25, <3>2, <4>3 DEF WorkerPost
      <4> QED BY SMTT(40), <2>25, <3>4, <4>4, <4>5, <4>6, <4>7 DEF WorkerPost
    <3>5. CASE work[w].job.kind # "ws"
      BY <2>25, <3>2, <3>3, <3>5 DEF WorkerPost
    <3> QED BY <3>4, <3>5
  <2>26. ASSUME NEW w \in Workers, WorkerDrop(w) PROVE TypeOK' /\ Phases'
    <3>1. /\ sock' \in [Fds -> {None} \cup Conns]
          /\ armed' \in [Conns -> {"none", "off", "in", "out"}]
      BY <2>26, <2>c, <2>j DEF WorkerDrop
    <3>3. Idle \in [at : {"idle", "handler", "post", "drop"},
                    job : Jobs \cup {NoJob}, act : Actions]
          /\ Idle.at = "idle" /\ Idle.job = NoJob
      BY DEF Idle, Actions
    <3> QED BY <2>26, <3>1, <3>3 DEF WorkerDrop
  <2>27. CASE UNCHANGED vars
    BY <2>27 DEF vars
  <2> QED
    BY <2>1, <2>2, <2>3, <2>4, <2>5, <2>6, <2>7, <2>8, <2>9, <2>10, <2>11,
       <2>12, <2>13, <2>14, <2>15, <2>16, <2>17, <2>18, <2>19, <2>20, <2>21,
       <2>22, <2>23, <2>24, <2>25, <2>26, <2>27
       DEF Next, MainReactor, Dispatch, Worker
<1> QED BY <1>1, <1>2, PTL DEF Safe

-----------------------------------------------------------------------------
\* What is in a queue after an append and after a take.
LEMMA ElemsFacts ==
  ASSUME NEW T, NEW q \in Seq(T)
  PROVE  /\ Elems(q) \subseteq T
         /\ \A x \in T : Elems(Append(q, x)) = Elems(q) \cup {x}
         /\ q # <<>> => Head(q) \in Elems(q) /\ Elems(Tail(q)) \subseteq Elems(q)
<1>1. Elems(q) \subseteq T
  BY DEF Elems
<1>2. ASSUME NEW x \in T PROVE Elems(Append(q, x)) = Elems(q) \cup {x}
  <2>1. /\ Append(q, x) \in Seq(T) /\ Len(Append(q, x)) = Len(q) + 1
        /\ \A i \in 1 .. Len(q) : Append(q, x)[i] = q[i]
        /\ Append(q, x)[Len(q) + 1] = x
    BY AppendProperties
  <2>2. Len(q) \in Nat
    BY LenProperties
  <2>3. 1 .. Len(q) + 1 = (1 .. Len(q)) \cup {Len(q) + 1}
    BY <2>2
  <2> QED BY <2>1, <2>3 DEF Elems
<1>3. ASSUME q # <<>>
      PROVE  Head(q) \in Elems(q) /\ Elems(Tail(q)) \subseteq Elems(q)
  <2>1. /\ Head(q) = q[1] /\ Len(Tail(q)) = Len(q) - 1
        /\ \A i \in 1 .. Len(Tail(q)) : Tail(q)[i] = q[i + 1]
    BY <1>3, HeadTailProperties
  <2>2. Len(q) \in Nat /\ Len(q) > 0
    BY <1>3, LenProperties, EmptySeq
  <2>3. \A i \in 1 .. Len(Tail(q)) : i + 1 \in 1 .. Len(q)
    BY <2>1, <2>2
  <2>4. 1 \in 1 .. Len(q)
    BY <2>2
  <2> QED BY <2>1, <2>3, <2>4 DEF Elems
<1> QED BY <1>1, <1>2, <1>3

\* Nothing is in the empty queue.
LEMMA ElemsEmpty == Elems(<<>>) = {}
  BY DEF Elems

\* Without SIGALRM there is no tick and no timeout; without upgrades there is
\* no WebSocket connection and nothing that leads to one.
LEMMA SwitchedStays == Safe => []Switched
<1>1. Init => Switched
  BY ElemsEmpty DEF Init, Switched, NoTimeouts, NoUpgrades, Idle, NoJob, Job
<1>2. TypeOK /\ Phases /\ Switched /\ [Next]_vars => Switched'
  <2> SUFFICES ASSUME TypeOK, Phases, Switched, [Next]_vars PROVE Switched'
    OBVIOUS
  <2> USE DEF kernelVars, loopVars, tableVars, connVars, timerVars, poolVars,
              NoTimeouts, NoUpgrades
  <2>t. /\ pipe \in Seq(Messages) /\ msgs \in Seq(Messages)
        /\ batch \in Seq(Tasks) /\ tasks \in Seq(Tasks)
        /\ jobs \in Seq(Jobs)
    BY DEF TypeOK
  <2>j. \A w \in Workers : work[w].at # "idle" => work[w].job \in Jobs
    BY DEF TypeOK, Phases
  <2>e. /\ tasks # <<>> => Elems(Tail(tasks)) \subseteq Elems(tasks)
        /\ batch # <<>> => Elems(Tail(batch)) \subseteq Elems(batch)
                           /\ Head(batch) \in Elems(batch)
        /\ msgs # <<>> => Elems(Tail(msgs)) \subseteq Elems(msgs)
                          /\ Head(msgs) \in Elems(msgs)
        /\ jobs # <<>> => Elems(Tail(jobs)) \subseteq Elems(jobs)
                          /\ Head(jobs) \in Elems(jobs)
    BY <2>t, ElemsFacts
  <2>a. /\ \A t \in Tasks : Elems(Append(tasks, t)) = Elems(tasks) \cup {t}
        /\ \A m \in Messages : Elems(Append(pipe, m)) = Elems(pipe) \cup {m}
        /\ \A job \in Jobs : Elems(Append(jobs, job)) = Elems(jobs) \cup {job}
    BY <2>t, ElemsFacts
  <2>1. CASE Accept
    <3>1. PICK fd \in Fds : pipe' = Append(pipe, NewConn(fd, accepted + 1))
      BY <2>1 DEF Accept, FreeFds
    <3>2. accepted + 1 \in Conns
      BY <2>1 DEF Accept, Conns, TypeOK
    <3>3. NewConn(fd, accepted + 1) \in Messages /\ NewConn(fd, accepted + 1) # Tick
      BY <3>2 DEF NewConn, Messages, Tick, None, Fds
    <3>4. Elems(pipe') = Elems(pipe) \cup {NewConn(fd, accepted + 1)}
      BY <3>1, <3>3, <2>a
    <3> QED BY <2>1, <3>3, <3>4 DEF Accept, Switched
  <2>2. CASE ForwardTick
    BY <2>2 DEF ForwardTick, Switched
  <2>3. CASE EpollWait
    BY <2>3 DEF EpollWait, Switched
  <2>4. CASE DispatchDone
    BY <2>4 DEF DispatchDone, Switched
  <2>5. CASE DispatchPipe
    BY <2>5, ElemsEmpty DEF DispatchPipe, Switched
  <2>6. CASE DispatchWakeup
    BY <2>6, ElemsEmpty DEF DispatchWakeup, Switched
  <2>7. CASE DispatchHup
    <3>1. PICK e \in events :
            e.src = "client" /\ tasks' = Append(tasks, Task("Close", e.fd, e.conn))
      BY <2>7 DEF DispatchHup
    <3>2. Task("Close", e.fd, e.conn) \in Tasks
      <4>1. e \in Events
        BY DEF TypeOK
      <4>2. e.fd \in Fds /\ e.conn \in Conns
        BY <3>1, <4>1 DEF Events, Event
      <4> QED BY <4>2 DEF Task, Tasks, Actions
    <3>3. Elems(tasks') = Elems(tasks) \cup {Task("Close", e.fd, e.conn)}
      BY <3>1, <3>2, <2>a
    <3> QED BY <2>7, <3>3 DEF DispatchHup, Switched, Task
  <2>8. CASE DispatchIo
    <3>1. PICK e \in events :
            /\ e.src = "client" /\ e.ev \in {"in", "out"}
            /\ \/ /\ ws[e.fd] # None
                  /\ AppendJob(Job("ws", e.ev, e.fd, ws[e.fd]))
               \/ /\ ws[e.fd] = None /\ http[e.fd] # None
                  /\ AppendJob(Job("http", e.ev, e.fd, http[e.fd]))
               \/ UNCHANGED <<jobs, work>>
      BY <2>8 DEF DispatchIo
    <3>2. e.fd \in Fds
      <4>1. e \in Events
        BY DEF TypeOK
      <4> QED BY <3>1, <4>1 DEF Events, Event
    <3>3. ws[e.fd] \in {None} \cup Conns /\ http[e.fd] \in {None} \cup Conns
      BY <3>2 DEF TypeOK
    <3>4. \A c \in Conns : Job("http", e.ev, e.fd, c) \in Jobs
      BY <3>1, <3>2 DEF Job, Jobs
    <3>5. ~Upgrades => work' = work /\ \A job \in Elems(jobs') : job.kind = "http"
      <4>1. CASE UNCHANGED <<jobs, work>>
        BY <4>1 DEF Switched
      <4>2. CASE AppendJob(Job("http", e.ev, e.fd, http[e.fd])) /\ http[e.fd] # None
        <5>1. Job("http", e.ev, e.fd, http[e.fd]) \in Jobs
          BY <3>3, <3>4, <4>2
        <5>2. Elems(jobs') \subseteq Elems(jobs) \cup {Job("http", e.ev, e.fd, http[e.fd])}
          BY <4>2, <5>1, <2>a DEF AppendJob
        <5> QED BY <4>2, <5>2 DEF AppendJob, Switched, Job
      <4>3. CASE ws[e.fd] # None
        BY <3>2, <4>3 DEF Switched
      <4> QED BY <3>1, <4>1, <4>2, <4>3
    <3> QED BY <2>8, <3>5 DEF DispatchIo, Switched
  <2>9. CASE HandleNewConnection
    BY <2>9, <2>e DEF HandleNewConnection, Switched
  <2>10. CASE TickExpire
    <3>1. Head(timers) \in Timers
      BY <2>10, HeadTailProperties DEF TickExpire, TypeOK
    <3>2. Task("Timeout", Head(timers).fd, Head(timers).conn) \in Tasks
      BY <3>1 DEF Task, Tasks, Timers
    <3>3. Elems(tasks') \subseteq Elems(tasks) \cup
            {Task("Timeout", Head(timers).fd, Head(timers).conn)}
      BY <2>10, <3>2, <2>a DEF TickExpire
    <3>4. Timeouts
      BY <2>10, <2>e DEF TickExpire, Switched
    <3> QED BY <2>10, <3>3, <3>4 DEF TickExpire, Switched, Task
  <2>11. CASE TickNothing
    BY <2>11, <2>e DEF TickNothing, Switched
  <2>12. CASE MsgsDone
    BY <2>12 DEF MsgsDone, Switched
  <2>13. CASE TaskRearm
    BY <2>13, <2>e DEF TaskRearm, Running, NextTask, Switched
  <2>h. batch # <<>> => Head(batch).fd \in Fds
    <3>1. batch # <<>> => Head(batch) \in Tasks
      BY <2>t, HeadTailProperties
    <3> QED BY <3>1 DEF Tasks
  <2>14. CASE TaskCloseWs
    <3>1. batch # <<>> /\ ws[Head(batch).fd] # None
      BY <2>14 DEF TaskCloseWs, RunningClose, Running
    <3>2. Upgrades
      BY <3>1, <2>h DEF Switched
    <3> QED BY <2>14, <3>1, <3>2, <2>e DEF TaskCloseWs, NextTask, Switched
  <2>15. CASE RemoveFd
    BY <2>15 DEF RemoveFd, Switched
  <2>16. CASE TaskCloseHttp
    BY <2>16, <2>e DEF TaskCloseHttp, RunningClose, Running, NextTask, Switched
  <2>17. CASE TaskTimeoutGone
    BY <2>17, <2>e DEF TaskTimeoutGone, Running, NextTask, Switched
  <2>18. CASE TaskUpgrade
    <3>1. Upgrades
      BY <2>18, <2>e DEF TaskUpgrade, Running, Switched
    <3> QED BY <2>18, <3>1, <2>e DEF TaskUpgrade, Running, NextTask, Switched
  <2>19. CASE WakeupDone
    BY <2>19 DEF WakeupDone, Switched
  <2>w. work \in [Workers -> [at : {"idle", "handler", "post", "drop"},
                              job : Jobs \cup {NoJob}, act : Actions]]
    BY DEF TypeOK
  <2>20. ASSUME NEW w \in Workers, WorkerTake(w) PROVE Switched'
    <3>1. work' = [work EXCEPT ![w] = [at |-> "handler", job |-> Head(jobs),
                                       act |-> "Read"]]
      BY <2>20 DEF WorkerTake
    <3>2. \A v \in Workers : v # w => work'[v] = work[v]
      BY <3>1, <2>w
    <3>3. work'[w].at = "handler" /\ work'[w].job = Head(jobs)
      BY <3>1, <2>w
    <3> QED BY <2>20, <3>2, <3>3, <2>e DEF WorkerTake, Switched
  <2>r. \A w \in Workers : \A act : Return(w, act) =>
          /\ \A v \in Workers : v # w => work'[v] = work[v]
          /\ work'[w].at = "post" /\ work'[w].job = work[w].job
          /\ work'[w].act = act
    BY <2>w DEF Return
  <2>21. ASSUME NEW w \in Workers, HttpRead(w) PROVE Switched'
    <3>1. PICK act \in {"Close", "Read", "Write"} : Return(w, act)
      BY <2>21 DEF HttpRead
    <3>2. ~Upgrades => \A c \in Conns : reply'[c] \in {"none", "http"}
      BY <2>21 DEF HttpRead, Switched, TypeOK
    <3> QED BY <2>21, <3>1, <3>2, <2>r DEF HttpRead, Switched
  <2>22. ASSUME NEW w \in Workers, HttpWrite(w) PROVE Switched'
    <3>1. work[w].job.conn \in Conns
      BY <2>22, <2>j DEF HttpWrite, Jobs
    <3>2. PICK act \in {"Close", "Read", "Wait", "Write", "Upgrade"} :
            /\ Return(w, act)
            /\ act = "Upgrade" => Upgrades
            /\ ~Upgrades => \A c \in Conns : reply'[c] \in {"none", "http"}
      BY SMTT(40), <2>22, <3>1 DEF HttpWrite, Switched, TypeOK
    <3> QED BY <2>22, <3>2, <2>r DEF HttpWrite, Switched
  <2>23. ASSUME NEW w \in Workers, WsHandler(w) PROVE Switched'
    <3>1. PICK act \in {"Close", "Read", "Write"} : Return(w, act)
      BY <2>23 DEF WsHandler
    <3> QED BY <2>23, <3>1, <2>r DEF WsHandler, Switched
  <2>24. ASSUME NEW w \in Workers, WsBroadcast(w) PROVE Switched'
    <3>1. PICK f \in Fds : ws[f] # None
                           /\ tasks' = Append(tasks, Task("Write", f, ws[f]))
      BY <2>24 DEF WsBroadcast
    <3>2. Task("Write", f, ws[f]) \in Tasks
      BY <3>1 DEF Task, Tasks, Actions, TypeOK
    <3>3. Elems(tasks') = Elems(tasks) \cup {Task("Write", f, ws[f])}
      BY <3>1, <3>2, <2>a
    <3> QED BY <2>24, <3>3 DEF WsBroadcast, Switched, Task
  <2>25. ASSUME NEW w \in Workers, WorkerPost(w) PROVE Switched'
    <3> DEFINE t == Task(work[w].act, work[w].job.fd, work[w].job.conn)
    <3>1. t \in Tasks /\ t.act = work[w].act /\ t.act # "Timeout"
      BY <2>25, <2>j, <2>w DEF WorkerPost, Task, Tasks, Jobs, Actions
    <3>2. Elems(tasks') = Elems(tasks) \cup {t}
      BY <2>25, <3>1, <2>a DEF WorkerPost
    <3>3. \A v \in Workers : v # w => work'[v] = work[v]
      BY <2>25, <2>w DEF WorkerPost
    <3>4. /\ work'[w].at # "post" 
          /\ work'[w].job \in {work[w].job, NoJob}
      BY <2>25, <2>w DEF WorkerPost, Idle
    <3> HIDE DEF t
    <3> QED BY <2>25, <3>1, <3>2, <3>3, <3>4 DEF WorkerPost, Switched, NoJob, Job
  <2>26. ASSUME NEW w \in Workers, WorkerDrop(w) PROVE Switched'
    <3>1. work' = [work EXCEPT ![w] = Idle]
      BY <2>26 DEF WorkerDrop
    <3>2. \A v \in Workers : work'[v] = work[v] \/ work'[v] = Idle
      BY <3>1, <2>w
    <3> QED BY <2>26, <3>2 DEF WorkerDrop, Switched, Idle, NoJob, Job
  <2>27. CASE UNCHANGED vars
    BY <2>27 DEF vars, Switched
  <2> QED
    BY <2>1, <2>2, <2>3, <2>4, <2>5, <2>6, <2>7, <2>8, <2>9, <2>10, <2>11,
       <2>12, <2>13, <2>14, <2>15, <2>16, <2>17, <2>18, <2>19, <2>20, <2>21,
       <2>22, <2>23, <2>24, <2>25, <2>26, <2>27
       DEF Next, MainReactor, Dispatch, Worker
<1> QED BY <1>1, <1>2, Typing, PTL DEF Safe

\* handle_read and handle_write of a WebSocketConn never return Upgrade.
LEMMA PostActsStays == Safe => []PostActs
<1>1. Init => PostActs
  BY DEF Init, PostActs, Idle
<1>2. TypeOK /\ PostActs /\ [Next]_vars => PostActs'
  <2> SUFFICES ASSUME TypeOK, PostActs, [Next]_vars PROVE PostActs'
    OBVIOUS
  <2>t. work \in [Workers -> [at : {"idle", "handler", "post", "drop"},
                              job : Jobs \cup {NoJob}, act : Actions]]
    BY DEF TypeOK
  <2>1. CASE UNCHANGED work
    BY <2>1 DEF PostActs
  <2>2. ASSUME NEW w \in Workers, NEW act, Return(w, act),
               work[w].job.kind = "ws" => act # "Upgrade"
        PROVE  PostActs'
    <3>1. work' = [work EXCEPT ![w] = [work[w] EXCEPT !.at = "post", !.act = act]]
      BY <2>2 DEF Return
    <3>2. /\ work'[w].job = work[w].job /\ work'[w].act = act
          /\ \A v \in Workers \ {w} : work'[v] = work[v]
      BY <2>t, <3>1
    <3> QED BY <2>2, <3>2 DEF PostActs
  <2>3. ASSUME NEW w \in Workers, HttpRead(w) \/ HttpWrite(w) \/ WsHandler(w)
        PROVE  PostActs'
    <3>1. \E act : Return(w, act) /\ (work[w].job.kind = "ws" => act # "Upgrade")
      BY <2>3 DEF HttpRead, HttpWrite, WsHandler
    <3> QED BY <2>2, <3>1
  <2>4. ASSUME NEW w \in Workers, WorkerTake(w) \/ WorkerPost(w) \/ WorkerDrop(w)
        PROVE  PostActs'
    <3>1. work'[w].at # "post" /\ \A v \in Workers \ {w} : work'[v] = work[v]
      BY <2>4, <2>t DEF WorkerTake, WorkerPost, WorkerDrop, Idle
    <3> QED BY <3>1 DEF PostActs
  <2>5. ASSUME DispatchIo PROVE UNCHANGED work
    BY <2>5 DEF DispatchIo, AppendJob, poolVars
  <2> QED
    BY <2>1, <2>3, <2>4, <2>5
       DEF Next, MainReactor, Dispatch, Worker, vars, poolVars, Accept,
           ForwardTick, EpollWait, DispatchDone, DispatchPipe, DispatchWakeup,
           DispatchHup, HandleNewConnection, TickExpire, TickNothing, MsgsDone,
           TaskRearm, TaskCloseWs, TaskCloseHttp, TaskTimeoutGone, TaskUpgrade,
           RemoveFd, WakeupDone, WsBroadcast
<1> QED BY <1>1, <1>2, Typing, PTL DEF Safe

-----------------------------------------------------------------------------
\* What a queue has of a set, and has once, after an append and after a take.
LEMMA HasFacts ==
  ASSUME NEW T, NEW q \in Seq(T), NEW S
  PROVE  /\ \A x \in T : Has(Append(q, x), S) <=> Has(q, S) \/ x \in S
         /\ \A x \in T : Once(q, S) /\ (x \in S => ~Has(q, S))
                           => Once(Append(q, x), S)
         /\ q # <<>> => /\ Has(Tail(q), S) => Has(q, S)
                        /\ Head(q) \in S => Has(q, S)
                        /\ Once(q, S) => Once(Tail(q), S)
                        /\ Once(q, S) /\ Head(q) \in S => ~Has(Tail(q), S)
<1>n. Len(q) \in Nat
  BY LenProperties
<1>a. ASSUME NEW x \in T
      PROVE  /\ Len(Append(q, x)) = Len(q) + 1
             /\ \A i \in 1 .. Len(q) : Append(q, x)[i] = q[i]
             /\ Append(q, x)[Len(q) + 1] = x
             /\ 1 .. Len(q) + 1 = (1 .. Len(q)) \cup {Len(q) + 1}
             /\ Len(q) + 1 \notin 1 .. Len(q)
  BY <1>n, AppendProperties
<1>1. \A x \in T : Has(Append(q, x), S) <=> Has(q, S) \/ x \in S
  BY <1>a DEF Has
<1>2. ASSUME NEW x \in T, Once(q, S), x \in S => ~Has(q, S)
      PROVE  Once(Append(q, x), S)
  BY <1>2, <1>a DEF Has, Once
<1>3. ASSUME q # <<>>
      PROVE  /\ Has(Tail(q), S) => Has(q, S)
             /\ Head(q) \in S => Has(q, S)
             /\ Once(q, S) => Once(Tail(q), S)
             /\ Once(q, S) /\ Head(q) \in S => ~Has(Tail(q), S)
  <2>1. /\ Head(q) = q[1] /\ Len(Tail(q)) = Len(q) - 1
        /\ \A i \in 1 .. Len(Tail(q)) : Tail(q)[i] = q[i + 1]
    BY <1>3, HeadTailProperties
  <2>2. Len(q) > 0
    BY <1>3, <1>n, EmptySeq, LenProperties
  <2>3. \A i \in 1 .. Len(Tail(q)) : i \in Nat /\ i + 1 \in 1 .. Len(q) /\ i + 1 # 1
    BY <1>n, <2>1, <2>2
  <2>4. 1 \in 1 .. Len(q)
    BY <1>n, <2>2
  <2>5. Once(q, S) => Once(Tail(q), S)
    <3> SUFFICES ASSUME Once(q, S), NEW i \in 1 .. Len(Tail(q)),
                        NEW j \in 1 .. Len(Tail(q)),
                        Tail(q)[i] \in S, Tail(q)[j] \in S
                 PROVE  i = j
      BY DEF Once
    <3>1. i + 1 = j + 1
      BY <2>1, <2>3 DEF Once
    <3> QED BY <3>1, <2>3
  <2> QED BY <2>1, <2>3, <2>4, <2>5 DEF Has, Once
<1> QED BY <1>1, <1>2, <1>3

\* The empty queue has nothing.
LEMMA HasEmpty == \A S : ~Has(<<>>, S) /\ Once(<<>>, S)
  BY DEF Has, Once

\* A queue has the sets its elements are in.
LEMMA ElemsHas == \A q, S, x : x \in Elems(q) /\ x \in S => Has(q, S)
  BY DEF Elems, Has

-----------------------------------------------------------------------------
(* The timers. *)

Distinct(q) == \A i, j \in 1 .. Len(q) : q[i].ptr = q[j].ptr => i = j

\* Without takes out the timer at the address and no other.
LEMMA WithoutElems ==
  ASSUME TypeOK, NEW p
  PROVE  /\ Elems(Without(p)) \subseteq Elems(timers)
         /\ \A t \in Elems(timers) : t.ptr # p => t \in Elems(Without(p))
         /\ Distinct(timers) => /\ Distinct(Without(p))
                                /\ \A t \in Elems(Without(p)) : t.ptr # p
<1>n. timers \in Seq(Timers) /\ Len(timers) \in Nat
  BY LenProperties DEF TypeOK
<1>1. CASE p \in LivePtrs
  <2> DEFINE k == CHOOSE i \in 1 .. Len(timers) : timers[i].ptr = p
  <2>1. k \in 1 .. Len(timers) /\ timers[k].ptr = p
    <3>1. \E i \in 1 .. Len(timers) : timers[i].ptr = p
      BY <1>1 DEF LivePtrs, TimerSet
    <3> QED BY <3>1
  <2>2. Without(p) = RemoveAt(timers, k)
    BY <1>1 DEF Without
  <2> HIDE DEF k
  <2> DEFINE r == RemoveAt(timers, k)
             old(j) == IF j < k THEN j ELSE j + 1
  <2>3. /\ Len(r) = Len(timers) - 1
        /\ \A j \in 1 .. Len(timers) - 1 : r[j] = timers[old(j)]
    BY <1>n, <2>1, RemoveAtType
  <2> HIDE DEF r
  <2>4. \A j \in 1 .. Len(timers) - 1 : old(j) \in 1 .. Len(timers) /\ old(j) # k
    BY <1>n, <2>1
  <2>5. \A i \in 1 .. Len(timers) : i # k =>
          \E j \in 1 .. Len(timers) - 1 : old(j) = i
    <3> SUFFICES ASSUME NEW i \in 1 .. Len(timers), i # k
                 PROVE  \E j \in 1 .. Len(timers) - 1 : old(j) = i
      OBVIOUS
    <3>1. CASE i < k
      BY <1>n, <2>1, <3>1
    <3>2. CASE i > k
      <4>1. i - 1 \in 1 .. Len(timers) - 1 /\ old(i - 1) = i
        BY <1>n, <2>1, <3>2
      <4> QED BY <4>1
    <3> QED BY <1>n, <2>1, <3>1, <3>2
  <2>6. \A i, j \in 1 .. Len(timers) - 1 : old(i) = old(j) => i = j
    BY <1>n, <2>1
  <2>7. Elems(r) \subseteq Elems(timers)
    BY <2>3, <2>4 DEF Elems
  <2>8. ASSUME NEW t \in Elems(timers), t.ptr # p PROVE t \in Elems(r)
    <3>1. PICK i \in 1 .. Len(timers) : timers[i] = t
      BY DEF Elems
    <3>2. PICK j \in 1 .. Len(timers) - 1 : old(j) = i
      BY <2>1, <2>5, <2>8, <3>1
    <3>3. r[j] = t
      BY <2>3, <3>1, <3>2
    <3> QED BY <2>3, <3>3 DEF Elems
  <2>9. ASSUME Distinct(timers)
        PROVE  Distinct(r) /\ \A t \in Elems(r) : t.ptr # p
    <3> HIDE DEF old
    <3>1. \A i, j \in 1 .. Len(timers) - 1 : r[i].ptr = r[j].ptr => i = j
      BY <2>3, <2>4, <2>6, <2>9 DEF Distinct
    <3>2. \A j \in 1 .. Len(timers) - 1 : r[j].ptr # p
      BY <2>1, <2>3, <2>4, <2>9 DEF Distinct
    <3> QED BY <2>3, <3>1, <3>2 DEF Distinct, Elems
  <2> QED BY <2>2, <2>7, <2>8, <2>9 DEF r
<1>2. CASE p \notin LivePtrs
  <2>1. Without(p) = timers
    BY <1>2 DEF Without
  <2>2. \A t \in Elems(timers) : t.ptr # p
    BY <1>2 DEF LivePtrs, TimerSet, Elems
  <2> QED BY <2>1, <2>2
<1> QED BY <1>1, <1>2

\* The live addresses are those of the timers in the list.
LEMMA LiveIsElem == LivePtrs = {t.ptr : t \in Elems(timers)}
  BY DEF LivePtrs, TimerSet, Elems

\* An adjusted timer only moves; a deleted one is the only one that goes.
LEMMA AdjustElems ==
  ASSUME TypeOK, NEW fd \in Fds, AdjustTimer(fd)
  PROVE  /\ Elems(timers') \subseteq Elems(timers)
         /\ Distinct(timers) => Elems(timers') = Elems(timers) /\ Distinct(timers')
<1> DEFINE p == cd[fd].timer
           t == CHOOSE u \in TimerSet(timers) : u.ptr = p
<1>1. CASE HasTimer(fd) /\ p \in LivePtrs
  <2>1. timers' = Append(Without(p), t)
    BY <1>1 DEF AdjustTimer
  <2>2. t \in Elems(timers) /\ t.ptr = p
    <3>1. \E u \in TimerSet(timers) : u.ptr = p
      BY <1>1 DEF LivePtrs
    <3>2. TimerSet(timers) = Elems(timers)
      BY DEF TimerSet, Elems
    <3> QED BY <3>1, <3>2
  <2>3. Without(p) \in Seq(Timers) /\ t \in Timers
    <3>1. timers \in Seq(Timers)
      BY DEF TypeOK
    <3> QED BY <2>2, <3>1, WithoutType, ElemsFacts
  <2> HIDE DEF p, t
  <2>4. Elems(timers') = Elems(Without(p)) \cup {t}
    BY <2>1, <2>3, ElemsFacts
  <2>5. ASSUME Distinct(timers) PROVE Elems(timers') = Elems(timers)
    <3>1. \A u \in Elems(timers) : u.ptr = p => u = t
      BY <2>2, <2>5 DEF Distinct, Elems
    <3> QED BY <2>2, <2>4, <3>1, WithoutElems
  <2>6. ASSUME Distinct(timers) PROVE Distinct(timers')
    <3> DEFINE r == Without(p)
    <3>1. /\ Len(Append(r, t)) = Len(r) + 1 /\ Len(r) \in Nat
          /\ \A i \in 1 .. Len(r) : Append(r, t)[i] = r[i]
          /\ Append(r, t)[Len(r) + 1] = t
      BY <2>3, AppendProperties, LenProperties
    <3>2. Distinct(r) /\ \A i \in 1 .. Len(r) : r[i].ptr # p
      BY <2>6, WithoutElems DEF Elems
    <3> HIDE DEF r
    <3>3. \A i \in 1 .. Len(r) + 1 : i \in 1 .. Len(r) \/ i = Len(r) + 1
      BY <3>1
    <3> QED BY <2>1, <2>2, <3>1, <3>2, <3>3 DEF Distinct, r
  <2> QED BY <2>2, <2>4, <2>5, <2>6, WithoutElems
<1>2. CASE ~(HasTimer(fd) /\ p \in LivePtrs)
  BY <1>2 DEF AdjustTimer
<1> QED BY <1>1, <1>2

\* del_timer adds no timer.
LEMMA DelElems ==
  ASSUME TypeOK, NEW fd \in Fds, DelTimer(fd)
  PROVE  Elems(timers') \subseteq Elems(timers)
<1>1. CASE HasTimer(fd)
  BY <1>1, WithoutElems DEF DelTimer
<1>2. CASE ~HasTimer(fd)
  BY <1>2 DEF DelTimer, timerVars
<1> QED BY <1>1, <1>2

\* init_timer adds one timer, at an address that new may return.
LEMMA InitElems ==
  ASSUME TypeOK, NEW fd \in Fds, NEW c \in Conns, InitTimer(fd, c)
  PROVE  \E p \in FreePtrs(c) :
           /\ timers' = Append(timers, [ptr |-> p, fd |-> fd, conn |-> c])
           /\ Elems(timers') = Elems(timers) \cup {[ptr |-> p, fd |-> fd, conn |-> c]}
           /\ cd' = [cd EXCEPT ![fd] = [timer |-> p, deleted |-> FALSE]]
           /\ p \in Conns
<1>1. PICK p \in FreePtrs(c) :
        /\ cd' = [cd EXCEPT ![fd] = [timer |-> p, deleted |-> FALSE]]
        /\ timers' = Append(timers, [ptr |-> p, fd |-> fd, conn |-> c])
  BY DEF InitTimer
<1>2. p \in Conns
  BY DEF FreePtrs, Conns
<1>3. [ptr |-> p, fd |-> fd, conn |-> c] \in Timers /\ timers \in Seq(Timers)
  BY <1>2 DEF Timers, TypeOK
<1>4. Elems(timers') = Elems(timers) \cup {[ptr |-> p, fd |-> fd, conn |-> c]}
  BY <1>1, <1>3, ElemsFacts
<1> QED BY <1>1, <1>2, <1>4

-----------------------------------------------------------------------------
(* The inductive invariant: sockets, owners, tokens. *)

Exclusive == "fd" \notin Reuse \/ (~Timeouts /\ ~Upgrades)

Typed == TypeOK /\ Phases /\ Switched /\ PostActs

\* An event of a client names a descriptor and a connection.
LEMMA EventType ==
  ASSUME TypeOK
  PROVE  \A e \in events : e.src = "client" =>
           e.fd \in Fds /\ e.conn \in Conns /\ e.ev \in {"in", "out", "hup"}
<1>1. events \subseteq Events
  BY DEF TypeOK
<1> QED BY <1>1 DEF Events, Event

\* What closing and arming a descriptor do to the sockets.
LEMMA KernelFacts ==
  ASSUME Typed, Sockets, NEW fd \in Fds
  PROVE  /\ CloseFd(fd) =>
              /\ sock' = [sock EXCEPT ![fd] = None]
              /\ \A c \in Conns : armed'[c] # "none" => armed'[c] = armed[c]
              /\ \A f \in Fds : Ready(sock', armed', f) =>
                                  f # fd /\ Ready(sock, armed, f)
         /\ \A ev \in {"in", "out"} : ModFd(fd, ev) /\ sock' = sock =>
              /\ \A c \in Conns : armed'[c] # "none" => armed[c] # "none"
              /\ \A f \in Fds : Ready(sock', armed', f) =>
                                  f = fd \/ Ready(sock, armed, f)
<1>t. /\ sock \in [Fds -> {None} \cup Conns]
      /\ armed \in [Conns -> {"none", "off", "in", "out"}]
      /\ None \notin Conns
  BY DEF Typed, TypeOK, None, Conns
<1>1. ASSUME CloseFd(fd)
      PROVE  /\ sock' = [sock EXCEPT ![fd] = None]
             /\ \A c \in Conns : armed'[c] # "none" => armed'[c] = armed[c]
             /\ \A f \in Fds : Ready(sock', armed', f) =>
                                 f # fd /\ Ready(sock, armed, f)
  <2>1. /\ sock' = [sock EXCEPT ![fd] = None]
        /\ armed' = [c \in Conns |-> IF c = sock[fd] THEN "none" ELSE armed[c]]
    BY <1>1 DEF CloseFd
  <2>2. \A f \in Fds : Ready(sock', armed', f) => f # fd /\ Ready(sock, armed, f)
    BY <2>1, <1>t DEF Ready, Sockets
  <2> QED BY <2>1, <2>2
<1>2. ASSUME NEW ev \in {"in", "out"}, ModFd(fd, ev), sock' = sock
      PROVE  /\ \A c \in Conns : armed'[c] # "none" => armed[c] # "none"
             /\ \A f \in Fds : Ready(sock', armed', f) =>
                                 f = fd \/ Ready(sock, armed, f)
  BY <1>2, <1>t DEF ModFd, Registered, Ready, Sockets
<1> QED BY <1>1, <1>2

\* A socket has one descriptor, and none is there before accept returned it.
LEMMA SocketsStep ==
  ASSUME Exclusive, Typed, Owned, Sockets, [Next]_vars
  PROVE  Sockets'
<1> USE DEF kernelVars, loopVars, tableVars, connVars, timerVars, poolVars
<1>t. /\ sock \in [Fds -> {None} \cup Conns] /\ accepted \in Nat
      /\ armed \in [Conns -> {"none", "off", "in", "out"}]
      /\ timers \in Seq(Timers) /\ msgs \in Seq(Messages) /\ TypeOK
      /\ None \notin Conns /\ \A c \in Conns : c \in Nat
  BY DEF Typed, TypeOK, None, Conns
<1>h. batch # <<>> => Head(batch).fd \in Fds
  <2>1. batch # <<>> => Head(batch) \in Tasks
    BY HeadTailProperties DEF Typed, TypeOK
  <2> QED BY <2>1 DEF Tasks
<1>c. ASSUME NEW fd \in Fds, CloseFd(fd), accepted' = accepted,
             Elems(timers') \subseteq Elems(timers)
      PROVE  Sockets'
  <2>1. /\ sock' = [sock EXCEPT ![fd] = None]
        /\ \A c \in Conns : armed'[c] # "none" => armed'[c] = armed[c]
    BY <1>c, KernelFacts
  <2> QED BY <1>c, <1>t, <2>1 DEF Sockets
<1>m. ASSUME NEW fd \in Fds, NEW ev \in {"in", "out"}, ModFd(fd, ev),
             sock' = sock, accepted' = accepted,
             Elems(timers') \subseteq Elems(timers)
      PROVE  Sockets'
  BY <1>m, <1>t, KernelFacts DEF Sockets
<1>1. CASE Accept
  <2>1. PICK fd \in Fds : /\ fd \in FreeFds
                          /\ sock' = [sock EXCEPT ![fd] = accepted + 1]
    BY <1>1 DEF Accept, FreeFds
  <2>2. "fd" \notin Reuse => fd = accepted + 1
    BY <2>1 DEF FreeFds
  <2> QED BY <1>1, <1>t, <2>1, <2>2 DEF Accept, Sockets
<1>2. CASE EpollWait
  <2>1. PICK clients \in SUBSET {fd \in Fds : Registered(fd)
                                              /\ armed[sock[fd]] # "off"} :
          FireOneShots(clients)
    BY <1>2 DEF EpollWait
  <2>2. \A c \in Conns : armed'[c] # "none" => armed[c] # "none"
    BY <2>1 DEF FireOneShots, Registered
  <2> QED BY <1>2, <2>2 DEF EpollWait, Sockets
<1>3. CASE DispatchIo
  <2>1. PICK e \in events : e.src = "client"
                            /\ (AdjustTimer(e.fd) \/ UNCHANGED timerVars)
    BY <1>3 DEF DispatchIo
  <2>2. e.fd \in Fds
    BY <1>t, <2>1, EventType
  <2>3. Elems(timers') \subseteq Elems(timers)
    BY <1>t, <2>1, <2>2, AdjustElems
  <2> QED BY <1>3, <2>3 DEF DispatchIo, Sockets
<1>4. CASE HandleNewConnection
  <2> DEFINE m == Head(msgs)
  <2>1. m \in Elems(msgs) /\ m \in Messages /\ m # Tick
    BY <1>4, <1>t, ElemsFacts DEF HandleNewConnection
  <2>2. m.fd \in Fds /\ m.conn \in Conns
    BY <2>1 DEF Messages
  <2>3. /\ armed' = IF sock[m.fd] # None /\ ~Registered(m.fd)
                      THEN [armed EXCEPT ![sock[m.fd]] = "in"] ELSE armed
        /\ InitTimer(m.fd, m.conn)
    BY <1>4 DEF HandleNewConnection
  <2>4. "fd" \notin Reuse => m.fd = m.conn
    BY <2>1 DEF Owned, Belongs
  <2> HIDE DEF m
  <2>5. \A t \in Elems(timers') : t \in Elems(timers) \/ (t.fd = m.fd /\ t.conn = m.conn)
    <3>1. PICK p : Elems(timers') = Elems(timers)
                     \cup {[ptr |-> p, fd |-> m.fd, conn |-> m.conn]}
      BY <1>t, <2>2, <2>3, InitElems
    <3> QED BY <3>1
  <2>6. \A c \in Conns : armed'[c] # "none" => armed[c] # "none" \/ c = sock[m.fd]
    BY <1>t, <2>2, <2>3
  <2> QED BY <1>4, <1>t, <2>2, <2>4, <2>5, <2>6 DEF HandleNewConnection, Sockets
<1>5. CASE TickExpire
  <2>1. Elems(timers') \subseteq Elems(timers)
    BY <1>5, <1>t, ElemsFacts DEF TickExpire
  <2> QED BY <1>5, <2>1 DEF TickExpire, Sockets
<1>6. CASE TaskRearm
  <2>1. PICK ev \in {"in", "out"} : ModFd(Head(batch).fd, ev)
    BY <1>6 DEF TaskRearm
  <2> QED BY <1>6, <1>h, <1>m, <2>1 DEF TaskRearm, Running
<1>7. CASE TaskCloseWs
  <2>1. CASE CloseFd(Head(batch).fd)
    BY <1>7, <1>h, <1>c, <2>1 DEF TaskCloseWs, RunningClose, Running
  <2>2. CASE UNCHANGED <<sock, armed>>
    BY <1>7, <2>2 DEF TaskCloseWs, Sockets
  <2> QED BY <1>7, <2>1, <2>2 DEF TaskCloseWs
<1>8. CASE RemoveFd
  <2>1. closing \in Fds
    BY <1>8 DEF RemoveFd, Typed, TypeOK
  <2> QED BY <1>8, <2>1, <1>c DEF RemoveFd
<1>9. CASE TaskCloseHttp
  <2>1. batch # <<>> /\ DelTimer(Head(batch).fd) /\ CloseFd(Head(batch).fd)
    BY <1>9 DEF TaskCloseHttp, RunningClose, Running
  <2>2. Elems(timers') \subseteq Elems(timers)
    BY <1>t, <1>h, <2>1, DelElems
  <2> QED BY <1>9, <1>h, <1>c, <2>1, <2>2 DEF TaskCloseHttp
<1>10. CASE TaskUpgrade
  <2>1. /\ batch # <<>> /\ DelTimer(Head(batch).fd)
        /\ \/ CloseFd(Head(batch).fd)
           \/ ModFd(Head(batch).fd, "in") /\ UNCHANGED sock
    BY <1>10 DEF TaskUpgrade, Running
  <2>2. Elems(timers') \subseteq Elems(timers)
    BY <1>t, <1>h, <2>1, DelElems
  <2> QED BY <1>10, <1>h, <1>c, <1>m, <2>1, <2>2 DEF TaskUpgrade
<1>11. ASSUME NEW w \in Workers, WorkerDrop(w) PROVE Sockets'
  <2>1. work[w].job.fd \in Fds
    BY <1>11 DEF WorkerDrop, Typed, TypeOK, Phases, Jobs
  <2>2. CASE CloseFd(work[w].job.fd)
    BY <1>11, <1>c, <2>1, <2>2 DEF WorkerDrop
  <2>3. CASE UNCHANGED <<sock, armed>>
    BY <1>11, <2>3 DEF WorkerDrop, Sockets
  <2> QED BY <1>11, <2>2, <2>3 DEF WorkerDrop
<1>12. CASE UNCHANGED <<kernelVars, timers>>
  BY <1>12 DEF Sockets
<1> QED
  BY <1>1, <1>2, <1>3, <1>4, <1>5, <1>6, <1>7, <1>8, <1>9, <1>10, <1>11, <1>12
     DEF Next, MainReactor, Dispatch, Worker, vars, ForwardTick, DispatchDone,
         DispatchPipe, DispatchWakeup, DispatchHup, TickNothing, MsgsDone,
         TaskTimeoutGone, WakeupDone, WorkerTake, WorkerPost, HttpRead,
         HttpWrite, WsHandler, WsBroadcast

\* The element facts that the steps below keep needing.
LEMMA ElemTypes ==
  TypeOK =>
    /\ Elems(tasks) \subseteq Tasks /\ Elems(batch) \subseteq Tasks
    /\ Elems(jobs) \subseteq Jobs /\ Elems(timers) \subseteq Timers
    /\ Elems(pipe) \subseteq Messages /\ Elems(msgs) \subseteq Messages
  BY ElemsFacts DEF TypeOK

\* What is taken from a queue was in it, and so was what is left.
LEMMA ElemTails ==
  TypeOK =>
    /\ batch # <<>> => /\ Elems(Tail(batch)) \subseteq Elems(batch)
                       /\ Head(batch) \in Elems(batch)
    /\ msgs # <<>> => /\ Elems(Tail(msgs)) \subseteq Elems(msgs)
                      /\ Head(msgs) \in Elems(msgs)
    /\ jobs # <<>> => /\ Elems(Tail(jobs)) \subseteq Elems(jobs)
                      /\ Head(jobs) \in Elems(jobs)
    /\ timers # <<>> => /\ Elems(Tail(timers)) \subseteq Elems(timers)
                        /\ Head(timers) \in Elems(timers)
  BY ElemsFacts DEF TypeOK

\* What is put into a queue is in it.
LEMMA ElemAppends ==
  TypeOK =>
    /\ \A t \in Tasks : Elems(Append(tasks, t)) = Elems(tasks) \cup {t}
    /\ \A m \in Messages : Elems(Append(pipe, m)) = Elems(pipe) \cup {m}
    /\ \A job \in Jobs : Elems(Append(jobs, job)) = Elems(jobs) \cup {job}
  BY ElemsFacts DEF TypeOK

\* The fields of the records, and the records that the constructors make.
LEMMA RecordTypes ==
  /\ \A t \in Tasks : t.fd \in Fds /\ t.conn \in Conns
  /\ \A job \in Jobs : /\ job.fd \in Fds /\ job.conn \in Conns
                       /\ job.kind \in {"http", "ws"}
  /\ \A m \in Messages : m # Tick => m.fd \in Fds /\ m.conn \in Conns
  /\ \A t \in Timers : t.fd \in Fds /\ t.conn \in Conns
  /\ \A act \in Actions \cup {"Timeout"}, fd \in Fds, c \in Conns :
       Task(act, fd, c) \in Tasks
  /\ \A kind \in {"http", "ws"}, dir \in {"in", "out"}, fd \in Fds, c \in Conns :
       Job(kind, dir, fd, c) \in Jobs
  /\ \A fd \in Fds, c \in Conns :
       NewConn(fd, c) \in Messages /\ NewConn(fd, c) # Tick
  /\ NoJob \notin Jobs
  BY DEF Tasks, Jobs, Messages, Timers, Task, Job, NewConn, Tick, NoJob, None, Fds

\* A worker that is not idle has a job.
LEMMA WorkTypes ==
  ASSUME Typed
  PROVE  \A w \in Workers :
           /\ work[w].job \in Jobs \cup {NoJob}
           /\ work[w].at # "idle" <=> work[w].job \in Jobs
           /\ work[w].at = "drop" => work[w].job.kind = "ws"
           /\ work[w].act \in Actions
  BY RecordTypes DEF Typed, TypeOK, Phases

\* What names a descriptor and a connection was decided for the socket that is
\* behind the descriptor, if there is one.
LEMMA OwnedStep ==
  ASSUME Exclusive, Typed, Owned, Sockets, Tokens, [Next]_vars
  PROVE  Owned'
<1> USE DEF kernelVars, loopVars, tableVars, connVars, timerVars, poolVars
<1>t. /\ TypeOK /\ Phases /\ Switched
      /\ sock \in [Fds -> {None} \cup Conns]
      /\ http \in [Fds -> {None} \cup Conns] /\ ws \in [Fds -> {None} \cup Conns]
      /\ work \in [Workers -> [at : {"idle", "handler", "post", "drop"},
                               job : Jobs \cup {NoJob}, act : Actions]]
  BY DEF Typed, TypeOK
<1>h. batch # <<>> => Head(batch) \in Elems(batch) /\ Head(batch).fd \in Fds
                      /\ Elems(Tail(batch)) \subseteq Elems(batch)
  <2>1. batch # <<>> => Head(batch) \in Elems(batch)
                        /\ Elems(Tail(batch)) \subseteq Elems(batch)
    BY <1>t, ElemTails
  <2>2. Elems(batch) \subseteq Tasks
    BY <1>t, ElemTypes
  <2> QED BY <2>1, <2>2, RecordTypes
<1>b. \A f, c : ("fd" \notin Reuse \/ sock'[f] = sock[f]) /\ Belongs(f, c)
        => Belongs(f, c)'
  BY DEF Belongs
<1>m. \A m \in Elems(pipe) \cup Elems(msgs) : m # Tick =>
        m.fd \in Fds /\ m.conn \in Conns /\ Coming(m.fd) /\ Quiet(m.fd)
  <2> SUFFICES ASSUME NEW m \in Elems(pipe) \cup Elems(msgs), m # Tick
               PROVE  m.fd \in Fds /\ m.conn \in Conns /\ Coming(m.fd) /\ Quiet(m.fd)
    OBVIOUS
  <2>1. m \in Messages
    BY <1>t, ElemTypes
  <2>2. m.fd \in Fds /\ m.conn \in Conns
    BY <2>1, RecordTypes
  <2>3. m \in NewOn(m.fd)
    BY <2>1 DEF NewOn
  <2>4. Coming(m.fd)
    BY <2>3, ElemsHas DEF Coming
  <2> QED BY <2>2, <2>4 DEF Tokens, TokensAt
\* A descriptor that something speaks of is not in a message.
<1>f. ASSUME NEW fd \in Fds, ~Quiet(fd), sock' = [sock EXCEPT ![fd] = None],
             Elems(pipe') \subseteq Elems(pipe), Elems(msgs') \subseteq Elems(msgs)
      PROVE  \A m \in Elems(pipe') \cup Elems(msgs') : m # Tick =>
               Belongs(m.fd, m.conn)' /\ sock'[m.fd] = m.conn
  <2> SUFFICES ASSUME NEW m \in Elems(pipe') \cup Elems(msgs'), m # Tick
               PROVE  Belongs(m.fd, m.conn)' /\ sock'[m.fd] = m.conn
    OBVIOUS
  <2>1. m.fd \in Fds /\ m.fd # fd
    BY <1>f, <1>m
  <2> QED BY <1>f, <1>t, <1>b, <2>1 DEF Owned
\* Without "fd" in Reuse what belongs to a descriptor does so for ever.
<1>n. ASSUME "fd" \notin Reuse, NEW fd \in Fds, ~Quiet(fd), CloseFd(fd),
             Elems(pipe') \subseteq Elems(pipe), Elems(msgs') \subseteq Elems(msgs),
             events' = events, tasks' = tasks, Elems(batch') \subseteq Elems(batch),
             jobs' = jobs, work' = work,
             \A f \in Fds : http'[f] \in {None, http[f]} /\ ws'[f] \in {None, ws[f]}
      PROVE  Owned'
  <2>1. \A m \in Elems(pipe') \cup Elems(msgs') : m # Tick =>
          Belongs(m.fd, m.conn)' /\ sock'[m.fd] = m.conn
    BY <1>f, <1>n DEF CloseFd
  <2> QED BY <1>n, <1>b, <2>1 DEF Owned
\* With "fd" in Reuse a socket comes and goes while nothing speaks of its
\* descriptor.
<1>z. ASSUME "fd" \in Reuse, NEW fd \in Fds, NEW v, sock' = [sock EXCEPT ![fd] = v],
             ~Reported(events, fd), ~Handled(fd), ~HandledWs(fd),
             ~Has(tasks, TasksOn(fd)), ~Has(batch', TasksOn(fd)),
             http'[fd] = None, ws'[fd] = None,
             events' = events, tasks' = tasks, Elems(batch') \subseteq Elems(batch),
             jobs' = jobs, work' = work,
             \A f \in Fds : f # fd => http'[f] = http[f] /\ ws'[f] = ws[f],
             \A m \in Elems(pipe') \cup Elems(msgs') : m # Tick =>
               Belongs(m.fd, m.conn)' /\ sock'[m.fd] = m.conn
      PROVE  Owned'
  <2>1. NoTimeouts
    BY <1>z, <1>t DEF Exclusive, Switched
  <2>2. \A f \in Fds : f # fd => sock'[f] = sock[f]
    BY <1>z, <1>t
  <2>3. \A e \in events : e.src = "client" => e.fd \in Fds /\ e.fd # fd
    BY <1>z, <1>t, EventType DEF Reported
  <2>4. \A job \in Elems(jobs) : job.fd \in Fds /\ job.fd # fd
    <3> SUFFICES ASSUME NEW job \in Elems(jobs) PROVE job.fd \in Fds /\ job.fd # fd
      OBVIOUS
    <3>1. job \in Jobs
      BY <1>t, ElemTypes
    <3>2. job.fd \in Fds /\ job.kind \in {"http", "ws"}
      BY <3>1, RecordTypes
    <3>3. job \in JobsOn(job.kind, job.fd)
      BY <3>1 DEF JobsOn
    <3> QED BY <1>z, <3>2, <3>3, ElemsHas DEF Handled, HandledWs
  <2>5. \A w \in Workers : work[w].at # "idle" =>
          work[w].job.fd \in Fds /\ work[w].job.fd # fd
    <3> SUFFICES ASSUME NEW w \in Workers, work[w].at # "idle"
                 PROVE  work[w].job.fd \in Fds /\ work[w].job.fd # fd
      OBVIOUS
    <3> DEFINE job == work[w].job
    <3>1. job \in Jobs
      BY WorkTypes
    <3>2. job.fd \in Fds /\ job.kind \in {"http", "ws"}
      BY <3>1, RecordTypes
    <3>3. job \in JobsOn(job.kind, job.fd)
      BY <3>1 DEF JobsOn
    <3> QED BY <1>z, <3>2, <3>3 DEF Handled, HandledWs, Held
  <2>6. \A t \in Elems(tasks) \cup Elems(batch') : t.fd \in Fds /\ t.fd # fd
    <3> SUFFICES ASSUME NEW t \in Elems(tasks) \cup Elems(batch')
                 PROVE  t.fd \in Fds /\ t.fd # fd
      OBVIOUS
    <3>1. t \in Tasks /\ t \in Elems(tasks) \cup Elems(batch)
      BY <1>z, <1>t, ElemTypes
    <3>2. t.fd \in Fds /\ t \in TasksOn(t.fd)
      BY <2>1, <3>1, RecordTypes DEF TasksOn, NoTimeouts
    <3> QED BY <1>z, <3>2, ElemsHas
  <2>7. \A f \in Fds : (http'[f] # None => Belongs(f, http[f])')
                       /\ (ws'[f] # None => Belongs(f, ws[f])')
    <3> SUFFICES ASSUME NEW f \in Fds
                 PROVE  /\ http'[f] # None => Belongs(f, http[f])'
                        /\ ws'[f] # None => Belongs(f, ws[f])'
      OBVIOUS
    <3>1. CASE f = fd
      BY <1>z, <3>1
    <3>2. CASE f # fd
      BY <1>z, <2>2, <3>2, <1>b DEF Owned
    <3> QED BY <3>1, <3>2
  <2>8. \A e \in events' : e.src = "client" => Belongs(e.fd, e.conn)'
    BY <1>z, <2>2, <2>3, <1>b DEF Owned
  <2>9. \A job \in Elems(jobs') : Belongs(job.fd, job.conn)'
    BY <1>z, <2>2, <2>4, <1>b DEF Owned
  <2>10. \A w \in Workers : work'[w].at # "idle" =>
           Belongs(work[w].job.fd, work[w].job.conn)'
    BY <1>z, <2>2, <2>5, <1>b DEF Owned
  <2>11. \A t \in Elems(tasks') \cup Elems(batch') : Belongs(t.fd, t.conn)'
    BY <1>z, <2>2, <2>6, <1>b DEF Owned
  <2> QED BY <1>z, <2>7, <2>8, <2>9, <2>10, <2>11 DEF Owned
<1>1. CASE Accept
  <2>2. PICK c \in Conns : c = accepted + 1
    BY <1>1, <1>t DEF Accept, Conns, TypeOK
  <2>1. PICK fd \in Fds : /\ fd \in FreeFds
                          /\ sock' = [sock EXCEPT ![fd] = c]
                          /\ pipe' = Append(pipe, NewConn(fd, c))
    BY <1>1, <2>2 DEF Accept, FreeFds
  <2>3. Elems(pipe') = Elems(pipe) \cup {NewConn(fd, c)}
    BY <2>1, <2>2, <1>t, ElemAppends, RecordTypes
  <2>4. Quiet(fd) /\ ~Coming(fd)
    <3>1. Acceptable(fd)
      BY <2>1, <1>t DEF FreeFds, Acceptable, TypeOK
    <3> QED BY <3>1 DEF Tokens, TokensAt
  <2>5. Belongs(fd, c)'
    <3>1. sock'[fd] = c
      BY <2>1, <1>t
    <3>2. "fd" \notin Reuse => fd = c
      BY <2>1, <2>2 DEF FreeFds
    <3> QED BY <3>1, <3>2 DEF Belongs
  <2>6. \A f \in Fds : f # fd => sock'[f] = sock[f]
    BY <2>1, <1>t
  <2>7. \A m \in Elems(pipe') \cup Elems(msgs') : m # Tick =>
          Belongs(m.fd, m.conn)' /\ sock'[m.fd] = m.conn
    <3> SUFFICES ASSUME NEW m \in Elems(pipe') \cup Elems(msgs'), m # Tick
                 PROVE  Belongs(m.fd, m.conn)' /\ sock'[m.fd] = m.conn
      OBVIOUS
    <3>1. CASE m = NewConn(fd, c)
      <4>1. m.fd = fd /\ m.conn = c
        BY <3>1 DEF NewConn
      <4>2. sock'[fd] = c
        BY <2>1, <1>t
      <4> QED BY <2>5, <4>1, <4>2
    <3>2. CASE m \in Elems(pipe) \cup Elems(msgs)
      <4>1. m.fd \in Fds /\ m.fd # fd
        BY <1>m, <2>4, <3>2
      <4> QED BY <2>6, <3>2, <4>1, <1>b DEF Owned
    <3> QED BY <1>1, <2>3, <3>1, <3>2 DEF Accept
  <2>8. CASE "fd" \notin Reuse
    BY <1>1, <1>b, <2>7, <2>8 DEF Owned, Accept
  <2>9. CASE "fd" \in Reuse
    <3>1. \A f \in Fds : http'[f] = http[f] /\ ws'[f] = ws[f]
      BY <1>1 DEF Accept
    <3>2. http'[fd] = None /\ ws'[fd] = None
      BY <2>4, <3>1 DEF Quiet
    <3> QED BY <1>1, <1>z, <2>1, <2>4, <2>7, <2>9, <3>1, <3>2 DEF Accept, Quiet
  <2> QED BY <2>8, <2>9
\* What sock leaves alone: who owns a descriptor stays as it is.
<1>s. ASSUME sock' = sock
      PROVE  \A f, c : Belongs(f, c)' <=> Belongs(f, c)
  BY <1>s DEF Belongs
<1>2. CASE EpollWait
  <2>1. PICK clients \in SUBSET {fd \in Fds : Registered(fd)
                                              /\ armed[sock[fd]] # "off"} :
          \A e \in events' : e.src = "client" =>
            e.fd \in clients /\ e.conn = sock[e.fd]
    BY <1>2 DEF EpollWait, Event
  <2>2. \A e \in events' : e.src = "client" => Belongs(e.fd, e.conn)
    BY <2>1 DEF Belongs, Registered, Sockets
  <2> QED BY <1>2, <1>s, <2>2 DEF EpollWait, Owned
<1>3. CASE DispatchPipe
  BY <1>3, <1>s, ElemsEmpty DEF DispatchPipe, Owned
<1>4. CASE DispatchWakeup
  BY <1>4, <1>s, ElemsEmpty DEF DispatchWakeup, Owned
\* A posted task is about a connection that owns the descriptor.
<1>p. ASSUME NEW act \in Actions \cup {"Timeout"}, NEW fd \in Fds, NEW c \in Conns,
             Belongs(fd, c), tasks' = Append(tasks, Task(act, fd, c))
      PROVE  \A t \in Elems(tasks') : t \in Elems(tasks) \/ Belongs(t.fd, t.conn)
  <2>1. Elems(tasks') = Elems(tasks) \cup {Task(act, fd, c)}
    BY <1>p, <1>t, ElemAppends, RecordTypes
  <2> QED BY <1>p, <2>1 DEF Task
<1>5. CASE DispatchHup
  <2>1. PICK e \in events : e.src = "client" /\ events' = events \ {e}
                            /\ tasks' = Append(tasks, Task("Close", e.fd, e.conn))
    BY <1>5 DEF DispatchHup
  <2>2. e.fd \in Fds /\ e.conn \in Conns /\ Belongs(e.fd, e.conn)
    BY <2>1, <1>t, EventType DEF Owned
  <2>3. \A t \in Elems(tasks') : t \in Elems(tasks) \/ Belongs(t.fd, t.conn)
    BY <2>1, <2>2, <1>p DEF Actions
  <2> QED BY <1>5, <1>s, <2>1, <2>3 DEF DispatchHup, Owned
<1>6. CASE DispatchIo
  <2>1. PICK e \in events :
          /\ e.src = "client" /\ e.ev \in {"in", "out"} /\ events' = events \ {e}
          /\ \/ \E kind \in {"http", "ws"}, c \in {http[e.fd], ws[e.fd]} :
                  c # None /\ AppendJob(Job(kind, e.ev, e.fd, c))
             \/ UNCHANGED <<jobs, work>>
    BY <1>6 DEF DispatchIo
  <2>2. e.fd \in Fds
    BY <2>1, <1>t, EventType
  <2>3. CASE UNCHANGED <<jobs, work>>
    BY <1>6, <1>s, <2>1, <2>3 DEF DispatchIo, Owned
  <2>4. ASSUME NEW kind \in {"http", "ws"}, NEW c \in {http[e.fd], ws[e.fd]},
               c # None, AppendJob(Job(kind, e.ev, e.fd, c))
        PROVE  Owned'
    <3>1. c \in Conns /\ Belongs(e.fd, c)
      BY <2>2, <2>4, <1>t DEF Owned
    <3>2. Elems(jobs') \subseteq Elems(jobs) \cup {Job(kind, e.ev, e.fd, c)}
      BY <2>1, <2>2, <2>4, <3>1, <1>t, ElemAppends, RecordTypes DEF AppendJob
    <3>3. \A job \in Elems(jobs') : Belongs(job.fd, job.conn)
      BY <3>1, <3>2 DEF Job, Owned
    <3> QED BY <1>6, <1>s, <2>1, <2>4, <3>3 DEF DispatchIo, AppendJob, Owned
  <2> QED BY <2>1, <2>3, <2>4
<1>7. CASE HandleNewConnection
  <2> DEFINE m == Head(msgs)
  <2>1. m # Tick /\ m \in Elems(msgs) /\ Elems(msgs') \subseteq Elems(msgs)
    BY <1>7, <1>t, ElemTails DEF HandleNewConnection
  <2>2. http' = [http EXCEPT ![m.fd] = m.conn]
    BY <1>7 DEF HandleNewConnection
  <2> HIDE DEF m
  <2>3. m.fd \in Fds /\ Belongs(m.fd, m.conn)
    BY <2>1, <1>m DEF Owned
  <2>4. \A f \in Fds : http'[f] # None => Belongs(f, http'[f])
    BY <2>2, <2>3, <1>t DEF Owned
  <2>5. sock' = sock
    BY <1>7 DEF HandleNewConnection
  <2>6. \A f \in Fds : http'[f] # None => Belongs(f, http[f])'
    BY <2>4, <2>5 DEF Belongs
  <2> QED BY <1>7, <1>s, <2>1, <2>6 DEF HandleNewConnection, Owned
<1>8. CASE TickExpire
  <2> DEFINE t == Head(timers)
  <2>1. t \in Elems(timers) /\ Elems(msgs') \subseteq Elems(msgs)
    BY <1>8, <1>t, ElemTails DEF TickExpire
  <2>2. "fd" \notin Reuse
    BY <1>8, <1>t, ElemTails DEF TickExpire, Switched, NoTimeouts, Exclusive
  <2>3. t.fd \in Fds /\ t.conn \in Conns
    BY <2>1, <1>t, ElemTypes, RecordTypes
  <2>4. Belongs(t.fd, t.conn)
    BY <2>1, <2>2 DEF Belongs, Sockets
  <2>5. \A u \in Elems(tasks') : u \in Elems(tasks) \/ Belongs(u.fd, u.conn)
    BY <1>8, <1>p, <2>3, <2>4 DEF TickExpire
  <2> QED BY <1>8, <1>s, <2>1, <2>5 DEF TickExpire, Owned
<1>9. CASE TickNothing
  BY <1>9, <1>t, <1>s, ElemTails DEF TickNothing, Owned
<1>10. CASE TaskRearm
  BY <1>10, <1>h, <1>s DEF TaskRearm, Running, NextTask, Owned
<1>11. CASE TaskTimeoutGone
  BY <1>11, <1>h, <1>s DEF TaskTimeoutGone, Running, NextTask, Owned
<1> DEFINE fd == Head(batch).fd
<1>12. CASE TaskCloseWs
  <2>1. batch # <<>> /\ ws[fd] # None /\ closing = None
    BY <1>12 DEF TaskCloseWs, RunningClose, Running
  <2>2. "fd" \notin Reuse
    BY <2>1, <1>h, <1>t DEF Exclusive, Switched, NoUpgrades
  <2>3. ~Quiet(fd)
    BY <2>1 DEF Quiet
  <2>4. \A f \in Fds : ws'[f] \in {None, ws[f]}
    BY <1>12, <2>1, <1>h, <1>t DEF TaskCloseWs
  <2>5. CASE CloseFd(fd)
    BY <1>12, <1>n, <1>h, <2>1, <2>2, <2>3, <2>4, <2>5 DEF TaskCloseWs, NextTask
  <2>6. CASE UNCHANGED <<sock, armed>>
    BY <1>12, <1>s, <1>h, <2>1, <2>4, <2>6 DEF TaskCloseWs, NextTask, Owned
  <2> QED BY <1>12, <2>5, <2>6 DEF TaskCloseWs
<1>13. CASE RemoveFd
  <2>1. closing \in Fds /\ closing # None
    BY <1>13, <1>t DEF RemoveFd, TypeOK
  <2>2. "fd" \notin Reuse
    BY <2>1, <1>t DEF Exclusive, Switched, NoUpgrades
  <2>3. ~Quiet(closing)
    BY <2>1 DEF Quiet
  <2> QED BY <1>13, <1>n, <2>1, <2>2, <2>3 DEF RemoveFd
<1>14. CASE TaskUpgrade
  <2>1. batch # <<>> /\ Head(batch).act = "Upgrade"
    BY <1>14 DEF TaskUpgrade, Running
  <2>2. Head(batch) \in Tasks /\ Head(batch) \in Elems(batch)
    BY <2>1, <1>h, <1>t, ElemTypes
  <2>3. "fd" \notin Reuse
    BY <2>1, <2>2, <1>t DEF Exclusive, Switched, NoUpgrades
  <2>4. ~Quiet(fd)
    <3>1. Head(batch) \in TasksOn(fd)
      BY <2>1, <2>2 DEF TasksOn
    <3> QED BY <2>2, <3>1, ElemsHas DEF Quiet
  <2>5. Head(batch).conn = fd
    BY <2>2, <2>3 DEF Owned, Belongs
  <2>6. \A f \in Fds : ws'[f] \in {ws[f], f} /\ http'[f] \in {None, http[f]}
    BY <1>14, <2>1, <2>5, <1>h, <1>t DEF TaskUpgrade
  <2>7. \A f \in Fds : ws'[f] # None => Belongs(f, ws[f])'
    BY <2>3, <2>6 DEF Belongs, Owned
  <2>8. \A m \in Elems(pipe') \cup Elems(msgs') : m # Tick =>
          Belongs(m.fd, m.conn)' /\ sock'[m.fd] = m.conn
    <3>1. CASE CloseFd(fd)
      BY <1>14, <1>f, <1>h, <2>1, <2>4, <3>1 DEF TaskUpgrade, CloseFd, NextTask
    <3>2. CASE sock' = sock
      BY <1>14, <1>s, <3>2 DEF TaskUpgrade, NextTask, Owned
    <3> QED BY <1>14, <3>1, <3>2 DEF TaskUpgrade
  <2>9. Elems(batch') \subseteq Elems(batch)
    BY <1>14, <1>h, <2>1 DEF TaskUpgrade, NextTask
  <2> QED BY <1>14, <1>b, <2>3, <2>6, <2>7, <2>8, <2>9
          DEF TaskUpgrade, NextTask, Owned
<1>15. CASE TaskCloseHttp
  <2>1. /\ batch # <<>> /\ closing = None /\ ws[fd] = None
        /\ http' = [http EXCEPT ![fd] = None] /\ CloseFd(fd)
        /\ Head(batch).act = "Close"
           \/ (Head(batch).act = "Timeout" /\ http[fd] # None)
    BY <1>15 DEF TaskCloseHttp, RunningClose, Running
  <2>2. Head(batch) \in Tasks /\ Head(batch) \in Elems(batch)
        /\ Elems(batch') \subseteq Elems(batch)
    BY <1>15, <2>1, <1>h, <1>t, ElemTypes DEF TaskCloseHttp, NextTask
  <2>3. Head(batch).act = "Close" => Head(batch) \in TasksOn(fd)
    BY <2>2 DEF TasksOn
  <2>4. ~Quiet(fd)
    BY <2>1, <2>2, <2>3, ElemsHas DEF Quiet
  <2>5. \A f \in Fds : /\ f # fd => http'[f] = http[f] /\ ws'[f] = ws[f]
                       /\ http'[f] \in {None, http[f]} /\ ws'[f] \in {None, ws[f]}
    BY <1>15, <2>1, <1>h, <1>t DEF TaskCloseHttp
  <2>6. CASE "fd" \notin Reuse
    BY <1>15, <1>h, <1>n, <2>1, <2>2, <2>4, <2>5, <2>6 DEF TaskCloseHttp, NextTask
  <2>7. CASE "fd" \in Reuse
    <3>1. Head(batch).act = "Close"
      BY <2>1, <2>2, <2>7, <1>t DEF Exclusive, Switched, NoTimeouts
    <3>2. OneToken(fd) /\ ~HandledWs(fd)
      BY <2>1, <2>4, <2>7, <1>h DEF Tokens, TokensAt
    <3>3. Has(batch, TasksOn(fd)) /\ ~Has(Tail(batch), TasksOn(fd))
      <4>1. Once(batch, TasksOn(fd)) /\ batch \in Seq(Tasks)
        BY <3>2, <1>t DEF OneToken, TypeOK
      <4> QED BY <2>1, <2>3, <3>1, <4>1, HasFacts
    <3>4. /\ ~Reported(events, fd) /\ ~Handled(fd)
          /\ ~Has(tasks, TasksOn(fd)) /\ ~Has(batch', TasksOn(fd))
      BY <1>15, <3>2, <3>3 DEF OneToken, TaskCloseHttp, NextTask
    <3>5. sock' = [sock EXCEPT ![fd] = None]
      BY <2>1 DEF CloseFd
    <3>6. http'[fd] = None /\ ws'[fd] = None
      BY <1>15, <2>1, <1>h, <1>t DEF TaskCloseHttp
    <3>7. \A m \in Elems(pipe') \cup Elems(msgs') : m # Tick =>
            Belongs(m.fd, m.conn)' /\ sock'[m.fd] = m.conn
      BY <1>15, <1>f, <1>h, <2>1, <2>4, <3>5 DEF TaskCloseHttp, NextTask
    <3>8. events' = events /\ tasks' = tasks /\ jobs' = jobs /\ work' = work
      BY <1>15 DEF TaskCloseHttp, NextTask
    <3> HIDE DEF fd
    <3> QED BY <1>h, <1>z, <2>1, <2>2, <2>5, <2>7, <3>2, <3>4, <3>5, <3>6, <3>7, <3>8
            DEF fd
  <2> QED BY <2>6, <2>7
<1> HIDE DEF fd
<1>16. ASSUME NEW w \in Workers, WorkerTake(w) PROVE Owned'
  <2>1. Head(jobs) \in Elems(jobs) /\ Elems(jobs') \subseteq Elems(jobs)
    BY <1>16, <1>t, ElemTails DEF WorkerTake
  <2>2. \A v \in Workers : work'[v] = work[v] \/ work'[v].job = Head(jobs)
    BY <1>16, <1>t DEF WorkerTake
  <2>3. \A v \in Workers : work'[v].at # "idle" =>
          Belongs(work'[v].job.fd, work'[v].job.conn)
    BY <2>1, <2>2 DEF Owned
  <2>4. sock' = sock
    BY <1>16 DEF WorkerTake
  <2>5. \A v \in Workers : work'[v].at # "idle" =>
          Belongs(work[v].job.fd, work[v].job.conn)'
    BY <2>3, <2>4 DEF Belongs
  <2> QED BY <1>16, <1>s, <2>1, <2>5 DEF WorkerTake, Owned
\* A worker that keeps its job, or gives it up, has no new one.
<1>w. ASSUME sock' = sock, \A v \in Workers :
               work'[v].at = "idle" \/ (work[v].at # "idle" /\ work'[v].job = work[v].job)
      PROVE  \A v \in Workers : work'[v].at # "idle" =>
               Belongs(work[v].job.fd, work[v].job.conn)'
  <2>1. \A v \in Workers : work'[v].at # "idle" =>
          Belongs(work'[v].job.fd, work'[v].job.conn)
    BY <1>w DEF Owned
  <2> QED BY <1>w, <2>1 DEF Belongs
<1>r. ASSUME NEW w \in Workers, NEW act, work[w].at = "handler", Return(w, act)
      PROVE  \A v \in Workers :
               work'[v].at = "idle" \/ (work[v].at # "idle" /\ work'[v].job = work[v].job)
  <2>1. work' = [work EXCEPT ![w] = [work[w] EXCEPT !.at = "post", !.act = act]]
    BY <1>r DEF Return
  <2>2. work'[w].job = work[w].job /\ \A v \in Workers : v # w => work'[v] = work[v]
    BY <2>1, <1>t
  <2> QED BY <1>r, <2>2, WorkTypes DEF Typed, Phases
<1>17. ASSUME NEW w \in Workers, HttpRead(w) \/ HttpWrite(w) \/ WsHandler(w)
       PROVE  Owned'
  <2>1. /\ work[w].at = "handler" /\ (\E act : Return(w, act)) /\ sock' = sock
        /\ UNCHANGED <<loopVars, pipe, tasks, tableVars, jobs>>
    BY <1>17 DEF HttpRead, HttpWrite, WsHandler
  <2>2. \A v \in Workers : work'[v].at # "idle" =>
          Belongs(work[v].job.fd, work[v].job.conn)'
    BY <1>r, <1>w, <2>1
  <2> QED BY <1>s, <2>1, <2>2 DEF Owned
<1>18. ASSUME NEW w \in Workers, WsBroadcast(w) PROVE Owned'
  <2>1. PICK f \in Fds : ws[f] # None /\ tasks' = Append(tasks, Task("Write", f, ws[f]))
    BY <1>18 DEF WsBroadcast
  <2>2. ws[f] \in Conns /\ Belongs(f, ws[f])
    BY <2>1, <1>t DEF Owned
  <2>3. \A t \in Elems(tasks') : t \in Elems(tasks) \/ Belongs(t.fd, t.conn)
    BY <2>1, <2>2, <1>p DEF Actions
  <2> QED BY <1>18, <1>s, <2>3 DEF WsBroadcast, Owned
<1>19. ASSUME NEW w \in Workers, WorkerPost(w) PROVE Owned'
  <2>1. work[w].job \in Jobs /\ work[w].act \in Actions
    BY <1>19, WorkTypes DEF WorkerPost
  <2>2. work[w].job.fd \in Fds /\ work[w].job.conn \in Conns
        /\ Belongs(work[w].job.fd, work[w].job.conn)
    BY <1>19, <2>1, RecordTypes DEF WorkerPost, Owned
  <2>3. \A t \in Elems(tasks') : t \in Elems(tasks) \/ Belongs(t.fd, t.conn)
    BY <1>19, <2>1, <2>2, <1>p DEF WorkerPost
  <2>4. \A v \in Workers : work'[v].at = "idle"
           \/ (work[v].at # "idle" /\ work'[v].job = work[v].job)
    <3>1. \A v \in Workers : v # w => work'[v] = work[v]
      BY <1>19, <1>t DEF WorkerPost
    <3>2. work'[w].at = "idle" \/ work'[w].job = work[w].job
      BY <1>19, <1>t DEF WorkerPost, Idle
    <3> QED BY <1>19, <3>1, <3>2, WorkTypes DEF WorkerPost, Typed, Phases
  <2>5. \A v \in Workers : work'[v].at # "idle" =>
          Belongs(work[v].job.fd, work[v].job.conn)'
    BY <1>19, <1>w, <2>4 DEF WorkerPost
  <2> QED BY <1>19, <1>s, <2>3, <2>5 DEF WorkerPost, Owned
<1>20. ASSUME NEW w \in Workers, WorkerDrop(w) PROVE Owned'
  <2>1. /\ work[w].job \in JobsOn("ws", work[w].job.fd)
        /\ work[w].job.fd \in Fds
    BY <1>20, WorkTypes, RecordTypes DEF WorkerDrop, JobsOn
  <2>2. "fd" \notin Reuse
    BY <2>1, <1>t DEF Exclusive, Switched, NoUpgrades, JobsOn
  <2>3. ~Quiet(work[w].job.fd)
    BY <2>1 DEF Quiet, HandledWs, Held
  <2>4. \A v \in Workers : work'[v] = work[v] \/ work'[v].at = "idle"
    BY <1>20, <1>t DEF WorkerDrop, Idle
  <2>5. \A v \in Workers : work'[v].at # "idle" =>
          Belongs(work[v].job.fd, work[v].job.conn)'
    <3>1. \A v \in Workers : work'[v].at # "idle" =>
            Belongs(work'[v].job.fd, work'[v].job.conn)
      BY <2>4 DEF Owned
    <3> QED BY <2>2, <3>1 DEF Belongs
  <2>6. \A m \in Elems(pipe') \cup Elems(msgs') : m # Tick =>
          Belongs(m.fd, m.conn)' /\ sock'[m.fd] = m.conn
    <3>1. CASE CloseFd(work[w].job.fd)
      BY <1>20, <1>f, <2>1, <2>3, <3>1 DEF WorkerDrop, CloseFd
    <3>2. CASE sock' = sock
      BY <1>20, <1>s, <3>2 DEF WorkerDrop, Owned
    <3> QED BY <1>20, <3>1, <3>2 DEF WorkerDrop
  <2> QED BY <1>20, <1>b, <2>2, <2>5, <2>6 DEF WorkerDrop, Owned
<1>21. CASE ForwardTick
  <2>1. Elems(pipe') = Elems(pipe) \cup {Tick}
    <3>1. Tick \in Messages
      BY DEF Messages
    <3> QED BY <1>21, <3>1, <1>t, ElemAppends DEF ForwardTick
  <2> QED BY <1>21, <1>s, <2>1 DEF ForwardTick, Owned
<1>22. CASE UNCHANGED <<sock, http, ws, events, jobs, work, tasks, batch, pipe, msgs>>
  BY <1>22, <1>s DEF Owned
<1> QED
  BY <1>1, <1>2, <1>3, <1>4, <1>5, <1>6, <1>7, <1>8, <1>9, <1>10, <1>11, <1>12,
     <1>13, <1>14, <1>15, <1>16, <1>17, <1>18, <1>19, <1>20, <1>21, <1>22
     DEF Next, MainReactor, Dispatch, Worker, vars, DispatchDone, MsgsDone,
         WakeupDone

\* The effect of one step on what is somewhere in the queues.
LEMMA QueueHas ==
  TypeOK =>
    /\ \A S : \A t \in Tasks :
         /\ Has(Append(tasks, t), S) <=> Has(tasks, S) \/ t \in S
         /\ Once(tasks, S) /\ (t \in S => ~Has(tasks, S))
              => Once(Append(tasks, t), S)
    /\ \A S : \A m \in Messages :
         /\ Has(Append(pipe, m), S) <=> Has(pipe, S) \/ m \in S
         /\ Once(pipe, S) /\ (m \in S => ~Has(pipe, S))
              => Once(Append(pipe, m), S)
    /\ \A S : \A job \in Jobs :
         /\ Has(Append(jobs, job), S) <=> Has(jobs, S) \/ job \in S
         /\ Once(jobs, S) /\ (job \in S => ~Has(jobs, S))
              => Once(Append(jobs, job), S)
  BY HasFacts DEF TypeOK

\* The effect of taking the first of a queue on what is somewhere in it.
LEMMA QueueTails ==
  TypeOK =>
    /\ batch # <<>> => \A S :
         /\ Has(Tail(batch), S) => Has(batch, S)
         /\ Head(batch) \in S => Has(batch, S)
         /\ Once(batch, S) => Once(Tail(batch), S)
         /\ Once(batch, S) /\ Head(batch) \in S => ~Has(Tail(batch), S)
    /\ msgs # <<>> => \A S :
         /\ Has(Tail(msgs), S) => Has(msgs, S)
         /\ Head(msgs) \in S => Has(msgs, S)
         /\ Once(msgs, S) => Once(Tail(msgs), S)
         /\ Once(msgs, S) /\ Head(msgs) \in S => ~Has(Tail(msgs), S)
    /\ jobs # <<>> => \A S :
         /\ Has(Tail(jobs), S) => Has(jobs, S)
         /\ Head(jobs) \in S => Has(jobs, S)
         /\ Once(jobs, S) => Once(Tail(jobs), S)
         /\ Once(jobs, S) /\ Head(jobs) \in S => ~Has(Tail(jobs), S)
  BY HasFacts DEF TypeOK

\* A posted upgrade is a posted task.
LEMMA UpgradesAreTasks ==
  \A q, fd : Has(q, UpgradesOn(fd)) => Has(q, TasksOn(fd))
<1>1. \A fd : UpgradesOn(fd) \subseteq TasksOn(fd)
  BY DEF UpgradesOn, TasksOn
<1> QED BY <1>1 DEF Has

\* The events that are left when one is dispatched.
LEMMA EventsLeft ==
  ASSUME NEW evs, NEW e \in evs, e.src = "client"
  PROVE  /\ Reported(evs, e.fd)
         /\ OnceReported(evs, e.fd) => ~Reported(evs \ {e}, e.fd)
         /\ \A fd : /\ Reported(evs \ {e}, fd) => Reported(evs, fd)
                    /\ OnceReported(evs, fd) => OnceReported(evs \ {e}, fd)
  BY DEF Reported, OnceReported

\* A worker without a job takes one; it keeps its job; it gives its job up.
LEMMA HeldFacts ==
  ASSUME NEW W, NEW V, NEW w \in Workers, \A v \in Workers : v # w => V[v] = W[v]
  PROVE  /\ W[w].job = NoJob =>
              \A fd : /\ \A kind : Held(V, kind, fd)
                           <=> Held(W, kind, fd) \/ V[w].job \in JobsOn(kind, fd)
                      /\ OnceHeld(W, fd) /\ (V[w].job \in JobsOn("http", fd) =>
                                              ~Held(W, "http", fd))
                           => OnceHeld(V, fd)
         /\ V[w].job = W[w].job =>
              \A fd : /\ \A kind : Held(V, kind, fd) <=> Held(W, kind, fd)
                      /\ OnceHeld(W, fd) => OnceHeld(V, fd)
         /\ V[w].job = NoJob =>
              \A fd : /\ \A kind : Held(V, kind, fd) => Held(W, kind, fd)
                      /\ OnceHeld(W, fd) => OnceHeld(V, fd)
                      /\ OnceHeld(W, fd) /\ W[w].job \in JobsOn("http", fd)
                           => ~Held(V, "http", fd)
<1>1. \A kind, fd : NoJob \notin JobsOn(kind, fd)
  BY RecordTypes DEF JobsOn
<1> QED BY <1>1 DEF Held, OnceHeld

\* The one shot of a descriptor moves from epoll to the reported event, to the
\* job, to the worker, to the posted task and back, and is never in two places.
LEMMA TokensStep ==
  ASSUME Exclusive, Typed, Owned, Sockets, Tokens, [Next]_vars
  PROVE  Tokens'
<1> SUFFICES ASSUME NEW fd \in Fds PROVE TokensAt(fd)'
  BY DEF Tokens
<1> USE DEF kernelVars, loopVars, tableVars, connVars, timerVars, poolVars
<1>t. /\ TypeOK /\ Phases /\ Switched /\ PostActs
      /\ sock \in [Fds -> {None} \cup Conns] /\ accepted \in Nat
      /\ armed \in [Conns -> {"none", "off", "in", "out"}]
      /\ http \in [Fds -> {None} \cup Conns] /\ ws \in [Fds -> {None} \cup Conns]
      /\ work \in [Workers -> [at : {"idle", "handler", "post", "drop"},
                               job : Jobs \cup {NoJob}, act : Actions]]
      /\ None \notin Conns /\ None \notin Fds
  <2>1. None \notin Conns /\ None \notin Fds
    BY DEF None, Conns, Fds
  <2> QED BY <2>1 DEF Typed, TypeOK
<1>f. TokensAt(fd)
  BY DEF Tokens
<1>r. "fd" \in Reuse => NoTimeouts /\ NoUpgrades
  BY <1>t DEF Exclusive, Switched
\* A descriptor that something speaks of has been accepted.
<1>a. ASSUME "fd" \notin Reuse, NEW d \in Fds, ~Quiet(d), sock'[d] = None,
             accepted' = accepted
      PROVE  ~Acceptable(d)'
  <2>1. ~Acceptable(d)
    BY <1>a DEF Tokens, TokensAt
  <2>2. sock[d] # None => sock[d] = d /\ d <= accepted
    BY <1>a DEF Sockets
  <2>3. d <= accepted
    BY <1>a, <1>t, <2>1, <2>2 DEF Acceptable, Fds
  <2> QED BY <1>a, <1>t, <2>3 DEF Acceptable, Fds
<1>h. batch # <<>> => /\ Head(batch) \in Tasks /\ Head(batch).fd \in Fds
                      /\ Head(batch).act # "Timeout" =>
                           Head(batch) \in TasksOn(Head(batch).fd)
  <2>1. batch # <<>> => Head(batch) \in Tasks
    BY <1>t, ElemTails, ElemTypes
  <2> QED BY <2>1, RecordTypes DEF TasksOn
<1>b. batch # <<>> =>
        /\ Has(Tail(batch), TasksOn(fd)) => Has(batch, TasksOn(fd))
        /\ Once(batch, TasksOn(fd)) => Once(Tail(batch), TasksOn(fd))
        /\ Once(batch, TasksOn(fd)) /\ Head(batch) \in TasksOn(fd)
             => ~Has(Tail(batch), TasksOn(fd))
        /\ Head(batch) \in TasksOn(fd) => Has(batch, TasksOn(fd))
        /\ Has(Tail(batch), UpgradesOn(fd)) => Has(batch, UpgradesOn(fd))
  BY <1>t, QueueTails
\* An upgrade is a task, and a task speaks of its descriptor.
<1>g. /\ Upgrading(fd) => Has(tasks, TasksOn(fd)) \/ Has(batch, TasksOn(fd))
      /\ Upgrading(fd)' => Has(tasks', TasksOn(fd)) \/ Has(batch', TasksOn(fd))
      /\ Quiet(fd) => ~Handled(fd) /\ ~Upgrading(fd)
      /\ Quiet(fd)' => ~Handled(fd)' /\ ~Upgrading(fd)'
  BY UpgradesAreTasks DEF Upgrading, Quiet
\* Nothing is added to what speaks of the descriptor.
<1>s. ASSUME Ready(sock', armed', fd) => Ready(sock, armed, fd),
             Reported(events', fd) => Reported(events, fd),
             OnceReported(events, fd) => OnceReported(events', fd),
             Handled(fd)' => Handled(fd), OneHandler(fd)',
             HandledWs(fd)' => HandledWs(fd),
             Has(tasks', TasksOn(fd)) => Has(tasks, TasksOn(fd)),
             Once(tasks, TasksOn(fd)) => Once(tasks', TasksOn(fd)),
             Has(batch', TasksOn(fd)) => Has(batch, TasksOn(fd)),
             Once(batch, TasksOn(fd)) => Once(batch', TasksOn(fd)),
             Coming(fd)' => Coming(fd), OneMessage(fd)',
             Upgrading(fd)' => Upgrading(fd),
             http'[fd] = http[fd], ws'[fd] = ws[fd],
             closing' = fd => closing = fd,
             sock'[fd] = sock[fd], accepted' = accepted
      PROVE  TokensAt(fd)'
  <2>1. Quiet(fd) => Quiet(fd)'
    BY <1>s DEF Quiet
  <2>2. OneToken(fd) => OneToken(fd)'
    BY <1>s DEF OneToken
  <2>3. Acceptable(fd)' <=> Acceptable(fd)
    BY <1>s DEF Acceptable
  <2> QED BY <1>f, <1>s, <2>1, <2>2, <2>3 DEF TokensAt
\* The descriptor was in use, and has no HttpConnection.
<1>q. ASSUME "fd" \notin Reuse, ~Quiet(fd), http'[fd] = None,
             sock'[fd] \in {None, sock[fd]}, accepted' = accepted,
             Coming(fd)' => Coming(fd), OneMessage(fd)', OneHandler(fd)',
             closing' = fd => ws'[fd] = None,
             Timeouts \/ (~Handled(fd)' /\ ~Upgrading(fd)')
      PROVE  TokensAt(fd)'
  <2>1. CASE sock'[fd] = None
    <3>1. ~Acceptable(fd)'
      BY <1>a, <1>q, <2>1
    <3> QED BY <1>f, <1>q, <3>1 DEF TokensAt
  <2>2. CASE sock'[fd] = sock[fd]
    BY <1>f, <1>q, <2>2 DEF TokensAt, Acceptable
  <2> QED BY <1>q, <2>1, <2>2
\* The one shot of the descriptor moves on.
<1>k. ASSUME ~Quiet(fd), http'[fd] = http[fd],
             ws'[fd] = ws[fd], closing' = closing,
             HandledWs(fd)' => HandledWs(fd),
             sock'[fd] = sock[fd], accepted' = accepted,
             Coming(fd)' => Coming(fd), OneMessage(fd)', OneHandler(fd)',
             http[fd] # None => OneToken(fd)',
             http[fd] = None => /\ Handled(fd)' => Handled(fd)
                                /\ Upgrading(fd)' => Upgrading(fd)
      PROVE  TokensAt(fd)'
  <2>1. Acceptable(fd)' <=> Acceptable(fd)
    BY <1>k DEF Acceptable
  <2> QED BY <1>f, <1>k, <2>1 DEF TokensAt
<1>1. CASE Accept
  <2>1. PICK c \in Conns : c = accepted + 1
    BY <1>1, <1>t DEF Accept, Conns, TypeOK
  <2>2. PICK d \in Fds : /\ d \in FreeFds
                         /\ sock' = [sock EXCEPT ![d] = c]
                         /\ pipe' = Append(pipe, NewConn(d, c))
    BY <1>1, <2>1 DEF Accept, FreeFds
  <2>3. Quiet(d) /\ ~Coming(d)
    <3>1. Acceptable(d)
      BY <2>2, <1>t DEF FreeFds, Acceptable
    <3> QED BY <3>1 DEF Tokens, TokensAt
  <2>4. NewConn(d, c) \in Messages /\ \A f \in Fds : NewConn(d, c) \in NewOn(f) <=> f = d
    BY RecordTypes DEF NewOn, NewConn
  <2>5. /\ Has(pipe', NewOn(fd)) <=> Has(pipe, NewOn(fd)) \/ fd = d
        /\ Once(pipe, NewOn(fd)) /\ (fd = d => ~Has(pipe, NewOn(fd)))
             => Once(pipe', NewOn(fd))
    BY <1>t, <2>2, <2>4, QueueHas
  <2>6. armed[c] = "none"
    BY <1>t, <2>1 DEF Sockets
  <2>7. sock'[d] = c /\ \A f \in Fds : f # d => sock'[f] = sock[f]
    BY <2>2, <1>t
  <2>8. armed' = armed /\ Ready(sock', armed, fd) => Ready(sock, armed, fd)
    BY <1>1, <2>6, <2>7 DEF Ready, Accept
  <2>9. Quiet(fd) => Quiet(fd)'
    BY <1>1, <2>8 DEF Quiet, Handled, HandledWs, Accept
  <2>10. CASE fd = d
    BY <1>1, <1>f, <1>g, <1>t, <2>3, <2>5, <2>7, <2>9, <2>10
       DEF Accept, TokensAt, Acceptable, Coming, OneMessage, OneHandler, Quiet
  <2>11. CASE fd # d
    <3>1. Acceptable(fd)' => Acceptable(fd)
      BY <1>1, <1>t, <2>7, <2>11 DEF Accept, Acceptable, Fds
    <3>2. Coming(fd)' <=> Coming(fd)
      BY <1>1, <2>5, <2>11 DEF Accept, Coming
    <3>3. OneToken(fd) => OneToken(fd)'
      BY <1>1, <2>7, <2>8, <2>11 DEF Accept, OneToken, Handled
    <3>4. OneMessage(fd)'
      BY <1>1, <1>f, <2>5, <2>11 DEF Accept, TokensAt, OneMessage
    <3> QED BY <1>1, <1>f, <2>7, <2>9, <2>11, <3>1, <3>2, <3>3, <3>4
            DEF Accept, TokensAt, OneHandler, Handled, HandledWs, Upgrading
  <2> QED BY <2>10, <2>11
<1>2. CASE ForwardTick
  <2>1. Tick \in Messages /\ Tick \notin NewOn(fd)
    BY DEF Messages, NewOn
  <2>2. /\ Has(pipe', NewOn(fd)) <=> Has(pipe, NewOn(fd))
        /\ Once(pipe, NewOn(fd)) => Once(pipe', NewOn(fd))
    BY <1>2, <1>t, <2>1, QueueHas DEF ForwardTick
  <2>3. UNCHANGED <<kernelVars, loopVars, tasks, tableVars, connVars, timerVars,
                    poolVars>>
    BY <1>2 DEF ForwardTick
  <2> QED BY <1>f, <2>2, <2>3
          DEF TokensAt, Acceptable, Quiet, Coming, OneMessage, OneHandler,
              OneToken, Handled, HandledWs, Upgrading
<1>3. CASE EpollWait
  <2>1. PICK clients \in SUBSET {f \in Fds : Registered(f)
                                             /\ armed[sock[f]] # "off"} :
          /\ FireOneShots(clients)
          /\ \A f \in Fds : /\ Reported(events', f) => f \in clients
                            /\ OnceReported(events', f)
    <3>1. PICK clients \in SUBSET {f \in Fds : Registered(f)
                                               /\ armed[sock[f]] # "off"} :
            \E hungUp \in SUBSET clients :
              /\ events' =
                   {Event("pipe", None, None, "in") : m \in {pipe} \ {<<>>}}
                   \cup {Event("wakeup", None, None, "in") : q \in {tasks} \ {<<>>}}
                   \cup {Event("client", f, sock[f],
                               IF f \in hungUp THEN "hup" ELSE armed[sock[f]])
                           : f \in clients}
              /\ FireOneShots(clients)
      BY <1>3 DEF EpollWait
    <3>2. PICK hungUp \in SUBSET clients :
              events' =
                   {Event("pipe", None, None, "in") : m \in {pipe} \ {<<>>}}
                   \cup {Event("wakeup", None, None, "in") : q \in {tasks} \ {<<>>}}
                   \cup {Event("client", f, sock[f],
                               IF f \in hungUp THEN "hup" ELSE armed[sock[f]])
                           : f \in clients}
      BY <3>1
    <3>3. \A e \in events' : e.src = "client" =>
            e.fd \in clients /\ e = Event("client", e.fd, sock[e.fd],
                               IF e.fd \in hungUp THEN "hup" ELSE armed[sock[e.fd]])
      BY <3>2 DEF Event
    <3>4. \A f \in Fds : Reported(events', f) => f \in clients
      BY <3>3 DEF Reported
    <3>5. \A f \in Fds : OnceReported(events', f)
      BY <3>3 DEF OnceReported
    <3> QED BY <3>1, <3>4, <3>5
  <2>2. fd \in clients => Ready(sock, armed, fd)
    BY <2>1, <1>t DEF Registered, Ready
  <2>3. Ready(sock', armed', fd) => Ready(sock, armed, fd) /\ fd \notin clients
    BY <1>3, <2>1, <1>t DEF EpollWait, FireOneShots, Ready
  <2>4. Reported(events', fd) => fd \in clients
    BY <2>1
  <2>5. Quiet(fd) => Quiet(fd)'
    BY <1>3, <2>2, <2>3, <2>4 DEF EpollWait, Quiet, Handled, HandledWs
  <2>6. OneToken(fd) => OneToken(fd)'
    BY <1>3, <2>1, <2>2, <2>3, <2>4 DEF EpollWait, OneToken, Handled
  <2> QED BY <1>3, <1>f, <2>5, <2>6
          DEF EpollWait, TokensAt, Acceptable, Coming, OneMessage, OneHandler,
              Handled, HandledWs, Upgrading
<1>4. CASE DispatchPipe
  BY <1>4, <1>f, HasEmpty DEF DispatchPipe, TokensAt, Acceptable, Quiet, Coming,
     OneMessage, OneHandler, OneToken, Handled, HandledWs, Reported, OnceReported,
     Upgrading
<1>5. CASE DispatchWakeup
  BY <1>5, <1>f, HasEmpty DEF DispatchWakeup, TokensAt, Acceptable, Quiet, Coming,
     OneMessage, OneHandler, OneToken, Handled, HandledWs, Reported, OnceReported,
     Upgrading
<1>6. CASE DispatchHup
  <2>1. PICK e \in events : /\ e.src = "client" /\ events' = events \ {e}
                            /\ tasks' = Append(tasks, Task("Close", e.fd, e.conn))
    BY <1>6 DEF DispatchHup
  <2>2. /\ Task("Close", e.fd, e.conn) \in Tasks
        /\ Task("Close", e.fd, e.conn) \notin UpgradesOn(fd)
        /\ Task("Close", e.fd, e.conn) \in TasksOn(fd) <=> fd = e.fd
    <3>1. e.fd \in Fds /\ e.conn \in Conns
      BY <1>t, <2>1, EventType
    <3>2. Task("Close", e.fd, e.conn) \in Tasks
      BY <3>1, RecordTypes DEF Actions
    <3> QED BY <3>2 DEF Task, TasksOn, UpgradesOn
  <2>3. /\ Has(tasks', UpgradesOn(fd)) <=> Has(tasks, UpgradesOn(fd))
        /\ Has(tasks', TasksOn(fd)) <=> Has(tasks, TasksOn(fd)) \/ fd = e.fd
        /\ Once(tasks, TasksOn(fd)) /\ (fd = e.fd => ~Has(tasks, TasksOn(fd)))
             => Once(tasks', TasksOn(fd))
    BY <1>t, <2>1, <2>2, QueueHas
  <2>4. /\ Reported(events, e.fd)
        /\ OnceReported(events, e.fd) => ~Reported(events', e.fd)
        /\ Reported(events', fd) => Reported(events, fd)
        /\ OnceReported(events, fd) => OnceReported(events', fd)
    BY <2>1, EventsLeft
  <2>5. /\ UNCHANGED <<kernelVars, pipe, msgs, batch, closing, tableVars, poolVars>>
        /\ (Handled(fd)' <=> Handled(fd)) /\ (HandledWs(fd)' <=> HandledWs(fd))
        /\ (OneHandler(fd)' <=> OneHandler(fd)) /\ (OneMessage(fd)' <=> OneMessage(fd))
        /\ (Coming(fd)' <=> Coming(fd)) /\ (Upgrading(fd)' <=> Upgrading(fd))
    BY <1>6, <2>3 DEF DispatchHup, Handled, HandledWs, OneHandler, OneMessage,
                      Coming, Upgrading
  <2>6. OneMessage(fd)' /\ OneHandler(fd)'
    BY <1>f, <2>5 DEF TokensAt
  <2>7. CASE fd = e.fd
    <3>1. ~Quiet(fd)
      BY <2>4, <2>7 DEF Quiet
    <3>2. OneToken(fd) => OneToken(fd)'
      BY <2>3, <2>4, <2>5, <2>7 DEF OneToken
    <3> QED BY <1>f, <1>k, <2>5, <2>6, <3>1, <3>2 DEF TokensAt
  <2>8. CASE fd # e.fd
    BY <1>s, <2>3, <2>4, <2>5, <2>6, <2>8
  <2> QED BY <2>7, <2>8
<1>7. CASE DispatchIo
  <2>1. PICK e \in events :
          /\ e.src = "client" /\ e.ev \in {"in", "out"} /\ events' = events \ {e}
          /\ \/ ws[e.fd] # None /\ AppendJob(Job("ws", e.ev, e.fd, ws[e.fd]))
             \/ /\ ws[e.fd] = None /\ http[e.fd] # None
                /\ AppendJob(Job("http", e.ev, e.fd, http[e.fd]))
             \/ ws[e.fd] = None /\ http[e.fd] = None /\ UNCHANGED poolVars
    BY <1>7 DEF DispatchIo
  <2>2. e.fd \in Fds
    BY <1>t, <2>1, EventType
  <2>4. /\ Reported(events, e.fd)
        /\ OnceReported(events, e.fd) => ~Reported(events', e.fd)
        /\ Reported(events', fd) => Reported(events, fd)
        /\ OnceReported(events, fd) => OnceReported(events', fd)
    BY <2>1, EventsLeft
  <2>5. /\ UNCHANGED <<kernelVars, pipe, msgs, tasks, batch, closing, tableVars>>
        /\ (OneMessage(fd)' <=> OneMessage(fd)) /\ (Coming(fd)' <=> Coming(fd))
        /\ (Upgrading(fd)' <=> Upgrading(fd))
    BY <1>7 DEF DispatchIo, OneMessage, Coming, Upgrading
  <2>6. OneMessage(fd)'
    BY <1>f, <2>5 DEF TokensAt
  <2>7. ASSUME jobs' = jobs, work' = work PROVE TokensAt(fd)'
    <3>1. /\ (Handled(fd)' <=> Handled(fd)) /\ (HandledWs(fd)' <=> HandledWs(fd))
          /\ (OneHandler(fd)' <=> OneHandler(fd))
      BY <2>7 DEF Handled, HandledWs, OneHandler
    <3> QED BY <1>f, <1>s, <2>4, <2>5, <2>6, <3>1 DEF TokensAt
  <2>8. ASSUME NEW kind \in {"http", "ws"}, NEW job \in Jobs, job.kind = kind,
               job.fd = e.fd, jobs' = Append(jobs, job), work' = work,
               IF kind = "ws" THEN ws[e.fd] # None ELSE http[e.fd] # None
        PROVE  TokensAt(fd)'
    <3>1. \A k \in {"http", "ws"} : job \in JobsOn(k, fd) <=> k = kind /\ fd = e.fd
      BY <2>8 DEF JobsOn
    <3>2. /\ \A k \in {"http", "ws"} : Has(jobs', JobsOn(k, fd)) <=>
                 Has(jobs, JobsOn(k, fd)) \/ (k = kind /\ fd = e.fd)
          /\ Once(jobs, JobsOn("http", fd))
             /\ ("http" = kind /\ fd = e.fd => ~Has(jobs, JobsOn("http", fd)))
               => Once(jobs', JobsOn("http", fd))
      BY <1>t, <2>8, <3>1, QueueHas
    <3>3. Held(work', "http", fd) = Held(work, "http", fd)
          /\ Held(work', "ws", fd) = Held(work, "ws", fd)
          /\ OnceHeld(work', fd) = OnceHeld(work, fd)
      BY <2>8
    <3>4. CASE fd # e.fd
      <4>1. /\ (Handled(fd)' <=> Handled(fd)) /\ (HandledWs(fd)' <=> HandledWs(fd))
            /\ OneHandler(fd)'
        BY <1>f, <3>2, <3>3, <3>4 DEF Handled, HandledWs, OneHandler, TokensAt
      <4> QED BY <1>s, <2>4, <2>5, <2>6, <4>1
    <3>5. CASE fd = e.fd
      <4>1. ~Quiet(fd)
        BY <2>4, <3>5 DEF Quiet
      <4>2. CASE http[fd] # None
        <5>1. kind = "http" /\ OneToken(fd)
          BY <1>f, <2>8, <3>5, <4>2 DEF TokensAt
        <5>2. ~Handled(fd)
          BY <2>4, <3>5, <5>1 DEF OneToken
        <5>3. OneHandler(fd)' /\ (HandledWs(fd)' <=> HandledWs(fd))
          BY <1>f, <3>2, <3>3, <5>1, <5>2
             DEF Handled, HandledWs, OneHandler, TokensAt
        <5>4. OneToken(fd)'
          BY <2>4, <2>5, <3>5, <5>1, <5>2 DEF OneToken
        <5> QED BY <1>k, <2>5, <2>6, <4>1, <4>2, <5>3, <5>4
      <4>3. CASE http[fd] = None
        <5>1. kind = "ws" /\ "fd" \notin Reuse
          BY <1>f, <2>8, <3>5, <4>1, <4>3 DEF TokensAt
        <5>2. OneHandler(fd)' /\ (Handled(fd)' <=> Handled(fd))
          BY <1>f, <3>2, <3>3, <5>1 DEF OneHandler, Handled, TokensAt
        <5>3. Timeouts \/ (~Handled(fd) /\ ~Upgrading(fd))
          BY <1>f, <4>3 DEF TokensAt
        <5> QED BY <1>f, <1>q, <2>5, <2>6, <4>1, <4>3, <5>1, <5>2, <5>3 DEF TokensAt
      <4> QED BY <4>2, <4>3
    <3> QED BY <3>4, <3>5
  <2>9. CASE ws[e.fd] # None /\ AppendJob(Job("ws", e.ev, e.fd, ws[e.fd]))
    <3> DEFINE job == Job("ws", e.ev, e.fd, ws[e.fd])
    <3>1. job \in Jobs /\ job.kind = "ws" /\ job.fd = e.fd
      BY <1>t, <2>1, <2>2, <2>9, RecordTypes DEF Job
    <3> HIDE DEF job
    <3>2. work' = work /\ (jobs' = Append(jobs, job) \/ jobs' = jobs)
      BY <2>9 DEF AppendJob, job
    <3> QED BY <2>7, <2>8, <2>9, <3>1, <3>2
  <2>10. CASE ws[e.fd] = None /\ http[e.fd] # None
              /\ AppendJob(Job("http", e.ev, e.fd, http[e.fd]))
    <3> DEFINE job == Job("http", e.ev, e.fd, http[e.fd])
    <3>1. job \in Jobs /\ job.kind = "http" /\ job.fd = e.fd
      BY <1>t, <2>1, <2>2, <2>10, RecordTypes DEF Job
    <3> HIDE DEF job
    <3>2. work' = work /\ (jobs' = Append(jobs, job) \/ jobs' = jobs)
      BY <2>10 DEF AppendJob, job
    <3> QED BY <2>7, <2>8, <2>10, <3>1, <3>2
  <2> QED BY <2>1, <2>7, <2>9, <2>10
\* A step that leaves the queues, the events and the workers alone.
<1>u. ASSUME UNCHANGED <<accepted, pipe, events, msgs, tasks, poolVars>>,
             (batch' = Tail(batch) /\ batch # <<>>) \/ batch' = batch
      PROVE  /\ (Handled(fd)' <=> Handled(fd)) /\ (HandledWs(fd)' <=> HandledWs(fd))
             /\ (Reported(events, fd)' <=> Reported(events, fd))
             /\ (OnceReported(events, fd)' <=> OnceReported(events, fd))
             /\ (Coming(fd)' <=> Coming(fd)) /\ OneMessage(fd)' /\ OneHandler(fd)'
             /\ Has(batch', TasksOn(fd)) => Has(batch, TasksOn(fd))
             /\ Once(batch, TasksOn(fd)) => Once(batch', TasksOn(fd))
             /\ Upgrading(fd)' => Upgrading(fd)
  <2>1. OneMessage(fd)' /\ OneHandler(fd)'
    BY <1>f, <1>u DEF TokensAt, OneMessage, OneHandler
  <2>2. /\ Has(batch', TasksOn(fd)) => Has(batch, TasksOn(fd))
        /\ Once(batch, TasksOn(fd)) => Once(batch', TasksOn(fd))
        /\ Has(batch', UpgradesOn(fd)) => Has(batch, UpgradesOn(fd))
    BY <1>b, <1>u
  <2> QED BY <1>u, <2>1, <2>2 DEF Handled, HandledWs, Coming, Upgrading
<1>8. CASE HandleNewConnection
  <2> DEFINE m == Head(msgs)
  <2>1. /\ msgs # <<>> /\ m # Tick /\ m \in Elems(msgs)
        /\ m \in Messages /\ m.fd \in Fds /\ m.conn \in Conns
    BY <1>8, <1>t, ElemTails, ElemTypes, RecordTypes DEF HandleNewConnection
  <2>2. \A f : m \in NewOn(f) <=> f = m.fd
    BY <2>1 DEF NewOn
  <2>3. /\ Has(msgs, NewOn(m.fd))
        /\ Has(msgs', NewOn(fd)) => Has(msgs, NewOn(fd))
        /\ Once(msgs, NewOn(fd)) => Once(msgs', NewOn(fd))
        /\ fd = m.fd /\ Once(msgs, NewOn(fd)) => ~Has(msgs', NewOn(fd))
    <3>1. msgs' = Tail(msgs)
      BY <1>8 DEF HandleNewConnection
    <3> HIDE DEF m
    <3>2. Head(msgs) = m
      BY DEF m
    <3> QED BY <1>t, <2>1, <2>2, <3>1, <3>2, QueueTails
  <2>4. Coming(m.fd) /\ Quiet(m.fd) /\ sock[m.fd] = m.conn
    <3>1. Coming(m.fd)
      BY <2>3 DEF Coming
    <3> QED BY <2>1, <3>1 DEF Tokens, TokensAt, Owned
  <2>5. /\ UNCHANGED <<accepted, sock, pipe, events, batch, closing, tasks, ws,
                       poolVars>>
        /\ http' = [http EXCEPT ![m.fd] = m.conn]
        /\ \A c \in Conns : c # sock[m.fd] => armed'[c] = armed[c]
    BY <1>8, <1>t DEF HandleNewConnection
  <2> HIDE DEF m
  <2>6. /\ OneMessage(fd)' /\ OneHandler(fd)' /\ (Handled(fd)' <=> Handled(fd))
        /\ (HandledWs(fd)' <=> HandledWs(fd)) /\ (Coming(fd)' => Coming(fd))
        /\ (Upgrading(fd)' <=> Upgrading(fd))
    <3>1. OneMessage(fd)' /\ (Coming(fd)' => Coming(fd))
      BY <1>f, <2>3, <2>5 DEF TokensAt, OneMessage, Coming
    <3> QED BY <1>f, <2>5, <3>1 DEF TokensAt, OneHandler, Handled, HandledWs,
                                    Upgrading
  <2>7. CASE fd # m.fd
    <3>1. Ready(sock', armed', fd) => Ready(sock, armed, fd)
      BY <1>t, <2>1, <2>4, <2>5, <2>7 DEF Ready, Sockets
    <3> QED BY <1>s, <1>t, <2>1, <2>5, <2>6, <2>7, <3>1
  <2>8. CASE fd = m.fd
    <3>1. ~Coming(fd)'
      BY <1>f, <2>3, <2>4, <2>5, <2>8 DEF TokensAt, OneMessage, Coming
    <3>2. ~Acceptable(fd)' /\ sock'[fd] # None
      BY <1>t, <2>1, <2>4, <2>5, <2>8 DEF Acceptable
    <3>3. /\ ~Reported(events', fd) /\ ~Handled(fd)' /\ ~HandledWs(fd)'
          /\ ~Has(tasks', TasksOn(fd)) /\ ~Has(batch', TasksOn(fd))
          /\ ws'[fd] = None /\ closing' # fd
      BY <2>4, <2>5, <2>6, <2>8 DEF Quiet
    <3>4. Once(tasks', TasksOn(fd)) /\ Once(batch', TasksOn(fd))
          /\ OnceReported(events', fd)
      BY <3>3 DEF Has, Once, Reported, OnceReported
    <3>5. OneToken(fd)'
      BY <3>3, <3>4 DEF OneToken
    <3>6. http'[fd] # None
      BY <1>t, <2>1, <2>5, <2>8
    <3> QED BY <2>6, <3>1, <3>2, <3>3, <3>5, <3>6 DEF TokensAt
  <2> QED BY <2>7, <2>8
<1>9. CASE TickExpire \/ TickNothing
  <2>1. /\ msgs # <<>> /\ msgs' = Tail(msgs)
        /\ UNCHANGED <<kernelVars, pipe, events, batch, closing, tableVars, poolVars>>
    BY <1>9 DEF TickExpire, TickNothing
  <2>2. /\ Has(tasks', TasksOn(fd)) => Has(tasks, TasksOn(fd))
        /\ Once(tasks, TasksOn(fd)) => Once(tasks', TasksOn(fd))
        /\ Has(tasks', UpgradesOn(fd)) => Has(tasks, UpgradesOn(fd))
    <3>1. CASE tasks' = tasks
      BY <3>1
    <3>2. CASE timers # <<>> /\ tasks' = Append(tasks, Task("Timeout",
                                          Head(timers).fd, Head(timers).conn))
      <4> DEFINE t == Task("Timeout", Head(timers).fd, Head(timers).conn)
      <4>1. Head(timers) \in Timers
        BY <1>t, <3>2, ElemTails, ElemTypes
      <4>2. t \in Tasks
        BY <4>1, RecordTypes
      <4>3. t \notin TasksOn(fd) /\ t \notin UpgradesOn(fd)
        BY DEF Task, TasksOn, UpgradesOn
      <4> HIDE DEF t
      <4>4. tasks' = Append(tasks, t)
        BY <3>2 DEF t
      <4> QED BY <1>t, <4>2, <4>3, <4>4, QueueHas
    <3> QED BY <1>9, <3>1, <3>2 DEF TickExpire, TickNothing
  <2>3. /\ Has(msgs', NewOn(fd)) => Has(msgs, NewOn(fd))
        /\ Once(msgs, NewOn(fd)) => Once(msgs', NewOn(fd))
    BY <1>t, <2>1, QueueTails
  <2>4. OneMessage(fd)' /\ (Coming(fd)' => Coming(fd))
    BY <1>f, <2>1, <2>3 DEF TokensAt, OneMessage, Coming
  <2>5. OneHandler(fd)' /\ (Handled(fd)' <=> Handled(fd))
        /\ (HandledWs(fd)' <=> HandledWs(fd)) /\ (Upgrading(fd)' => Upgrading(fd))
    BY <1>f, <2>1, <2>2 DEF TokensAt, OneHandler, Handled, HandledWs, Upgrading
  <2> QED BY <1>s, <2>1, <2>2, <2>4, <2>5
<1>10. CASE TaskRearm
  <2> DEFINE d == Head(batch).fd
  <2>1. /\ batch # <<>> /\ batch' = Tail(batch)
        /\ UNCHANGED <<accepted, sock, pipe, events, msgs, closing, tasks,
                       tableVars, poolVars>>
        /\ \E ev \in {"in", "out"} : ModFd(d, ev)
        /\ d \in Fds /\ Head(batch) \in TasksOn(d)
    BY <1>10, <1>h DEF TaskRearm, Running, NextTask
  <2> HIDE DEF d
  <2>2. \A f \in Fds : Ready(sock', armed', f) => f = d \/ Ready(sock, armed, f)
    BY <2>1, KernelFacts
  <2>3. CASE fd # d
    BY <1>s, <1>u, <2>1, <2>2, <2>3
  <2>4. CASE fd = d
    <3>1. Has(batch, TasksOn(fd)) /\ ~Quiet(fd)
      BY <1>b, <2>1, <2>4 DEF Quiet
    <3>2. ASSUME OneToken(fd) PROVE OneToken(fd)'
      <4>1. Once(batch, TasksOn(fd)) /\ ~Has(tasks, TasksOn(fd))
            /\ ~Reported(events, fd) /\ ~Handled(fd)
        BY <3>1, <3>2 DEF OneToken
      <4>2. ~Has(batch', TasksOn(fd))
        BY <1>b, <2>1, <2>4, <4>1
      <4> QED BY <1>u, <2>1, <3>2, <4>1, <4>2 DEF OneToken
    <3> QED BY <1>f, <1>k, <1>u, <2>1, <3>1, <3>2 DEF TokensAt
  <2> QED BY <2>3, <2>4
<1>11. CASE TaskCloseWs \/ TaskUpgrade \/ TaskCloseHttp
  <2> DEFINE d == Head(batch).fd
  <2>1. /\ batch # <<>> /\ batch' = Tail(batch) /\ Head(batch) \in Tasks
        /\ UNCHANGED <<accepted, pipe, events, msgs, tasks, poolVars>>
        /\ d \in Fds /\ closing = None
        /\ Head(batch).act = "Timeout" => Timeouts /\ http[d] # None
        /\ Head(batch).act = "Upgrade" => Upgrades
    <3>1. /\ batch # <<>> /\ batch' = Tail(batch)
          /\ UNCHANGED <<accepted, pipe, events, msgs, tasks, poolVars>>
          /\ closing = None /\ (Head(batch).act = "Timeout" => http[d] # None)
      BY <1>11 DEF TaskCloseWs, TaskUpgrade, TaskCloseHttp, RunningClose, Running,
                   NextTask
    <3>2. Head(batch) \in Elems(batch)
      BY <1>t, <3>1, ElemTails
    <3> QED BY <1>h, <1>t, <3>1, <3>2 DEF Switched, NoTimeouts, NoUpgrades
  <2>2. /\ http'[d] \in {None, http[d]} /\ (http'[d] # None => ws[d] # None)
        /\ \A f \in Fds : f # d => http'[f] = http[f] /\ ws'[f] = ws[f]
        /\ closing' \in {None, d}
        /\ \/ CloseFd(d)
           \/ UNCHANGED sock /\ (UNCHANGED armed \/ ModFd(d, "in"))
    BY <1>11, <1>t, <2>1 DEF TaskCloseWs, TaskUpgrade, TaskCloseHttp
  <2>3. "fd" \in Reuse => /\ Head(batch) \in TasksOn(d) /\ CloseFd(d)
                          /\ http'[d] = None /\ ws' = ws /\ closing' = None
    <3> SUFFICES ASSUME "fd" \in Reuse
                 PROVE  /\ Head(batch) \in TasksOn(d) /\ CloseFd(d)
                        /\ http'[d] = None /\ ws' = ws /\ closing' = None
      OBVIOUS
    <3>1. /\ Head(batch).act \notin {"Timeout", "Upgrade"}
          /\ ws[d] = None
      <4>1. Head(batch) \in Elems(batch)
        BY <1>t, <2>1, ElemTails
      <4>2. NoTimeouts /\ NoUpgrades
        BY <1>r
      <4> QED BY <2>1, <4>1, <4>2 DEF NoTimeouts, NoUpgrades
    <3>2. TaskCloseHttp
      BY <1>11, <3>1 DEF TaskCloseWs, TaskUpgrade, Running
    <3>3. Head(batch) \in TasksOn(d)
      BY <1>h, <2>1, <3>1
    <3> QED BY <1>t, <2>1, <3>2, <3>3 DEF TaskCloseHttp
  <2> HIDE DEF d
  <2>4. \A f \in Fds : Ready(sock', armed', f) =>
                        Ready(sock, armed, f) \/ (f = d /\ ~CloseFd(d))
    <3>1. CASE CloseFd(d)
      BY <2>1, <3>1, KernelFacts
    <3>2. CASE UNCHANGED sock /\ ModFd(d, "in") /\ ~CloseFd(d)
      BY <2>1, <3>2, KernelFacts
    <3>3. CASE UNCHANGED <<sock, armed>>
      BY <3>3
    <3> QED BY <2>2, <3>1, <3>2, <3>3
  <2>5. /\ \A f \in Fds : f # d => sock'[f] = sock[f]
        /\ sock'[d] \in {None, sock[d]}
    BY <1>t, <2>1, <2>2 DEF CloseFd
  <2>6. CASE fd # d
    BY <1>s, <1>t, <1>u, <2>1, <2>2, <2>4, <2>5, <2>6
  <2>7. CASE fd = d
    <3>1. ~Quiet(fd)
      BY <1>h, <1>b, <2>1, <2>7 DEF Quiet, d
    <3>2. CASE "fd" \notin Reuse
      <4>1. http'[fd] = None
        BY <1>f, <2>2, <2>7 DEF TokensAt
      <4>2. Timeouts \/ (~Handled(fd)' /\ ~Upgrading(fd)')
        <5> SUFFICES ASSUME ~Timeouts PROVE ~Handled(fd)' /\ ~Upgrading(fd)'
          OBVIOUS
        <5>1. CASE http[fd] = None
          BY <1>f, <1>u, <2>1, <5>1 DEF TokensAt
        <5>2. CASE http[fd] # None
          <6>1. Has(batch, TasksOn(fd)) /\ Head(batch) \in TasksOn(fd)
            BY <1>b, <1>h, <1>t, <2>1, <2>7 DEF d
          <6>2. OneToken(fd)
            BY <1>f, <5>2 DEF TokensAt
          <6>3. ~Handled(fd) /\ ~Has(tasks, TasksOn(fd)) /\ ~Has(batch', TasksOn(fd))
            BY <1>b, <2>1, <6>1, <6>2 DEF OneToken
          <6> QED BY <1>g, <1>u, <2>1, <6>3
        <5> QED BY <5>1, <5>2
      <4>3. closing' = fd => ws'[fd] = None
        BY <1>11, <1>t, <2>1, <2>7
           DEF TaskCloseWs, TaskUpgrade, TaskCloseHttp, d
      <4> QED BY <1>q, <1>u, <2>1, <2>5, <2>7, <3>1, <3>2, <4>1, <4>2, <4>3
    <3>3. CASE "fd" \in Reuse
      <4>1. http[fd] # None /\ OneToken(fd) /\ ~Coming(fd) /\ ~HandledWs(fd)
            /\ ws[fd] = None
        BY <1>f, <3>1, <3>3 DEF TokensAt
      <4>2. Has(batch, TasksOn(fd)) /\ ~Has(batch', TasksOn(fd))
        BY <1>b, <2>1, <2>3, <2>7, <3>3, <4>1 DEF OneToken
      <4>3. /\ ~Ready(sock', armed', fd) /\ ~Reported(events, fd)
            /\ ~Handled(fd) /\ ~Has(tasks, TasksOn(fd))
        BY <2>3, <2>4, <2>7, <3>3, <4>1, <4>2 DEF OneToken
      <4>4. Quiet(fd)'
        BY <1>t, <1>u, <2>1, <2>3, <2>7, <3>3, <4>1, <4>2, <4>3 DEF Quiet
      <4> QED BY <1>g, <1>t, <1>u, <2>1, <2>3, <2>7, <3>3, <4>1, <4>4 DEF TokensAt
    <3> QED BY <3>2, <3>3
  <2> QED BY <2>6, <2>7
<1>12. CASE RemoveFd
  <2> DEFINE d == closing
  <2>1. /\ d \in Fds /\ CloseFd(d) /\ closing' = None
        /\ UNCHANGED <<accepted, pipe, events, msgs, batch, tasks, poolVars, tableVars>>
        /\ "fd" \notin Reuse
    BY <1>12, <1>r, <1>t DEF RemoveFd, NoUpgrades, TypeOK
  <2>2. \A f \in Fds : Ready(sock', armed', f) => Ready(sock, armed, f)
    <3> HIDE DEF d
    <3> QED BY <2>1, KernelFacts
  <2>3. sock' = [sock EXCEPT ![d] = None]
    BY <2>1 DEF CloseFd
  <2>4. CASE fd # d
    <3>1. closing' # fd
      BY <1>t, <2>1
    <3> QED BY <1>s, <1>t, <1>u, <2>1, <2>2, <2>3, <2>4, <3>1
  <2>5. CASE fd = d
    <3>1. ~Quiet(fd) /\ http[fd] = None
      BY <1>f, <2>5 DEF Quiet, TokensAt
    <3>2. Timeouts \/ (~Handled(fd)' /\ ~Upgrading(fd)')
      BY <1>f, <1>u, <2>1, <3>1 DEF TokensAt
    <3>3. closing' # fd
      BY <1>t, <2>1
    <3> QED BY <1>q, <1>t, <1>u, <2>1, <2>3, <2>5, <3>1, <3>2, <3>3
  <2> QED BY <2>4, <2>5
<1>13. CASE TaskTimeoutGone
  <2>1. /\ batch # <<>> /\ batch' = Tail(batch)
        /\ UNCHANGED <<kernelVars, pipe, events, msgs, tasks, poolVars, closing,
                       tableVars>>
    BY <1>13 DEF TaskTimeoutGone, Running, NextTask
  <2> QED BY <1>s, <1>u, <2>1
\* A step of a worker that keeps its job or its place.
<1>w. ASSUME NEW w \in Workers, \A v \in Workers \ {w} : work'[v] = work[v],
             work'[w].job = work[w].job, jobs' = jobs
      PROVE  /\ (Handled(fd)' <=> Handled(fd)) /\ (HandledWs(fd)' <=> HandledWs(fd))
             /\ OneHandler(fd)'
  <2>1. /\ \A kind : Held(work', kind, fd) <=> Held(work, kind, fd)
        /\ OnceHeld(work, fd) => OnceHeld(work', fd)
    BY <1>w, HeldFacts
  <2> QED BY <1>f, <1>w, <2>1 DEF Handled, HandledWs, OneHandler, TokensAt
<1>14. ASSUME NEW w \in Workers, HttpRead(w) \/ HttpWrite(w) \/ WsHandler(w)
       PROVE  TokensAt(fd)'
  <2>1. /\ UNCHANGED <<kernelVars, pipe, loopVars, tasks, tableVars, jobs>>
        /\ \E act : Return(w, act)
    BY <1>14 DEF HttpRead, HttpWrite, WsHandler
  <2>2. work'[w].job = work[w].job /\ \A v \in Workers \ {w} : work'[v] = work[v]
    BY <1>t, <2>1 DEF Return
  <2>3. /\ (Handled(fd)' <=> Handled(fd)) /\ (HandledWs(fd)' <=> HandledWs(fd))
        /\ OneHandler(fd)'
    BY <1>w, <2>1, <2>2
  <2>4. OneMessage(fd)' /\ (Coming(fd)' <=> Coming(fd))
        /\ (Upgrading(fd)' <=> Upgrading(fd))
    BY <1>f, <2>1 DEF TokensAt, OneMessage, Coming, Upgrading
  <2> QED BY <1>s, <2>1, <2>3, <2>4
<1>15. ASSUME NEW w \in Workers, WorkerTake(w)
       PROVE  TokensAt(fd)'
  <2> DEFINE job == Head(jobs)
  <2>1. /\ UNCHANGED <<kernelVars, pipe, loopVars, tasks, tableVars>>
        /\ jobs # <<>> /\ jobs' = Tail(jobs) /\ work[w].job = NoJob
        /\ work'[w].job = job /\ \A v \in Workers \ {w} : work'[v] = work[v]
    BY <1>15, <1>t DEF WorkerTake, Phases
  <2>2. \A kind : /\ Has(jobs', JobsOn(kind, fd)) => Has(jobs, JobsOn(kind, fd))
                  /\ job \in JobsOn(kind, fd) => Has(jobs, JobsOn(kind, fd))
                  /\ Once(jobs, JobsOn(kind, fd)) => Once(jobs', JobsOn(kind, fd))
                  /\ Once(jobs, JobsOn(kind, fd)) /\ job \in JobsOn(kind, fd)
                       => ~Has(jobs', JobsOn(kind, fd))
    BY <1>t, <2>1, QueueTails
  <2> HIDE DEF job
  <2>3. /\ \A kind : Held(work', kind, fd)
             <=> Held(work, kind, fd) \/ job \in JobsOn(kind, fd)
        /\ OnceHeld(work, fd) /\ (job \in JobsOn("http", fd) =>
                                              ~Held(work, "http", fd))
             => OnceHeld(work', fd)
    BY <2>1, HeldFacts
  <2>4. /\ (Handled(fd)' => Handled(fd)) /\ (HandledWs(fd)' => HandledWs(fd))
    BY <2>2, <2>3 DEF Handled, HandledWs
  <2>5. OneHandler(fd)'
    BY <1>f, <2>2, <2>3 DEF OneHandler, TokensAt
  <2>6. OneMessage(fd)' /\ (Coming(fd)' <=> Coming(fd))
        /\ (Upgrading(fd)' <=> Upgrading(fd))
    BY <1>f, <2>1 DEF TokensAt, OneMessage, Coming, Upgrading
  <2> QED BY <1>s, <2>1, <2>4, <2>5, <2>6
<1>16. ASSUME NEW w \in Workers, WsBroadcast(w)
       PROVE  TokensAt(fd)'
  <2>1. PICK d \in {f \in Fds : ws[f] # None} :
          tasks' = Append(tasks, Task("Write", d, ws[d]))
    BY <1>16 DEF WsBroadcast
  <2>2. /\ UNCHANGED <<kernelVars, pipe, loopVars, tableVars, poolVars>>
        /\ "fd" \notin Reuse
    BY <1>16, <1>r, <1>t, <2>1 DEF WsBroadcast, NoUpgrades
  <2>3. OneMessage(fd)' /\ (Coming(fd)' <=> Coming(fd))
    BY <1>f, <2>2 DEF TokensAt, OneMessage, Coming
  <2>4. /\ (Handled(fd)' <=> Handled(fd)) /\ (HandledWs(fd)' <=> HandledWs(fd))
        /\ OneHandler(fd)'
    BY <1>f, <2>2 DEF TokensAt, Handled, HandledWs, OneHandler
  <2>5. Task("Write", d, ws[d]) \in Tasks
    BY <1>t, RecordTypes DEF Actions
  <2>6. Task("Write", d, ws[d]) \notin UpgradesOn(fd)
    BY DEF Task, UpgradesOn
  <2>7. Upgrading(fd)' <=> Upgrading(fd)
    BY <1>t, <2>1, <2>2, <2>5, <2>6, QueueHas DEF Upgrading
  <2>8. CASE fd = d
    <3>1. ~Quiet(fd) /\ http[fd] = None /\ closing # fd
      BY <1>f, <2>8 DEF Quiet, TokensAt
    <3>2. Timeouts \/ (~Handled(fd) /\ ~Upgrading(fd))
      BY <1>f, <3>1 DEF TokensAt
    <3> QED BY <1>q, <2>2, <2>3, <2>4, <2>7, <3>1, <3>2
  <2>9. CASE fd # d
    <3>2. Task("Write", d, ws[d]) \notin TasksOn(fd)
      BY <2>9 DEF Task, TasksOn
    <3>3. /\ Has(tasks', TasksOn(fd)) => Has(tasks, TasksOn(fd))
          /\ Once(tasks, TasksOn(fd)) => Once(tasks', TasksOn(fd))
      BY <1>t, <2>1, <2>5, <3>2, QueueHas
    <3> QED BY <1>s, <2>2, <2>3, <2>4, <2>7, <3>3
  <2> QED BY <2>8, <2>9
<1>17. ASSUME NEW w \in Workers, WorkerPost(w)
       PROVE  TokensAt(fd)'
  <2> DEFINE job == work[w].job
             task == Task(work[w].act, job.fd, job.conn)
  <2>1. /\ work[w] \in [at : {"idle", "handler", "post", "drop"},
                        job : Jobs \cup {NoJob}, act : Actions]
        /\ work[w].at = "post" /\ job \in Jobs
    BY <1>17, <1>t, WorkTypes DEF WorkerPost
  <2>2. /\ UNCHANGED <<kernelVars, pipe, loopVars, tableVars, jobs>>
        /\ tasks' = Append(tasks, task)
        /\ \A v \in Workers \ {w} : work'[v] = work[v]
        /\ IF job.kind = "ws" THEN work'[w].job = job ELSE work'[w].job = NoJob
    BY <1>17, <1>t DEF WorkerPost, Idle
  <2>3. /\ job.fd \in Fds /\ job.conn \in Conns /\ job.kind \in {"http", "ws"}
        /\ task \in Tasks
        /\ \A f : task \in TasksOn(f) <=> f = job.fd
        /\ \A f : task \in UpgradesOn(f) => f = job.fd /\ job.kind = "http"
        /\ \A f, kind : job \in JobsOn(kind, f) <=> job.fd = f /\ job.kind = kind
    <3>1. job.fd \in Fds /\ job.conn \in Conns /\ job.kind \in {"http", "ws"}
      BY <2>1, RecordTypes
    <3>2. task \in Tasks
      BY <2>1, <3>1, RecordTypes
    <3>3. task.act # "Timeout" /\ task.fd = job.fd
      BY <2>1 DEF Task, Actions
    <3>4. task.act = "Upgrade" => job.kind = "http"
      BY <1>t, <2>1, <3>1 DEF PostActs, Task
    <3> QED BY <2>1, <3>1, <3>2, <3>3, <3>4 DEF TasksOn, UpgradesOn, JobsOn
  <2> HIDE DEF task
  <2>4. /\ Has(tasks', TasksOn(fd)) <=> Has(tasks, TasksOn(fd)) \/ fd = job.fd
        /\ Once(tasks, TasksOn(fd)) /\ (fd = job.fd => ~Has(tasks, TasksOn(fd)))
             => Once(tasks', TasksOn(fd))
    BY <1>t, <2>2, <2>3, QueueHas
  <2>u. Upgrading(fd)' => Upgrading(fd) \/ (fd = job.fd /\ job.kind = "http")
    BY <1>t, <2>2, <2>3, QueueHas DEF Upgrading
  <2>5. OneMessage(fd)' /\ (Coming(fd)' <=> Coming(fd))
    BY <1>f, <2>2 DEF TokensAt, OneMessage, Coming
  <2>6. /\ \A kind : Held(work', kind, fd) => Held(work, kind, fd)
        /\ OnceHeld(work, fd) => OnceHeld(work', fd)
        /\ OnceHeld(work, fd) /\ job \in JobsOn("http", fd)
             => ~Held(work', "http", fd)
    <3>1. CASE job.kind = "ws"
      <4>1. work'[w].job = work[w].job
        BY <2>2, <3>1
      <4>2. /\ \A kind : Held(work', kind, fd) <=> Held(work, kind, fd)
            /\ OnceHeld(work, fd) => OnceHeld(work', fd)
        BY <2>2, <4>1, HeldFacts
      <4> QED BY <2>3, <3>1, <4>2
    <3>2. CASE job.kind = "http"
      BY <2>2, <2>3, <3>2, HeldFacts
    <3> QED BY <2>3, <3>1, <3>2
  <2>7. /\ OneHandler(fd)' /\ (Handled(fd)' => Handled(fd))
        /\ (HandledWs(fd)' => HandledWs(fd))
    BY <1>f, <2>2, <2>6 DEF OneHandler, TokensAt, Handled, HandledWs
  <2>8. CASE fd # job.fd
    BY <1>s, <2>2, <2>4, <2>5, <2>7, <2>8, <2>u
  <2>9. CASE fd = job.fd /\ job.kind = "ws"
    <3>1. HandledWs(fd) /\ ~Quiet(fd)
      BY <2>3, <2>9 DEF HandledWs, Held, Quiet
    <3>2. http[fd] = None /\ "fd" \notin Reuse
      BY <1>f, <1>r, <2>9, <3>1 DEF TokensAt, NoUpgrades
    <3>3. Timeouts \/ (~Handled(fd)' /\ ~Upgrading(fd)')
      BY <1>f, <2>7, <2>9, <2>u, <3>2 DEF TokensAt
    <3>4. closing' = fd => ws'[fd] = None
      BY <1>f, <2>2 DEF TokensAt
    <3> QED BY <1>q, <2>2, <2>5, <2>7, <3>1, <3>2, <3>3, <3>4
  <2>10. CASE fd = job.fd /\ job.kind = "http"
    <3>1. Held(work, "http", fd)
      BY <2>3, <2>10 DEF Held
    <3>2. Handled(fd) /\ ~Quiet(fd)
      BY <3>1 DEF Handled, Quiet
    <3>3. ~Handled(fd)'
      BY <1>f, <2>2, <2>3, <2>6, <2>10, <3>1 DEF TokensAt, OneHandler, Handled
    <3>4. OneToken(fd) => OneToken(fd)'
      BY <2>2, <2>4, <3>2, <3>3 DEF OneToken
    <3>5. CASE http[fd] # None
      BY <1>f, <1>k, <2>2, <2>5, <2>7, <3>2, <3>4, <3>5 DEF TokensAt
    <3>6. CASE http[fd] = None
      <4>1. Timeouts /\ "fd" \notin Reuse
        BY <1>f, <3>2, <3>6 DEF TokensAt
      <4>2. closing' = fd => ws'[fd] = None
        BY <1>f, <2>2 DEF TokensAt
      <4> QED BY <1>q, <2>2, <2>5, <2>7, <3>2, <3>6, <4>1, <4>2
    <3> QED BY <3>5, <3>6
  <2> QED BY <2>3, <2>8, <2>9, <2>10
<1>18. ASSUME NEW w \in Workers, WorkerDrop(w)
       PROVE  TokensAt(fd)'
  <2> DEFINE job == work[w].job
  <2>1. job \in Jobs /\ job.kind = "ws" /\ job.fd \in Fds
    BY <1>18, WorkTypes, RecordTypes DEF WorkerDrop
  <2>2. /\ UNCHANGED <<accepted, pipe, loopVars, tasks, tableVars, jobs>>
        /\ work'[w].job = NoJob /\ \A v \in Workers \ {w} : work'[v] = work[v]
        /\ CloseFd(job.fd) \/ UNCHANGED <<sock, armed>>
    BY <1>18, <1>t DEF WorkerDrop, Idle
  <2> HIDE DEF job
  <2>3. OneMessage(fd)' /\ (Coming(fd)' <=> Coming(fd))
        /\ (Upgrading(fd)' <=> Upgrading(fd))
    BY <1>f, <2>2 DEF TokensAt, OneMessage, Coming, Upgrading
  <2>4. /\ \A kind : Held(work', kind, fd) => Held(work, kind, fd)
        /\ OnceHeld(work, fd) => OnceHeld(work', fd)
    BY <2>2, HeldFacts
  <2>5. /\ OneHandler(fd)' /\ (Handled(fd)' => Handled(fd))
        /\ (HandledWs(fd)' => HandledWs(fd))
    BY <1>f, <2>2, <2>4 DEF OneHandler, TokensAt, Handled, HandledWs
  <2>6. \A f \in Fds : Ready(sock', armed', f) => Ready(sock, armed, f)
    BY <2>1, <2>2, KernelFacts
  <2>7. /\ \A f \in Fds : f # job.fd => sock'[f] = sock[f]
        /\ sock'[job.fd] \in {None, sock[job.fd]}
    BY <1>t, <2>1, <2>2 DEF CloseFd
  <2>8. CASE fd # job.fd
    BY <1>s, <2>2, <2>3, <2>5, <2>6, <2>7, <2>8
  <2>9. CASE fd = job.fd
    <3>1. HandledWs(fd) /\ ~Quiet(fd)
      BY <2>1, <2>9 DEF HandledWs, Held, Quiet, JobsOn, job
    <3>2. http[fd] = None /\ "fd" \notin Reuse
      BY <1>f, <1>r, <2>1, <3>1 DEF TokensAt, NoUpgrades, job
    <3>3. Timeouts \/ (~Handled(fd)' /\ ~Upgrading(fd)')
      BY <1>f, <2>3, <2>5, <3>2 DEF TokensAt
    <3>4. closing' = fd => ws'[fd] = None
      BY <1>f, <2>2 DEF TokensAt
    <3> QED BY <1>q, <2>2, <2>3, <2>5, <2>7, <2>9, <3>1, <3>2, <3>3, <3>4
  <2> QED BY <2>8, <2>9
<1>19. CASE UNCHANGED <<kernelVars, pipe, events, msgs, batch, closing, tasks,
                        tableVars, poolVars>>
  <2>1. OneMessage(fd)' /\ (Coming(fd)' <=> Coming(fd))
        /\ (Upgrading(fd)' <=> Upgrading(fd))
    BY <1>f, <1>19 DEF TokensAt, OneMessage, Coming, Upgrading
  <2>2. /\ (Handled(fd)' <=> Handled(fd)) /\ (HandledWs(fd)' <=> HandledWs(fd))
        /\ OneHandler(fd)'
    BY <1>f, <1>19 DEF TokensAt, Handled, HandledWs, OneHandler
  <2> QED BY <1>s, <1>19, <2>1, <2>2
<1> QED
  BY <1>1, <1>2, <1>3, <1>4, <1>5, <1>6, <1>7, <1>8, <1>9, <1>10, <1>11, <1>12,
     <1>13, <1>14, <1>15, <1>16, <1>17, <1>18, <1>19
     DEF Next, MainReactor, Dispatch, Worker, vars, DispatchDone, MsgsDone,
         WakeupDone

\* At the start nothing speaks of any descriptor.
LEMMA TokensStart ==
  Init => Owned /\ Sockets /\ Tokens
<1> SUFFICES ASSUME Init PROVE Owned /\ Sockets /\ Tokens
  OBVIOUS
<1>1. \A S : ~Has(<<>>, S) /\ Once(<<>>, S)
  BY HasEmpty
<1>2. Elems(<<>>) = {}
  BY ElemsEmpty
<1>3. \A kind, fd : ~Held(work, kind, fd)
  BY RecordTypes DEF Init, Idle, Held, JobsOn
<1>4. Owned
  BY <1>2 DEF Init, Owned, Idle
<1>5. Sockets
  BY <1>2 DEF Init, Sockets
<1>6. \A fd \in Fds : ~Ready(sock, armed, fd)
  BY DEF Init, Ready
<1>7. \A fd \in Fds : Quiet(fd) /\ ~Coming(fd)
  BY <1>1, <1>3, <1>6
     DEF Init, Quiet, Coming, Handled, HandledWs, Reported, None, Fds
<1>8. \A fd \in Fds : OneMessage(fd) /\ OneHandler(fd)
  BY <1>1, <1>3 DEF Init, OneMessage, OneHandler, OnceHeld, Held
<1>9. \A fd \in Fds : ~Handled(fd) /\ ~Upgrading(fd)
  BY <1>7, UpgradesAreTasks DEF Quiet, Upgrading
<1>10. Tokens
  BY <1>7, <1>8, <1>9 DEF Init, Tokens, TokensAt
<1> QED BY <1>4, <1>5, <1>10

\* The sockets, the owners and the one shots, as an invariant.
LEMMA Ownership ==
  ASSUME Exclusive
  PROVE  Safe => [](Typed /\ Owned /\ Sockets /\ Tokens)
<1> DEFINE I == Owned /\ Sockets /\ Tokens
<1>1. Safe => []Typed
  BY Typing, SwitchedStays, PostActsStays, PTL DEF Typed
<1>2. Init => I
  BY TokensStart
<1>3. Typed /\ I /\ [Next]_vars => I'
  BY OwnedStep, SocketsStep, TokensStep
<1> HIDE DEF I
<1>4. Safe => []I
  BY <1>1, <1>2, <1>3, PTL DEF Safe
<1> QED BY <1>1, <1>4, PTL DEF I

-----------------------------------------------------------------------------
(* What follows from them. *)

\* Every variable of the reactor, of its tables and of its pool keeps its
\* type, and the pool its bound, whatever the switches are.
THEOREM TypeCorrect == Safe => []TypeOK
  BY Typing, PTL

\* handle_action applies an action to the connection it was decided for, or
\* finds the descriptor closed.
THEOREM ActionsHitOwnerHolds ==
  ASSUME Exclusive
  PROVE  Safe => []ActionsHitOwner
<1>1. Typed /\ Owned /\ Sockets => ActionsHitOwner
  <2> SUFFICES ASSUME Typed, Owned, Sockets, batch # <<>>
               PROVE  sock[Head(batch).fd] \in {None, Head(batch).conn}
    BY DEF ActionsHitOwner
  <2>1. Head(batch) \in Elems(batch) /\ Head(batch) \in Tasks
    BY ElemTails, ElemTypes DEF Typed
  <2>2. Head(batch).fd \in Fds /\ Belongs(Head(batch).fd, Head(batch).conn)
    BY <2>1, RecordTypes DEF Owned
  <2> QED BY <2>2 DEF Belongs, Sockets
<1> QED BY <1>1, Ownership, PTL

\* A handler reads and writes the socket of the connection whose object it
\* has, or finds the descriptor closed.
THEOREM IoOnOwnSocketHolds ==
  ASSUME Exclusive
  PROVE  Safe => []IoOnOwnSocket
<1>1. Typed /\ Owned /\ Sockets => IoOnOwnSocket
  <2> SUFFICES ASSUME Typed, Owned, Sockets, NEW w \in Workers, work[w].at = "handler"
               PROVE  sock[work[w].job.fd] \in {None, work[w].job.conn}
    BY DEF IoOnOwnSocket
  <2>1. work[w].job.fd \in Fds /\ Belongs(work[w].job.fd, work[w].job.conn)
    BY WorkTypes, RecordTypes DEF Owned
  <2> QED BY <2>1 DEF Belongs, Sockets
<1> QED BY <1>1, Ownership, PTL

\* A set whose elements are equal has at most one.
LEMMA AtMostOne ==
  ASSUME NEW S, \A x, y \in S : x = y
  PROVE  Cardinality(S) \in 0 .. 1 /\ (S = {} => Cardinality(S) = 0)
<1>1. CASE S = {}
  BY <1>1, FS_EmptySet
<1>2. CASE S # {}
  <2>1. PICK x \in S : S = {x}
    BY <1>2
  <2> QED BY <2>1, FS_Singleton
<1> QED BY <1>1, <1>2

\* Two jobs for the HttpConnection of c are jobs for one descriptor.
LEMMA OneDescriptor ==
  ASSUME Typed, Owned, Sockets, NEW c \in Conns
  PROVE  \A i, j \in Elems(jobs) \cup {work[w].job : w \in Workers} :
           i \in Jobs /\ j \in Jobs /\ i.conn = c /\ j.conn = c
             => i.fd = j.fd
<1> SUFFICES ASSUME NEW i \in Jobs, NEW j \in Jobs, i.conn = c, j.conn = c,
                    i \in Elems(jobs) \cup {work[w].job : w \in Workers},
                    j \in Elems(jobs) \cup {work[w].job : w \in Workers}
             PROVE  i.fd = j.fd
  OBVIOUS
<1>1. \A w \in Workers : work[w].job \in Jobs => work[w].at # "idle"
  BY WorkTypes
<1>2. /\ Belongs(i.fd, c) /\ Belongs(j.fd, c)
      /\ i.fd \in Fds /\ j.fd \in Fds /\ c # None
  BY <1>1, RecordTypes DEF Owned, Conns, None
<1> QED BY <1>2 DEF Belongs, Sockets

\* One worker at a time has the job of an HttpConnection, be it waiting in
\* m_workqueue or in a handler: the one shot has one taker.
THEOREM HandlersExclusiveHolds ==
  ASSUME Exclusive
  PROVE  Safe => []HandlersExclusive
<1>1. Typed /\ Owned /\ Sockets /\ Tokens => HandlersExclusive
  <2> SUFFICES ASSUME Typed, Owned, Sockets, Tokens, NEW c \in Conns
               PROVE  InHandler(c) <= 1
    BY DEF HandlersExclusive
  <2> DEFINE A == {i \in 1 .. Len(jobs) : jobs[i].kind = "http" /\ jobs[i].conn = c}
             B == {w \in Workers : /\ work[w].at = "handler"
                                   /\ work[w].job.kind = "http"
                                   /\ work[w].job.conn = c}
  <2>1. \A i \in A : jobs[i] \in Elems(jobs) /\ jobs[i] \in Jobs
    BY ElemTypes DEF Elems, Typed
  <2>2. \A w \in B : work[w].job \in Jobs
    BY WorkTypes
  <2>3. \A i \in A : jobs[i] \in JobsOn("http", jobs[i].fd) /\ jobs[i].fd \in Fds
    BY <2>1, RecordTypes DEF JobsOn
  <2>4. \A w \in B : /\ work[w].job \in JobsOn("http", work[w].job.fd)
                      /\ work[w].job.fd \in Fds
    BY <2>2, RecordTypes DEF JobsOn
  <2>5. \A i, j \in A : jobs[i].fd = jobs[j].fd
    BY <2>1, OneDescriptor
  <2>6. \A v, w \in B : work[v].job.fd = work[w].job.fd
    BY <2>2, OneDescriptor
  <2>7. \A i \in A, w \in B : jobs[i].fd = work[w].job.fd
    BY <2>1, <2>2, OneDescriptor
  <2>8. \A fd \in Fds : OneHandler(fd)
    BY DEF Tokens, TokensAt
  <2>9. \A i, j \in A : i = j
    BY <2>3, <2>5, <2>8 DEF OneHandler, Once
  <2>10. \A v, w \in B : v = w
    BY <2>4, <2>6, <2>8 DEF OneHandler, OnceHeld
  <2>11. A = {} \/ B = {}
    BY <2>3, <2>4, <2>7, <2>8 DEF OneHandler, Has, Held
  <2> HIDE DEF A, B
  <2>12. /\ Cardinality(A) \in 0 .. 1 /\ (A = {} => Cardinality(A) = 0)
         /\ Cardinality(B) \in 0 .. 1 /\ (B = {} => Cardinality(B) = 0)
    BY <2>9, <2>10, AtMostOne
  <2>13. Cardinality(A) + Cardinality(B) <= 1
    BY <2>11, <2>12
  <2> QED BY <2>13 DEF InHandler, A, B
<1> QED BY <1>1, Ownership, PTL

-----------------------------------------------------------------------------
(* The tables and the sockets. *)

\* Descriptor numbers are not handed out again, and connections are closed by
\* timers or become WebSocket connections, not both; or neither happens.
Calm == \/ "fd" \notin Reuse /\ ~(Timeouts /\ Upgrades)
        \/ ~Timeouts /\ ~Upgrades

NewOf(c) == {m \in Messages : m # Tick /\ m.conn = c}

\* A connection is on its way when a message about it is in the pipe or read.
LEMMA WayIsHas ==
  TypeOK => \A c : OnItsWay(c) <=> Has(pipe, NewOf(c)) \/ Has(msgs, NewOf(c))
<1> SUFFICES ASSUME TypeOK, NEW c
             PROVE  OnItsWay(c) <=> Has(pipe, NewOf(c)) \/ Has(msgs, NewOf(c))
  OBVIOUS
<1>1. \A q \in {pipe, msgs} : \A i \in 1 .. Len(q) : q[i] \in Messages
  BY DEF TypeOK
<1> QED BY <1>1 DEF OnItsWay, Has, NewOf

\* Messages and tasks that are taken, other than the first.
LEMMA TailKeeps ==
  TypeOK =>
    /\ msgs # <<>> => \A S : Has(msgs, S) /\ Head(msgs) \notin S => Has(Tail(msgs), S)
    /\ batch # <<>> => \A S : Has(batch, S) /\ Head(batch) \notin S => Has(Tail(batch), S)
<1>1. ASSUME NEW T, NEW q \in Seq(T), q # <<>>, NEW S, Head(q) \notin S, Has(q, S)
      PROVE  Has(Tail(q), S)
  <2>1. PICK i \in 1 .. Len(q) : q[i] \in S
    BY <1>1 DEF Has
  <2>2. /\ Len(Tail(q)) = Len(q) - 1 /\ Head(q) = q[1] /\ Len(q) \in Nat
        /\ \A j \in 1 .. Len(Tail(q)) : Tail(q)[j] = q[j + 1]
    BY <1>1, HeadTailProperties
  <2>3. i # 1
    BY <1>1, <2>1, <2>2
  <2>4. i - 1 \in 1 .. Len(Tail(q)) /\ Tail(q)[i - 1] \in S
    BY <2>1, <2>2, <2>3
  <2> QED BY <2>4 DEF Has
<1> QED BY <1>1 DEF TypeOK

\* A step that keeps the one shots in place keeps the tables and the sockets
\* together.
LEMMA TablesStep ==
  ASSUME Calm, Typed, Owned, Sockets, Tokens, TablesMatchSockets, Typed',
         [Next]_vars
  PROVE  TablesMatchSockets'
<1> DEFINE TableAt(fd) ==
             /\ http[fd] # None => http[fd] = sock[fd] /\ ws[fd] = None
             /\ ws[fd] # None => ws[fd] = sock[fd]
             /\ sock[fd] # None =>
                  \/ http[fd] # None \/ ws[fd] # None \/ closing = fd
                  \/ OnItsWay(sock[fd])
<1> SUFFICES ASSUME NEW fd \in Fds PROVE TableAt(fd)'
  BY DEF TablesMatchSockets
<1> USE DEF kernelVars, loopVars, tableVars, connVars, timerVars, poolVars
<1>t. /\ TypeOK /\ Phases /\ Switched /\ TypeOK'
      /\ sock \in [Fds -> {None} \cup Conns]
      /\ http \in [Fds -> {None} \cup Conns] /\ ws \in [Fds -> {None} \cup Conns]
      /\ accepted \in Nat /\ None \notin Conns /\ None \notin Fds
  <2>1. None \notin Conns /\ None \notin Fds
    BY DEF None, Conns, Fds
  <2> QED BY SMTT(40), <2>1 DEF Typed, TypeOK
<1>f. TableAt(fd) /\ TokensAt(fd)
  BY DEF TablesMatchSockets, Tokens
<1>r. "fd" \in Reuse => NoTimeouts /\ NoUpgrades
  BY <1>t DEF Calm, Switched
<1>h. batch # <<>> => /\ Head(batch) \in Elems(batch) /\ Head(batch) \in Tasks
                      /\ Head(batch).fd \in Fds
  BY <1>t, ElemTails, ElemTypes, RecordTypes
<1>w. /\ \A c : OnItsWay(c) <=> Has(pipe, NewOf(c)) \/ Has(msgs, NewOf(c))
      /\ \A c : OnItsWay(c)' <=> Has(pipe', NewOf(c)) \/ Has(msgs', NewOf(c))
  <2>1. \A c : OnItsWay(c) <=> Has(pipe, NewOf(c)) \/ Has(msgs, NewOf(c))
    BY <1>t, WayIsHas
  <2>2. (\A c : OnItsWay(c) <=> Has(pipe, NewOf(c)) \/ Has(msgs, NewOf(c)))'
    BY <1>t, WayIsHas, PTL
  <2> QED BY <2>1, <2>2
\* The entries of the descriptor and its socket stay.
<1>s. ASSUME http'[fd] = http[fd], ws'[fd] = ws[fd], sock'[fd] = sock[fd],
             closing = fd => closing' = fd,
             \A c : c = sock[fd] /\ c # None /\ OnItsWay(c) => OnItsWay(c)'
      PROVE  TableAt(fd)'
  <2>1. (OnItsWay(sock[fd]))' <=> \E c : c = sock'[fd] /\ OnItsWay(c)'
    BY DEF OnItsWay
  <2> QED BY <1>f, <1>s, <2>1
\* They all go.
<1>c. ASSUME http'[fd] = None, ws'[fd] = None, sock'[fd] = None
      PROVE  TableAt(fd)'
  BY <1>c
<1>1. CASE Accept
  <2>1. PICK c \in Conns : c = accepted + 1
    BY <1>1, <1>t DEF Accept, Conns, TypeOK
  <2>2. PICK d \in Fds : /\ d \in FreeFds
                         /\ sock' = [sock EXCEPT ![d] = c]
                         /\ pipe' = Append(pipe, NewConn(d, c))
    BY <1>1, <2>1 DEF Accept, FreeFds
  <2>3. Quiet(d)
    <3>1. Acceptable(d)
      BY <2>2, <1>t DEF FreeFds, Acceptable
    <3> QED BY <3>1 DEF Tokens, TokensAt
  <2>4. NewConn(d, c) \in Messages /\ NewConn(d, c) \in NewOf(c)
    BY RecordTypes DEF NewOf, NewConn
  <2>5. \A x : Has(pipe', NewOf(x)) <=> Has(pipe, NewOf(x)) \/ NewConn(d, c) \in NewOf(x)
    BY <1>t, <2>2, <2>4, QueueHas
  <2>6. msgs' = msgs /\ http' = http /\ ws' = ws /\ closing' = closing
    BY <1>1 DEF Accept
  <2>7. CASE fd = d
    <3>1. http'[fd] = None /\ ws'[fd] = None /\ sock'[fd] = c
      BY <1>t, <2>2, <2>3, <2>6, <2>7 DEF Quiet
    <3>2. OnItsWay(c)'
      BY <1>w, <2>4, <2>5
    <3>3. (OnItsWay(sock[fd]))'
      BY <3>1, <3>2 DEF OnItsWay
    <3> QED BY <3>1, <3>3
  <2>8. CASE fd # d
    BY <1>s, <1>t, <1>w, <2>2, <2>5, <2>6, <2>8
  <2> QED BY <2>7, <2>8
<1>2. CASE ForwardTick
  <2>1. Tick \in Messages
    BY DEF Messages
  <2>2. \A x : Has(pipe', NewOf(x)) <=> Has(pipe, NewOf(x)) \/ Tick \in NewOf(x)
    BY <1>2, <1>t, <2>1, QueueHas DEF ForwardTick
  <2> QED BY <1>2, <1>s, <1>w, <2>2 DEF ForwardTick
<1>3. CASE DispatchPipe
  <2>1. msgs = <<>> /\ msgs' = pipe
    BY <1>3, <1>t DEF DispatchPipe, Phases
  <2>2. \A c : OnItsWay(c) => OnItsWay(c)'
    BY <1>w, <2>1, HasEmpty
  <2> QED BY <1>3, <1>s, <2>2 DEF DispatchPipe
<1>4. CASE HandleNewConnection
  <2> DEFINE m == Head(msgs)
  <2>1. /\ msgs # <<>> /\ m # Tick /\ m \in Elems(msgs)
        /\ m \in Messages /\ m.fd \in Fds /\ m.conn \in Conns
    BY <1>4, <1>t, ElemTails, ElemTypes, RecordTypes DEF HandleNewConnection
  <2>2. m \in NewOn(m.fd)
    BY <2>1 DEF NewOn
  <2>3. /\ msgs' = Tail(msgs) /\ pipe' = pipe /\ sock' = sock /\ ws' = ws
        /\ closing' = closing /\ http' = [http EXCEPT ![m.fd] = m.conn]
    BY <1>4 DEF HandleNewConnection
  <2>4. sock[m.fd] = m.conn /\ Quiet(m.fd)
    <3>1. Coming(m.fd)
      BY <1>t, <2>1, <2>2, QueueTails DEF Coming
    <3> QED BY <2>1, <3>1 DEF Tokens, TokensAt, Owned
  <2>5. CASE fd = m.fd
    BY <1>t, <2>1, <2>3, <2>4, <2>5 DEF Quiet
  <2>6. CASE fd # m.fd
    <3>1. sock[fd] # None => m \notin NewOf(sock[fd])
      BY <2>1, <2>4, <2>6 DEF NewOf, Sockets
    <3>2. sock[fd] # None /\ Has(msgs, NewOf(sock[fd])) => Has(msgs', NewOf(sock[fd]))
      BY <1>t, <2>1, <2>3, <3>1, TailKeeps
    <3> HIDE DEF m
    <3> QED BY <1>s, <1>t, <1>w, <2>1, <2>3, <2>6, <3>2
  <2> QED BY <2>5, <2>6
<1>5. CASE TickExpire \/ TickNothing
  <2>1. /\ msgs # <<>> /\ Head(msgs) = Tick /\ msgs' = Tail(msgs)
        /\ UNCHANGED <<sock, pipe, closing, http, ws>>
    BY <1>5 DEF TickExpire, TickNothing
  <2>2. \A c : Head(msgs) \notin NewOf(c)
    BY <2>1 DEF NewOf
  <2>3. \A c : Has(msgs, NewOf(c)) => Has(msgs', NewOf(c))
    BY <1>t, <2>1, <2>2, TailKeeps
  <2> QED BY <1>s, <1>w, <2>1, <2>3
\* What a task or a worker does to a descriptor leaves the messages alone.
<1>m. pipe' = pipe /\ msgs' = msgs => \A c : OnItsWay(c)' <=> OnItsWay(c)
  BY DEF OnItsWay
<1>6. CASE TaskCloseWs
  <2> DEFINE d == Head(batch).fd
  <2>1. /\ pipe' = pipe /\ msgs' = msgs /\ http' = http /\ closing = None
        /\ closing' = d /\ d \in Fds /\ ws[d] # None
        /\ ws' = [ws EXCEPT ![d] = None]
        /\ \A f \in Fds : f # d => sock'[f] = sock[f]
    BY <1>6, <1>h, <1>t DEF TaskCloseWs, RunningClose, Running, NextTask, CloseFd
  <2>2. CASE fd = d
    BY <1>f, <1>t, <2>1, <2>2
  <2>3. CASE fd # d
    BY <1>m, <1>s, <1>t, <2>1, <2>3
  <2> QED BY <2>2, <2>3
<1>7. CASE RemoveFd
  <2>1. /\ pipe' = pipe /\ msgs' = msgs /\ http' = http /\ ws' = ws
        /\ closing \in Fds /\ sock' = [sock EXCEPT ![closing] = None]
    BY <1>7, <1>t DEF RemoveFd, CloseFd, TypeOK
  <2>2. CASE fd = closing
    BY <1>c, <1>f, <1>t, <2>1, <2>2 DEF TokensAt
  <2>3. CASE fd # closing
    BY <1>m, <1>s, <1>t, <2>1, <2>3
  <2> QED BY <2>2, <2>3
<1>8. CASE TaskCloseHttp
  <2> DEFINE d == Head(batch).fd
  <2>1. /\ pipe' = pipe /\ msgs' = msgs /\ closing' = closing /\ d \in Fds
        /\ ws' = ws /\ ws[d] = None /\ http' = [http EXCEPT ![d] = None]
        /\ sock' = [sock EXCEPT ![d] = None]
    BY <1>8, <1>h DEF TaskCloseHttp, RunningClose, Running, NextTask, CloseFd
  <2>2. CASE fd = d
    BY <1>c, <1>t, <2>1, <2>2
  <2>3. CASE fd # d
    BY <1>m, <1>s, <1>t, <2>1, <2>3
  <2> QED BY <2>2, <2>3
<1>9. CASE TaskUpgrade
  <2> DEFINE d == Head(batch).fd
  <2>1. /\ batch # <<>> /\ Head(batch).act = "Upgrade" /\ d \in Fds
        /\ Head(batch) \in Elems(batch) /\ Head(batch) \in UpgradesOn(d)
    BY <1>9, <1>h DEF TaskUpgrade, Running, UpgradesOn
  <2>2. Upgrades /\ ~Timeouts /\ "fd" \notin Reuse
    BY <1>r, <1>t, <2>1, SwitchesAssumption DEF NoUpgrades, Switched, Calm
  <2>3. http[d] # None /\ ws[d] = None
    <3>1. Upgrading(d)
      BY <1>t, <2>1, QueueTails DEF Upgrading
    <3> QED BY <2>1, <2>2, <3>1 DEF Tokens, TokensAt
  <2>4. Head(batch).conn = d /\ sock[d] = d /\ d # None
    <3>1. Head(batch).conn = d
      BY <2>1, <2>2 DEF Owned, Belongs
    <3>2. sock[d] # None
      BY <1>t, <2>1, <2>3 DEF TablesMatchSockets
    <3> QED BY <1>t, <2>1, <2>2, <3>1, <3>2 DEF Sockets
  <2>5. /\ pipe' = pipe /\ msgs' = msgs /\ closing' = closing /\ sock' = sock
        /\ http' = [http EXCEPT ![d] = None]
        /\ ws' = [ws EXCEPT ![d] = d]
    BY <1>9, <2>3, <2>4 DEF TaskUpgrade, NextTask, DestructorCloses
  <2>6. CASE fd = d
    <3> HIDE DEF d
    <3> QED BY <1>t, <2>1, <2>4, <2>5, <2>6
  <2>7. CASE fd # d
    BY <1>m, <1>s, <1>t, <2>1, <2>5, <2>7
  <2> QED BY <2>6, <2>7
<1>10. ASSUME NEW w \in Workers, WorkerDrop(w) PROVE TableAt(fd)'
  <2> DEFINE job == work[w].job
  <2>1. /\ job \in Jobs /\ job.kind = "ws" /\ job.fd \in Fds /\ job.conn \in Conns
        /\ work[w].at # "idle"
    BY <1>10, WorkTypes, RecordTypes DEF WorkerDrop
  <2>2. UNCHANGED <<pipe, msgs, closing, http, ws>>
    BY <1>10 DEF WorkerDrop
  <2>3. CASE UNCHANGED <<sock, armed>>
    BY <1>m, <1>s, <2>2, <2>3
  <2>4. CASE CloseFd(job.fd) /\ \A f \in Fds : ws[f] # job.conn
    <3>1. "fd" \notin Reuse /\ job.conn = job.fd
      BY <1>r, <2>1 DEF NoUpgrades, Owned, Belongs
    <3>2. ws[job.fd] = None
      BY <1>t, <2>1, <2>4, <3>1 DEF Owned, Belongs
    <3>3. http[job.fd] = None
      <4>1. HandledWs(job.fd)
        BY <2>1 DEF HandledWs, Held, JobsOn
      <4> QED BY <2>1, <4>1 DEF Tokens, TokensAt
    <3>4. sock' = [sock EXCEPT ![job.fd] = None]
      BY <2>4 DEF CloseFd
    <3> HIDE DEF job
    <3>5. CASE fd = job.fd
      BY <1>c, <1>t, <2>1, <2>2, <3>2, <3>3, <3>4, <3>5
    <3>6. CASE fd # job.fd
      BY <1>m, <1>s, <1>t, <2>1, <2>2, <3>4, <3>6
    <3> QED BY <3>5, <3>6
  <2> QED BY <1>10, <2>3, <2>4 DEF WorkerDrop
<1>11. CASE UNCHANGED <<sock, http, ws, closing, pipe, msgs>>
  BY <1>11, <1>m, <1>s
<1> HIDE DEF TableAt
<1> QED
  BY <1>1, <1>2, <1>3, <1>4, <1>5, <1>6, <1>7, <1>8, <1>9, <1>10, <1>11
     DEF Next, MainReactor, Dispatch, Worker, vars, EpollWait, DispatchDone,
         DispatchWakeup, DispatchHup, DispatchIo, MsgsDone, TaskRearm,
         TaskTimeoutGone, WakeupDone, WorkerTake, WorkerPost, HttpRead,
         HttpWrite, WsHandler, WsBroadcast, NextTask

\* Every table entry has its open socket, and every open socket is in one table,
\* on its way there or about to be closed.
THEOREM TablesMatchSocketsHolds ==
  ASSUME Calm
  PROVE  Safe => []TablesMatchSockets
<1> DEFINE I == Typed /\ Owned /\ Sockets /\ Tokens
<1>1. Safe => []I
  BY Ownership DEF Calm, Exclusive
<1>2. Init => TablesMatchSockets
  BY DEF Init, TablesMatchSockets
<1>3. I /\ I' /\ TablesMatchSockets /\ [Next]_vars => TablesMatchSockets'
  BY TablesStep
<1> HIDE DEF I
<1> QED BY <1>1, <1>2, <1>3, PTL DEF Safe

-----------------------------------------------------------------------------
(* The timers and their owners. *)

\* No timer expires; or an address is not handed out again, and no descriptor
\* number is both handed out again and upgraded.
TimersApart ==
  ~Timeouts \/ ("ptr" \notin Reuse /\ ("fd" \notin Reuse \/ ~Upgrades))

TimeoutsOn(fd) == {t \in Tasks : t.fd = fd /\ t.act = "Timeout"}
Posted(fd) == Has(tasks, TimeoutsOn(fd)) \/ Has(batch, TimeoutsOn(fd))
Way(c) == Has(pipe, NewOf(c)) \/ Has(msgs, NewOf(c))

\* Something of the timers speaks of the address c.
Known(c) == c \in LivePtrs \/ \E fd \in Fds : cd[fd].timer = c

\* A connection is announced once, and its number is no address before.
FreshAt(c) ==
  /\ Once(pipe, NewOf(c)) /\ Once(msgs, NewOf(c))
  /\ ~(Has(pipe, NewOf(c)) /\ Has(msgs, NewOf(c)))
  /\ Way(c) => c <= accepted
  /\ "ptr" \notin Reuse => (Known(c) => c <= accepted /\ ~Way(c))

Fresh == \A c \in Conns : FreshAt(c)

\* The address in m_client_data leads to the timer of the descriptor itself.
OwnTimer(fd) ==
  /\ HasTimer(fd) => \A t \in Elems(timers) : t.ptr = cd[fd].timer => t.fd = fd
  /\ ~Timeouts /\ HasTimer(fd) => cd[fd].timer \in LivePtrs

OwnTimers == Distinct(timers) /\ \A fd \in Fds : OwnTimer(fd)

Expiring(fd) == Posted(fd) \/ (HasTimer(fd) /\ cd[fd].timer \in LivePtrs)

Kept == \A fd \in Fds : http[fd] # None => Expiring(fd)

OneTable == Timeouts => \A fd \in Fds : http[fd] # None => ws[fd] = None

\* The close of a timeout is on its way when such a task is in a queue.
LEMMA PostedIsHas ==
  TypeOK => \A fd : TimeoutPosted(fd) <=> Posted(fd)
<1> SUFFICES ASSUME TypeOK, NEW fd PROVE TimeoutPosted(fd) <=> Posted(fd)
  OBVIOUS
<1>1. \A q \in {tasks, batch} : \A i \in 1 .. Len(q) : q[i] \in Tasks
  BY DEF TypeOK
<1> QED BY <1>1 DEF TimeoutPosted, Posted, Has, TimeoutsOn

\* What a deletion leaves: the timers of the others.
LEMMA DelFacts ==
  ASSUME TypeOK, OwnTimers, NEW d \in Fds, DelTimer(d)
  PROVE  /\ Distinct(timers') /\ Elems(timers') \subseteq Elems(timers)
         /\ \A c \in Conns : Known(c)' => Known(c)
         /\ ~HasTimer(d)'
         /\ \A fd \in Fds \ {d} :
              /\ cd'[fd] = cd[fd]
              /\ HasTimer(fd) /\ cd[fd].timer \in LivePtrs => cd[fd].timer \in LivePtrs'
<1>t. cd \in [Fds -> [timer : {None} \cup Conns, deleted : BOOLEAN]]
      /\ None \notin Conns
  <2>1. None \notin Conns
    BY DEF None, Conns
  <2> QED BY <2>1 DEF TypeOK
<1>l. LivePtrs = {t.ptr : t \in Elems(timers)} /\ LivePtrs' = {t.ptr : t \in Elems(timers')}
  BY DEF LivePtrs, TimerSet, Elems
<1>1. CASE ~HasTimer(d)
  BY <1>1 DEF DelTimer, timerVars, OwnTimers, HasTimer, Known, LivePtrs, TimerSet
<1>2. CASE HasTimer(d)
  <2> DEFINE p == cd[d].timer
  <2>1. /\ timers' = Without(p)
        /\ cd' = [cd EXCEPT ![d] = [timer |-> None, deleted |-> TRUE]]
    BY <1>2 DEF DelTimer
  <2>2. /\ Distinct(timers') /\ Elems(timers') \subseteq Elems(timers)
        /\ \A t \in Elems(timers) : t.ptr # p => t \in Elems(timers')
    BY <2>1, WithoutElems DEF OwnTimers
  <2>3. cd'[d] = [timer |-> None, deleted |-> TRUE]
        /\ \A fd \in Fds \ {d} : cd'[fd] = cd[fd]
    BY <1>t, <2>1
  <2>4. ~HasTimer(d)'
    BY <2>3 DEF HasTimer
  <2>5. ASSUME NEW fd \in Fds \ {d}, HasTimer(fd), cd[fd].timer \in LivePtrs
        PROVE  cd[fd].timer \in LivePtrs'
    <3>1. PICK t \in Elems(timers) : t.ptr = cd[fd].timer
      BY <1>l, <2>5
    <3>2. t.fd = fd
      BY <2>5, <3>1 DEF OwnTimers, OwnTimer
    <3>3. t.ptr # p
      BY <1>2, <3>2 DEF OwnTimers, OwnTimer
    <3> QED BY <1>l, <2>2, <3>1, <3>3
  <2>6. \A c \in Conns : Known(c)' => Known(c)
    BY <1>l, <1>t, <2>2, <2>3 DEF Known
  <2> QED BY <2>2, <2>3, <2>4, <2>5, <2>6
<1> QED BY <1>1, <1>2

\* The first timer goes.
LEMMA ExpireFacts ==
  ASSUME TypeOK, timers # <<>>, Distinct(timers), timers' = Tail(timers)
  PROVE  /\ Distinct(timers') /\ Elems(timers') \subseteq Elems(timers)
         /\ Head(timers) \in Elems(timers)
         /\ \A t \in Elems(timers) : t.ptr # Head(timers).ptr => t \in Elems(timers')
<1>1. /\ Len(Tail(timers)) = Len(timers) - 1 /\ Head(timers) = timers[1]
      /\ Len(timers) \in Nat /\ Len(timers) >= 1
      /\ \A j \in 1 .. Len(Tail(timers)) : Tail(timers)[j] = timers[j + 1]
  BY HeadTailProperties, EmptySeq DEF TypeOK
<1>2. Distinct(timers')
  BY <1>1 DEF Distinct
<1>3. Elems(timers') \subseteq Elems(timers) /\ Head(timers) \in Elems(timers)
  BY ElemTails
<1>4. ASSUME NEW t \in Elems(timers), t.ptr # Head(timers).ptr
      PROVE  t \in Elems(timers')
  <2>1. PICK i \in 1 .. Len(timers) : timers[i] = t
    BY DEF Elems
  <2>2. i # 1
    BY <1>1, <1>4, <2>1
  <2>3. i - 1 \in 1 .. Len(timers') /\ timers'[i - 1] = t
    BY <1>1, <2>1, <2>2
  <2> QED BY <2>3 DEF Elems
<1> QED BY <1>2, <1>3, <1>4

\* A new timer has an address of its own.
LEMMA InitFacts ==
  ASSUME TypeOK, Distinct(timers), NEW d \in Fds, NEW c \in Conns, InitTimer(d, c),
         c \notin LivePtrs \/ "ptr" \in Reuse
  PROVE  \E p \in Conns :
           /\ p \notin LivePtrs /\ ("ptr" \notin Reuse => p = c)
           /\ Distinct(timers')
           /\ Elems(timers') = Elems(timers) \cup {[ptr |-> p, fd |-> d, conn |-> c]}
           /\ LivePtrs' = LivePtrs \cup {p}
           /\ cd' = [cd EXCEPT ![d] = [timer |-> p, deleted |-> FALSE]]
<1>1. PICK p \in FreePtrs(c) :
        /\ timers' = Append(timers, [ptr |-> p, fd |-> d, conn |-> c])
        /\ Elems(timers') = Elems(timers) \cup {[ptr |-> p, fd |-> d, conn |-> c]}
        /\ cd' = [cd EXCEPT ![d] = [timer |-> p, deleted |-> FALSE]]
        /\ p \in Conns
  BY InitElems
<1>2. p \notin LivePtrs /\ ("ptr" \notin Reuse => p = c)
  BY DEF FreePtrs
<1>l. LivePtrs = {t.ptr : t \in Elems(timers)} /\ LivePtrs' = {t.ptr : t \in Elems(timers')}
  BY DEF LivePtrs, TimerSet, Elems
<1>3. LivePtrs' = LivePtrs \cup {p}
  BY <1>1, <1>l
<1>4. Distinct(timers')
  <2> DEFINE t == [ptr |-> p, fd |-> d, conn |-> c]
  <2>1. timers \in Seq(Timers) /\ t \in Timers
    BY <1>1 DEF TypeOK, Timers
  <2>2. t.ptr = p
    OBVIOUS
  <2> HIDE DEF t
  <2>3. /\ Len(Append(timers, t)) = Len(timers) + 1 /\ Len(timers) \in Nat
        /\ \A i \in 1 .. Len(timers) : Append(timers, t)[i] = timers[i]
        /\ Append(timers, t)[Len(timers) + 1] = t
    BY <2>1, AppendProperties, LenProperties
  <2>4. \A i \in 1 .. Len(timers) : timers[i].ptr # p
    BY <1>2 DEF LivePtrs, TimerSet
  <2>5. \A i \in 1 .. Len(timers) + 1 : i \in 1 .. Len(timers) \/ i = Len(timers) + 1
    BY <2>3
  <2>6. timers' = Append(timers, t)
    BY <1>1 DEF t
  <2> QED BY <2>2, <2>3, <2>4, <2>5, <2>6 DEF Distinct
<1> QED BY <1>1, <1>2, <1>3, <1>4

\* A connection is announced once, before any timer is set for it.
LEMMA FreshStep ==
  ASSUME Typed, Fresh, OwnTimers, [Next]_vars
  PROVE  Fresh'
<1> SUFFICES ASSUME NEW c \in Conns PROVE FreshAt(c)'
  BY DEF Fresh
<1> USE DEF kernelVars, loopVars, tableVars, connVars, timerVars, poolVars
<1>t. /\ TypeOK /\ Phases /\ accepted \in Nat /\ c \in Nat
      /\ cd \in [Fds -> [timer : {None} \cup Conns, deleted : BOOLEAN]]
      /\ None \notin Conns
  <2>1. None \notin Conns /\ c \in Nat
    BY DEF None, Conns
  <2> QED BY <2>1 DEF Typed, TypeOK
<1>f. FreshAt(c)
  BY DEF Fresh
<1>h. batch # <<>> => Head(batch).fd \in Fds
  BY <1>t, ElemTails, ElemTypes, RecordTypes
\* No new message, and no new address.
<1>s. ASSUME pipe' = pipe, accepted' = accepted, Known(c)' => Known(c),
             Has(msgs', NewOf(c)) => Has(msgs, NewOf(c)),
             Once(msgs, NewOf(c)) => Once(msgs', NewOf(c))
      PROVE  FreshAt(c)'
  BY <1>f, <1>s DEF FreshAt, Way
<1>1. CASE Accept
  <2>1. PICK n \in Conns : n = accepted + 1
    BY <1>1, <1>t DEF Accept, Conns, TypeOK
  <2>2. PICK d \in Fds : pipe' = Append(pipe, NewConn(d, n))
    BY <1>1, <2>1 DEF Accept, FreeFds
  <2>3. NewConn(d, n) \in Messages /\ (NewConn(d, n) \in NewOf(c) <=> c = n)
    BY RecordTypes DEF NewOf, NewConn
  <2>4. /\ Has(pipe', NewOf(c)) <=> Has(pipe, NewOf(c)) \/ c = n
        /\ Once(pipe, NewOf(c)) /\ (c = n => ~Has(pipe, NewOf(c)))
             => Once(pipe', NewOf(c))
    BY <1>t, <2>2, <2>3, QueueHas
  <2>5. msgs' = msgs /\ accepted' = n /\ (Known(c)' <=> Known(c))
    BY <1>1, <2>1 DEF Accept, Known, LivePtrs
  <2>6. c = n => ~Way(c) /\ ("ptr" \notin Reuse => ~Known(c))
    BY <1>f, <1>t, <2>1 DEF FreshAt
  <2>7. c <= accepted => c <= accepted'
    BY <1>t, <2>1, <2>5
  <2>8. c = n => c <= accepted'
    BY <1>t, <2>5
  <2> QED BY <1>f, <2>4, <2>5, <2>6, <2>7, <2>8 DEF FreshAt, Way
<1>2. CASE ForwardTick
  <2>1. Tick \in Messages /\ Tick \notin NewOf(c)
    BY DEF Messages, NewOf
  <2>2. /\ Has(pipe', NewOf(c)) <=> Has(pipe, NewOf(c))
        /\ Once(pipe, NewOf(c)) => Once(pipe', NewOf(c))
    BY <1>2, <1>t, <2>1, QueueHas DEF ForwardTick
  <2>3. msgs' = msgs /\ accepted' = accepted /\ (Known(c)' <=> Known(c))
    BY <1>2 DEF ForwardTick, Known, LivePtrs
  <2> QED BY <1>f, <2>2, <2>3 DEF FreshAt, Way
<1>3. CASE DispatchPipe
  <2>1. msgs = <<>> /\ msgs' = pipe /\ pipe' = <<>> /\ accepted' = accepted
        /\ (Known(c)' <=> Known(c))
    BY <1>3, <1>t DEF DispatchPipe, Phases, Known, LivePtrs
  <2> QED BY <1>f, <2>1, HasEmpty DEF FreshAt, Way
<1>4. CASE HandleNewConnection
  <2> DEFINE m == Head(msgs)
  <2>1. /\ msgs # <<>> /\ m # Tick /\ m \in Messages
        /\ m.fd \in Fds /\ m.conn \in Conns
        /\ pipe' = pipe /\ msgs' = Tail(msgs) /\ accepted' = accepted
        /\ InitTimer(m.fd, m.conn)
    BY <1>4, <1>t, ElemTails, ElemTypes, RecordTypes DEF HandleNewConnection
  <2>2. m \in NewOf(m.conn)
    BY <2>1 DEF NewOf
  <2>3. Way(m.conn) /\ FreshAt(m.conn)
    BY <1>t, <2>1, <2>2, QueueTails DEF Way, Fresh
  <2>4. /\ Has(msgs', NewOf(c)) => Has(msgs, NewOf(c))
        /\ Once(msgs, NewOf(c)) => Once(msgs', NewOf(c))
        /\ c = m.conn /\ Once(msgs, NewOf(c)) => ~Has(msgs', NewOf(c))
    BY <1>t, <2>1, <2>2, QueueTails
  <2>5. m.conn \notin LivePtrs \/ "ptr" \in Reuse
    BY <2>3 DEF FreshAt, Known
  <2> HIDE DEF m
  <2>6. "ptr" \notin Reuse => (Known(c)' => Known(c) \/ c = m.conn)
    <3>1. PICK p \in Conns :
            /\ "ptr" \notin Reuse => p = m.conn
            /\ LivePtrs' = LivePtrs \cup {p}
            /\ cd' = [cd EXCEPT ![m.fd] = [timer |-> p, deleted |-> FALSE]]
      BY <1>t, <2>1, <2>5, InitFacts DEF OwnTimers
    <3> QED BY <1>t, <2>1, <3>1 DEF Known
  <2>7. CASE c # m.conn
    BY <1>f, <2>1, <2>4, <2>6, <2>7 DEF FreshAt, Way
  <2>8. CASE c = m.conn
    <3>1. Has(msgs, NewOf(c))
      BY <1>t, <2>1, <2>2, <2>8, QueueTails DEF m
    <3>2. ~Way(c)' /\ c <= accepted'
      BY <1>f, <2>1, <2>3, <2>4, <2>8, <3>1 DEF FreshAt, Way
    <3> QED BY <1>f, <2>1, <2>4, <3>2 DEF FreshAt, Way
  <2> QED BY <2>7, <2>8
<1>5. CASE TickExpire \/ TickNothing
  <2>1. /\ msgs # <<>> /\ msgs' = Tail(msgs) /\ pipe' = pipe /\ cd' = cd
        /\ accepted' = accepted
    BY <1>5 DEF TickExpire, TickNothing
  <2>2. Elems(timers') \subseteq Elems(timers)
    BY <1>5, <1>t, ElemTails DEF TickExpire, TickNothing
  <2>3. Known(c)' => Known(c)
    BY <2>1, <2>2 DEF Known, LivePtrs, TimerSet, Elems
  <2> QED BY <1>s, <1>t, <2>1, <2>3, QueueTails
<1>6. CASE DispatchIo
  <2>1. PICK e \in events : e.src = "client"
                            /\ (AdjustTimer(e.fd) \/ UNCHANGED timerVars)
    BY <1>6 DEF DispatchIo
  <2>2. e.fd \in Fds
    BY <1>t, <2>1, EventType
  <2>3. Elems(timers') \subseteq Elems(timers) /\ cd' = cd
    BY <1>t, <2>1, <2>2, AdjustElems DEF AdjustTimer
  <2>4. Known(c)' => Known(c)
    BY <2>3 DEF Known, LivePtrs, TimerSet, Elems
  <2> QED BY <1>6, <1>s, <2>4 DEF DispatchIo
<1>7. CASE TaskCloseHttp \/ TaskUpgrade
  <2>1. /\ batch # <<>> /\ DelTimer(Head(batch).fd) /\ pipe' = pipe
        /\ msgs' = msgs /\ accepted' = accepted
    BY <1>7 DEF TaskCloseHttp, TaskUpgrade, RunningClose, Running, NextTask
  <2>2. Known(c)' => Known(c)
    BY <1>h, <1>t, <2>1, DelFacts
  <2> QED BY <1>s, <2>1, <2>2
<1>8. CASE UNCHANGED <<pipe, msgs, accepted, timerVars>>
  <2>1. Known(c)' <=> Known(c)
    BY <1>8 DEF Known, LivePtrs, TimerSet
  <2> QED BY <1>8, <1>s, <2>1
<1> QED
  BY <1>1, <1>2, <1>3, <1>4, <1>5, <1>6, <1>7, <1>8
     DEF Next, MainReactor, Dispatch, Worker, vars, EpollWait, DispatchDone,
         DispatchWakeup, DispatchHup, MsgsDone, TaskRearm, TaskCloseWs, RemoveFd,
         TaskTimeoutGone, WakeupDone, WorkerTake, WorkerPost, WorkerDrop,
         HttpRead, HttpWrite, WsHandler, WsBroadcast, NextTask

\* The address that m_client_data keeps for a descriptor leads to the timer of
\* that descriptor, or to none.
LEMMA OwnTimersStep ==
  ASSUME TimersApart, Typed, Fresh, OwnTimers, [Next]_vars
  PROVE  OwnTimers'
<1> USE DEF kernelVars, loopVars, tableVars, connVars, timerVars, poolVars
<1>t. /\ TypeOK /\ Phases /\ Switched
      /\ cd \in [Fds -> [timer : {None} \cup Conns, deleted : BOOLEAN]]
      /\ None \notin Conns
  <2>1. None \notin Conns
    BY DEF None, Conns
  <2> QED BY <2>1 DEF Typed, TypeOK
<1>h. batch # <<>> => Head(batch).fd \in Fds
  BY <1>t, ElemTails, ElemTypes, RecordTypes
<1>l. LivePtrs = {t.ptr : t \in Elems(timers)} /\ LivePtrs' = {t.ptr : t \in Elems(timers')}
  BY DEF LivePtrs, TimerSet, Elems
<1>1. CASE HandleNewConnection
  <2> DEFINE m == Head(msgs)
  <2>1. /\ msgs # <<>> /\ m # Tick /\ m \in Messages
        /\ m.fd \in Fds /\ m.conn \in Conns
        /\ InitTimer(m.fd, m.conn)
    BY <1>1, <1>t, ElemTails, ElemTypes, RecordTypes DEF HandleNewConnection
  <2>2. m \in NewOf(m.conn)
    BY <2>1 DEF NewOf
  <2>3. Way(m.conn) /\ FreshAt(m.conn)
    BY <1>t, <2>1, <2>2, QueueTails DEF Way, Fresh
  <2>4. "ptr" \notin Reuse => ~Known(m.conn)
    BY <2>3 DEF FreshAt
  <2> HIDE DEF m
  <2>5. PICK p \in Conns :
           /\ p \notin LivePtrs /\ ("ptr" \notin Reuse => p = m.conn)
           /\ Distinct(timers')
           /\ Elems(timers') = Elems(timers) \cup {[ptr |-> p, fd |-> m.fd, conn |-> m.conn]}
           /\ LivePtrs' = LivePtrs \cup {p}
           /\ cd' = [cd EXCEPT ![m.fd] = [timer |-> p, deleted |-> FALSE]]
    BY <1>t, <2>1, <2>4, InitFacts DEF OwnTimers, Known
  <2> SUFFICES ASSUME NEW fd \in Fds PROVE OwnTimer(fd)'
    BY <2>5 DEF OwnTimers
  <2>6. CASE fd = m.fd
    <3>1. cd'[fd].timer = p
      BY <1>t, <2>1, <2>5, <2>6
    <3>2. \A t \in Elems(timers) : t.ptr # p
      BY <1>l, <2>5
    <3> QED BY <2>5, <2>6, <3>1, <3>2 DEF OwnTimer
  <2>7. CASE fd # m.fd
    <3>1. cd'[fd] = cd[fd]
      BY <1>t, <2>1, <2>5, <2>7
    <3>2. HasTimer(fd) => cd[fd].timer # p
      BY <2>4, <2>5 DEF TimersApart, Known, OwnTimers, OwnTimer
    <3> QED BY <2>5, <3>1, <3>2 DEF OwnTimers, OwnTimer, HasTimer
  <2> QED BY <2>6, <2>7
<1>2. CASE TickExpire
  <2>1. Timeouts /\ cd' = cd /\ timers # <<>> /\ timers' = Tail(timers)
    <3>1. Tick \in Elems(msgs)
      BY <1>2, <1>t, ElemTails DEF TickExpire
    <3> QED BY <1>2, <1>t, <3>1 DEF Switched, NoTimeouts, TickExpire
  <2>2. Distinct(timers') /\ Elems(timers') \subseteq Elems(timers)
    BY <1>t, <2>1, ExpireFacts DEF OwnTimers
  <2> QED BY <2>1, <2>2 DEF OwnTimers, OwnTimer, HasTimer
<1>3. CASE DispatchIo
  <2>1. PICK e \in events : e.src = "client"
                            /\ (AdjustTimer(e.fd) \/ UNCHANGED timerVars)
    BY <1>3 DEF DispatchIo
  <2>2. e.fd \in Fds
    BY <1>t, <2>1, EventType
  <2>3. Elems(timers') = Elems(timers) /\ cd' = cd /\ Distinct(timers')
    BY <1>t, <2>1, <2>2, AdjustElems DEF AdjustTimer, OwnTimers
  <2> QED BY <1>l, <2>3 DEF OwnTimers, OwnTimer, HasTimer
<1>4. CASE TaskCloseHttp \/ TaskUpgrade
  <2>1. PICK d \in Fds : DelTimer(d)
    BY <1>4, <1>h DEF TaskCloseHttp, TaskUpgrade, RunningClose, Running
  <2>2. /\ Distinct(timers') /\ Elems(timers') \subseteq Elems(timers)
        /\ ~HasTimer(d)'
        /\ \A fd \in Fds \ {d} :
             /\ cd'[fd] = cd[fd]
             /\ HasTimer(fd) /\ cd[fd].timer \in LivePtrs => cd[fd].timer \in LivePtrs'
    BY <1>t, <2>1, DelFacts
  <2> SUFFICES ASSUME NEW fd \in Fds PROVE OwnTimer(fd)'
    BY <2>2 DEF OwnTimers
  <2>3. CASE fd = d
    BY <2>2, <2>3 DEF OwnTimer
  <2>4. CASE fd # d
    BY <2>2, <2>4 DEF OwnTimers, OwnTimer, HasTimer
  <2> QED BY <2>3, <2>4
<1>5. CASE UNCHANGED timerVars
  BY <1>5, <1>l DEF OwnTimers, OwnTimer, HasTimer, Distinct
<1> QED
  BY <1>1, <1>2, <1>3, <1>4, <1>5
     DEF Next, MainReactor, Dispatch, Worker, vars, Accept, ForwardTick,
         EpollWait, DispatchDone, DispatchPipe, DispatchWakeup, DispatchHup,
         TickNothing, MsgsDone, TaskRearm, TaskCloseWs, RemoveFd,
         TaskTimeoutGone, WakeupDone, WorkerTake, WorkerPost, WorkerDrop,
         HttpRead, HttpWrite, WsHandler, WsBroadcast, NextTask

\* An HTTP connection keeps its timer until the timer posts its close.
LEMMA KeptStep ==
  ASSUME TimersApart, Typed, OneTable, OwnTimers, Kept, [Next]_vars
  PROVE  Kept'
<1> SUFFICES ASSUME NEW fd \in Fds, http'[fd] # None PROVE Expiring(fd)'
  BY DEF Kept
<1> USE DEF kernelVars, loopVars, tableVars, connVars, timerVars, poolVars
<1>t. /\ TypeOK /\ Phases /\ Switched
      /\ http \in [Fds -> {None} \cup Conns]
      /\ cd \in [Fds -> [timer : {None} \cup Conns, deleted : BOOLEAN]]
      /\ None \notin Conns
  <2>1. None \notin Conns
    BY DEF None, Conns
  <2> QED BY <2>1 DEF Typed, TypeOK
<1>f. http[fd] # None => Expiring(fd)
  BY DEF Kept
<1>h. batch # <<>> => /\ Head(batch) \in Elems(batch) /\ Head(batch) \in Tasks
                      /\ Head(batch).fd \in Fds
  BY <1>t, ElemTails, ElemTypes, RecordTypes
<1>l. LivePtrs = {t.ptr : t \in Elems(timers)} /\ LivePtrs' = {t.ptr : t \in Elems(timers')}
  BY DEF LivePtrs, TimerSet, Elems
\* What was posted is posted, and the timers stay.
<1>s. ASSUME http'[fd] = http[fd], Posted(fd) => Posted(fd)',
             cd' = cd, LivePtrs \subseteq LivePtrs'
      PROVE  Expiring(fd)'
  BY <1>f, <1>s DEF Expiring, HasTimer
\* A task that is no timeout, or a timeout of another descriptor.
<1>b. ASSUME batch # <<>>, batch' = Tail(batch), tasks' = tasks,
             Head(batch).act # "Timeout" \/ Head(batch).fd # fd
      PROVE  Posted(fd) => Posted(fd)'
  <2>1. Head(batch) \notin TimeoutsOn(fd)
    BY <1>b DEF TimeoutsOn
  <2> QED BY <1>b, <1>t, <2>1, TailKeeps DEF Posted
<1>a. ASSUME NEW t \in Tasks, tasks' = Append(tasks, t), batch' = batch
      PROVE  Posted(fd)' <=> Posted(fd) \/ t \in TimeoutsOn(fd)
  BY <1>a, <1>t, QueueHas DEF Posted
<1>1. CASE DispatchWakeup
  <2>1. batch = <<>> /\ batch' = tasks /\ http' = http /\ cd' = cd /\ timers' = timers
    BY <1>1, <1>t DEF DispatchWakeup, Phases
  <2>2. Posted(fd) => Posted(fd)'
    BY <2>1, HasEmpty DEF Posted
  <2> QED BY <1>l, <1>s, <2>1, <2>2
<1>2. CASE DispatchHup
  <2>1. PICK e \in events : /\ e.src = "client"
                            /\ tasks' = Append(tasks, Task("Close", e.fd, e.conn))
    BY <1>2 DEF DispatchHup
  <2>2. Task("Close", e.fd, e.conn) \in Tasks
    BY <1>t, <2>1, EventType, RecordTypes DEF Actions
  <2> QED BY <1>2, <1>a, <1>l, <1>s, <2>1, <2>2 DEF DispatchHup
<1>3. CASE DispatchIo
  <2>1. PICK e \in events : e.src = "client"
                            /\ (AdjustTimer(e.fd) \/ UNCHANGED timerVars)
    BY <1>3 DEF DispatchIo
  <2>2. e.fd \in Fds
    BY <1>t, <2>1, EventType
  <2>3. Elems(timers') = Elems(timers) /\ cd' = cd
    BY <1>t, <2>1, <2>2, AdjustElems DEF AdjustTimer, OwnTimers
  <2>4. Posted(fd)' <=> Posted(fd)
    BY <1>3 DEF DispatchIo, Posted
  <2> QED BY <1>3, <1>l, <1>s, <2>3, <2>4 DEF DispatchIo
<1>4. CASE HandleNewConnection
  <2>1. PICK d \in Fds, c \in Conns :
          http' = [http EXCEPT ![d] = c] /\ InitTimer(d, c)
    BY <1>4, <1>t, ElemTails, ElemTypes, RecordTypes DEF HandleNewConnection
  <2>2. PICK p \in Conns :
          /\ Elems(timers') = Elems(timers) \cup {[ptr |-> p, fd |-> d, conn |-> c]}
          /\ cd' = [cd EXCEPT ![d] = [timer |-> p, deleted |-> FALSE]]
    BY <1>t, <2>1, InitElems
  <2>3. LivePtrs \subseteq LivePtrs' /\ p \in LivePtrs'
    <3>1. [ptr |-> p, fd |-> d, conn |-> c].ptr = p
      OBVIOUS
    <3>2. [ptr |-> p, fd |-> d, conn |-> c] \in Elems(timers')
      BY <2>2
    <3>3. p \in LivePtrs'
      BY <1>l, <3>1, <3>2
    <3> QED BY <1>l, <2>2, <3>3
  <2>4. CASE fd = d
    <3>1. cd'[fd] = [timer |-> p, deleted |-> FALSE]
      BY <1>t, <2>2, <2>4
    <3> QED BY <1>t, <2>3, <3>1 DEF Expiring, HasTimer
  <2>5. CASE fd # d
    <3>1. cd'[fd] = cd[fd] /\ http'[fd] = http[fd]
      BY <1>t, <2>1, <2>2, <2>5
    <3>2. Posted(fd)' <=> Posted(fd)
      BY <1>4 DEF HandleNewConnection, Posted
    <3> QED BY <1>f, <2>3, <3>1, <3>2 DEF Expiring, HasTimer
  <2> QED BY <2>4, <2>5
<1>5. CASE TickExpire
  <2> DEFINE t == Head(timers)
  <2>1. /\ timers # <<>> /\ timers' = Tail(timers) /\ cd' = cd /\ http' = http
        /\ batch' = batch
        /\ tasks' = IF cd[t.fd].deleted THEN tasks
                     ELSE Append(tasks, Task("Timeout", t.fd, t.conn))
    BY <1>5 DEF TickExpire
  <2>2. /\ t \in Elems(timers) /\ t \in Timers
        /\ \A u \in Elems(timers) : u.ptr # t.ptr => u \in Elems(timers')
    BY <1>t, <2>1, ExpireFacts, ElemTypes DEF OwnTimers
  <2> HIDE DEF t
  <2>3. Task("Timeout", t.fd, t.conn) \in Tasks
    BY <2>2, RecordTypes
  <2>4. Posted(fd) => Posted(fd)'
    BY <1>a, <2>1, <2>3 DEF Posted
  <2>5. CASE Posted(fd)
    BY <2>4, <2>5 DEF Expiring
  <2>6. CASE ~Posted(fd)
    <3>1. HasTimer(fd) /\ cd[fd].timer \in LivePtrs
      BY <1>f, <2>1, <2>6 DEF Expiring
    <3>2. CASE t.ptr = cd[fd].timer
      <4>1. t.fd = fd /\ ~cd[t.fd].deleted
        BY <2>2, <3>1, <3>2 DEF OwnTimers, OwnTimer, HasTimer
      <4>2. Task("Timeout", t.fd, t.conn) \in TimeoutsOn(fd)
        BY <2>3, <4>1 DEF TimeoutsOn, Task
      <4> QED BY <1>a, <2>1, <2>3, <4>1, <4>2 DEF Expiring
    <3>3. CASE t.ptr # cd[fd].timer
      <4>1. cd[fd].timer \in LivePtrs'
        BY <1>l, <2>2, <3>1, <3>3
      <4> QED BY <2>1, <3>1, <4>1 DEF Expiring, HasTimer
    <3> QED BY <3>2, <3>3
  <2> QED BY <2>5, <2>6
<1>6. CASE TaskRearm
  <2>1. /\ batch # <<>> /\ batch' = Tail(batch) /\ tasks' = tasks
        /\ Head(batch).act # "Timeout" /\ UNCHANGED <<http, timerVars>>
    BY <1>6 DEF TaskRearm, Running, NextTask
  <2> QED BY <1>b, <1>l, <1>s, <2>1
<1>7. CASE TaskCloseWs
  <2>1. /\ batch # <<>> /\ batch' = Tail(batch) /\ tasks' = tasks
        /\ ws[Head(batch).fd] # None /\ UNCHANGED <<http, timerVars>>
        /\ Head(batch).act = "Timeout" => http[Head(batch).fd] # None
    BY <1>7 DEF TaskCloseWs, RunningClose, Running, NextTask
  <2>2. Head(batch).act # "Timeout"
    BY <1>h, <1>t, <2>1 DEF OneTable, Switched, NoTimeouts
  <2> QED BY <1>b, <1>l, <1>s, <2>1, <2>2
<1>8. CASE TaskTimeoutGone
  <2>1. /\ batch # <<>> /\ batch' = Tail(batch) /\ tasks' = tasks
        /\ http[Head(batch).fd] = None /\ UNCHANGED <<http, timerVars>>
    BY <1>8 DEF TaskTimeoutGone, Running, NextTask
  <2>2. Head(batch).fd # fd
    BY <2>1
  <2> QED BY <1>b, <1>l, <1>s, <2>1, <2>2
<1>9. CASE TaskCloseHttp \/ TaskUpgrade
  <2>1. PICK d \in Fds : d = Head(batch).fd /\ DelTimer(d)
    BY <1>9, <1>h DEF TaskCloseHttp, TaskUpgrade, RunningClose, Running
  <2>2. /\ batch # <<>> /\ batch' = Tail(batch) /\ tasks' = tasks
        /\ http' = [http EXCEPT ![d] = None]
    BY <1>9, <2>1 DEF TaskCloseHttp, TaskUpgrade, RunningClose, Running, NextTask
  <2>3. fd # d /\ http'[fd] = http[fd]
    BY <1>t, <2>2
  <2>4. /\ cd'[fd] = cd[fd]
        /\ HasTimer(fd) /\ cd[fd].timer \in LivePtrs => cd[fd].timer \in LivePtrs'
    BY <1>t, <2>1, <2>3, DelFacts
  <2>5. Posted(fd) => Posted(fd)'
    BY <1>b, <2>1, <2>2, <2>3
  <2> QED BY <1>f, <2>3, <2>4, <2>5 DEF Expiring, HasTimer
<1>10. ASSUME NEW w \in Workers, WorkerPost(w) PROVE Expiring(fd)'
  <2> DEFINE t == Task(work[w].act, work[w].job.fd, work[w].job.conn)
  <2>1. tasks' = Append(tasks, t) /\ batch' = batch /\ UNCHANGED <<http, timerVars>>
    BY <1>10 DEF WorkerPost
  <2>2. t \in Tasks
    BY <1>10, WorkTypes, RecordTypes DEF WorkerPost
  <2> HIDE DEF t
  <2> QED BY <1>a, <1>l, <1>s, <2>1, <2>2
<1>11. ASSUME NEW w \in Workers, WsBroadcast(w) PROVE Expiring(fd)'
  <2>1. PICK d \in Fds : ws[d] # None /\ tasks' = Append(tasks, Task("Write", d, ws[d]))
    BY <1>11 DEF WsBroadcast
  <2>2. Task("Write", d, ws[d]) \in Tasks
    BY <2>1, RecordTypes DEF Actions, Typed, TypeOK
  <2>3. batch' = batch /\ UNCHANGED <<http, timerVars>>
    BY <1>11 DEF WsBroadcast
  <2> QED BY <1>a, <1>l, <1>s, <2>1, <2>2, <2>3
<1>12. CASE UNCHANGED <<http, tasks, batch, timerVars>>
  BY <1>12, <1>l, <1>s DEF Posted
<1> QED
  BY <1>1, <1>2, <1>3, <1>4, <1>5, <1>6, <1>7, <1>8, <1>9, <1>10, <1>11, <1>12
     DEF Next, MainReactor, Dispatch, Worker, vars, Accept, ForwardTick,
         EpollWait, DispatchDone, DispatchPipe, TickNothing, MsgsDone, RemoveFd,
         WakeupDone, WorkerTake, WorkerDrop, HttpRead, HttpWrite, WsHandler

\* Every HTTP connection has its own timer running, or the close that its timer
\* posted is on its way: none is left without a time limit.
THEOREM TimersLiveHolds ==
  ASSUME TimersApart
  PROVE  Safe => []TimersLive
<1> DEFINE I == Fresh /\ OwnTimers /\ Kept
<1>1. Safe => []Typed
  BY Typing, SwitchedStays, PostActsStays, PTL DEF Typed
<1>2. Safe => []OneTable
  <2>1. CASE Timeouts /\ Exclusive
    <3>1. Tokens => OneTable
      BY DEF Tokens, TokensAt, OneTable
    <3> QED BY <2>1, <3>1, Ownership, PTL
  <2>2. CASE ~Upgrades
    <3>1. Typed => OneTable
      BY <2>2 DEF Typed, Switched, NoUpgrades, OneTable
    <3> QED BY <1>1, <3>1, PTL
  <2>3. CASE ~Timeouts
    <3>1. OneTable
      BY <2>3 DEF OneTable
    <3> QED BY <3>1, PTL
  <2> QED BY <2>1, <2>2, <2>3, SwitchesAssumption DEF TimersApart, Exclusive
<1>3. Init => I
  <2> SUFFICES ASSUME Init PROVE I
    OBVIOUS
  <2>1. None \notin Conns
    BY DEF None, Conns
  <2>2. Fresh
    BY <2>1, HasEmpty DEF Init, Fresh, FreshAt, Way, Known, LivePtrs, TimerSet
  <2>3. OwnTimers
    BY DEF Init, OwnTimers, OwnTimer, Distinct, HasTimer
  <2>4. Kept
    BY DEF Init, Kept
  <2> QED BY <2>2, <2>3, <2>4
<1>4. Typed /\ OneTable /\ I /\ [Next]_vars => I'
  BY FreshStep, OwnTimersStep, KeptStep
<1>5. Typed /\ I => TimersLive
  <2> SUFFICES ASSUME Typed, I, NEW fd \in Fds, http[fd] # None, ~TimeoutPosted(fd)
               PROVE  \E t \in TimerSet(timers) :
                        t.ptr = cd[fd].timer /\ t.fd = fd /\ HasTimer(fd)
    BY DEF TimersLive
  <2>1. HasTimer(fd) /\ cd[fd].timer \in LivePtrs
    BY PostedIsHas DEF Typed, Kept, Expiring
  <2>2. PICK t \in TimerSet(timers) : t.ptr = cd[fd].timer
    BY <2>1 DEF LivePtrs
  <2>3. t.fd = fd
    BY <2>1, <2>2 DEF OwnTimers, OwnTimer, TimerSet, Elems
  <2> QED BY <2>1, <2>2, <2>3
<1> HIDE DEF I
<1> QED BY <1>1, <1>2, <1>3, <1>4, <1>5, PTL DEF Safe

-----------------------------------------------------------------------------
(* The pool as the reactor uses it. *)

\* What a worker is about is seen as.
Seen(at) == IF at = "idle" THEN "nothing" ELSE "job"

LEMMA SeenMove ==
  ASSUME TypeOK, NEW w \in Workers, NEW j, work' = [work EXCEPT ![w] = j]
  PROVE  /\ Doing[w] = Seen(work[w].at)
         /\ Doing' = [Doing EXCEPT ![w] = Seen(j.at)]
         /\ Seen(j.at) = Seen(work[w].at) => Doing' = Doing
<1>1. /\ Doing = [v \in Workers |-> Seen(work[v].at)]
      /\ Doing' = [v \in Workers |-> Seen(work'[v].at)]
  BY DEF Doing, Seen
<1>2. work'[w] = j /\ \A v \in Workers : v # w => work'[v] = work[v]
  BY DEF TypeOK
<1> QED BY <1>1, <1>2

\* The reactor, its jobs and its workers keep to what ThreadPool gives: an event
\* becomes one job at most, and a worker has its job from the queue to the end of
\* what follows the handler.
THEOREM PoolUsedRightly == Safe => Pool!Safe
<1>1. Init => Pool!Init
  BY DEF Init, Idle, Pool!Init, Doing
<1>2. TypeOK /\ [Next]_vars => [Pool!Next]_Pool!poolVars
  <2> SUFFICES ASSUME TypeOK, [Next]_vars
               PROVE  Pool!Next \/ UNCHANGED <<jobs, FALSE, Doing>>
    BY DEF Pool!poolVars
  <2>1. ASSUME UNCHANGED poolVars PROVE UNCHANGED <<jobs, FALSE, Doing>>
    BY <2>1 DEF poolVars, Doing
  <2>2. ASSUME NEW j \in Jobs, AppendJob(j)
        PROVE  Pool!Next \/ UNCHANGED <<jobs, FALSE, Doing>>
    <3>1. UNCHANGED Doing
      BY <2>2 DEF AppendJob, Doing
    <3>2. CASE jobs' = Append(jobs, j)
      BY <3>1, <3>2 DEF Pool!Next, Pool!Put
    <3>3. CASE jobs' = jobs
      BY <3>1, <3>3
    <3> QED BY <2>2, <3>2, <3>3 DEF AppendJob
  <2>3. CASE DispatchIo
    <3>1. PICK e \in events :
            /\ e.src = "client" /\ e.ev \in {"in", "out"}
            /\ \/ ws[e.fd] # None /\ AppendJob(Job("ws", e.ev, e.fd, ws[e.fd]))
               \/ http[e.fd] # None /\ AppendJob(Job("http", e.ev, e.fd, http[e.fd]))
               \/ UNCHANGED poolVars
      BY <2>3 DEF DispatchIo
    <3>2. e.fd \in Fds
      BY <3>1, EventType
    <3>3. /\ ws[e.fd] # None => Job("ws", e.ev, e.fd, ws[e.fd]) \in Jobs
          /\ http[e.fd] # None => Job("http", e.ev, e.fd, http[e.fd]) \in Jobs
      BY <3>1, <3>2 DEF TypeOK, Job, Jobs, Conns, None
    <3> QED BY <2>1, <2>2, <3>1, <3>3
  <2>4. ASSUME NEW w \in Workers, WorkerTake(w) PROVE Pool!Next
    <3> DEFINE j == [at |-> "handler", job |-> Head(jobs), act |-> "Read"]
    <3>1. /\ work[w].at = "idle" /\ jobs # <<>> /\ jobs' = Tail(jobs)
          /\ work' = [work EXCEPT ![w] = j] /\ j.at = "handler"
      BY <2>4 DEF WorkerTake
    <3> HIDE DEF j
    <3>2. Doing[w] = Seen(work[w].at) /\ Doing' = [Doing EXCEPT ![w] = Seen(j.at)]
      BY <3>1, SeenMove
    <3>3. Pool!Take(w)
      BY <3>1, <3>2 DEF Seen, Pool!Take, Pool!Turns
    <3> QED BY <3>3 DEF Pool!Next
  <2>5. ASSUME NEW w \in Workers, NEW j, work' = [work EXCEPT ![w] = j], UNCHANGED jobs,
               work[w].at # "idle"
        PROVE  Pool!Next \/ UNCHANGED <<jobs, FALSE, Doing>>
    <3>1. /\ Doing[w] = Seen(work[w].at) /\ Doing' = [Doing EXCEPT ![w] = Seen(j.at)]
          /\ Seen(j.at) = Seen(work[w].at) => Doing' = Doing
      BY <2>5, SeenMove
    <3>2. CASE j.at = "idle"
      <4>1. Pool!End(w)
        BY <2>5, <3>1, <3>2 DEF Seen, Pool!End, Pool!Turns
      <4> QED BY <4>1 DEF Pool!Next
    <3>3. CASE j.at # "idle"
      BY <2>5, <3>1, <3>3 DEF Seen
    <3> QED BY <3>2, <3>3
  <2>6. ASSUME NEW w \in Workers,
               HttpRead(w) \/ HttpWrite(w) \/ WsHandler(w) \/ WorkerPost(w) \/ WorkerDrop(w)
        PROVE  Pool!Next \/ UNCHANGED <<jobs, FALSE, Doing>>
    <3>1. UNCHANGED jobs /\ work[w].at # "idle"
      BY <2>6 DEF HttpRead, HttpWrite, WsHandler, WorkerPost, WorkerDrop
    <3>2. \E j : work' = [work EXCEPT ![w] = j]
      BY <2>6 DEF HttpRead, HttpWrite, WsHandler, WorkerPost, WorkerDrop, Return
    <3> QED BY <2>5, <3>1, <3>2
  <2>7. ASSUME NEW w \in Workers, WsBroadcast(w) PROVE UNCHANGED poolVars
    BY <2>7 DEF WsBroadcast
  <2>8. ASSUME MainReactor \/ EpollWait \/ (Dispatch /\ ~DispatchIo) \/ UNCHANGED vars
        PROVE  UNCHANGED poolVars
    BY <2>8 DEF MainReactor, Accept, ForwardTick, EpollWait, Dispatch, DispatchDone,
       DispatchPipe, DispatchWakeup, DispatchHup, HandleNewConnection, TickExpire,
       TickNothing, MsgsDone, TaskRearm, TaskCloseWs, TaskCloseHttp, TaskTimeoutGone,
       TaskUpgrade, RemoveFd, WakeupDone, vars
  <2> QED BY <2>1, <2>3, <2>4, <2>6, <2>7, <2>8 DEF Next, Dispatch, Worker
<1> QED BY <1>1, <1>2, TypeCorrect, PTL DEF Safe, Pool!Safe

\* The loop and the workers use the task queue as TaskQueue provides it: tasks are
\* posted one at a time, by workers, by timers and by the loop for a hang-up, and the
\* loop takes all there are when it has run those it took before.
THEOREM MailUsedRightly == Safe => Mail!Safe
<1>1. Init => Mail!Init
  BY DEF Init, Mail!Init
<1>2. Typed /\ [Next]_vars => [Mail!Next]_Mail!mailVars
  <2> SUFFICES ASSUME Typed, [Next]_vars
               PROVE  Mail!Next \/ UNCHANGED <<tasks, batch>>
    BY DEF Mail!mailVars
  <2>0. TypeOK /\ Phases
    BY DEF Typed
  <2>1. ASSUME NEW t \in Tasks, tasks' = Append(tasks, t), UNCHANGED batch
        PROVE  Mail!Next
    BY <2>1 DEF Mail!Post, Mail!Next
  <2>2. ASSUME NEW act \in Actions \cup {"Timeout"}, NEW fd \in Fds, NEW c \in Conns
        PROVE  Task(act, fd, c) \in Tasks
    BY RecordTypes
  <2>3. CASE DispatchWakeup
    <3>1. batch = <<>> /\ batch' = tasks /\ tasks' = <<>>
      BY <2>0, <2>3 DEF DispatchWakeup, Phases
    <3> QED BY <3>1 DEF Mail!TakeAll, Mail!Next
  <2>4. ASSUME batch # <<>>, NextTask, UNCHANGED tasks
        PROVE  Mail!Next
    BY <2>4 DEF NextTask, Mail!RunOne, Mail!Next
  <2>5. CASE TaskRearm \/ TaskCloseWs \/ TaskCloseHttp \/ TaskTimeoutGone \/ TaskUpgrade
    <3>1. batch # <<>> /\ NextTask /\ UNCHANGED tasks
      BY <2>5 DEF TaskRearm, TaskCloseWs, TaskCloseHttp, TaskTimeoutGone, TaskUpgrade,
                  RunningClose, Running
    <3> QED BY <2>4, <3>1
  <2>6. CASE DispatchHup
    <3>1. PICK e \in events :
            /\ e.src = "client" /\ e.ev = "hup"
            /\ tasks' = Append(tasks, Task("Close", e.fd, e.conn)) /\ UNCHANGED batch
      BY <2>6 DEF DispatchHup
    <3>2. e.fd \in Fds /\ e.conn \in Conns /\ "Close" \in Actions
      BY <2>0, <3>1, EventType DEF Actions
    <3> QED BY <2>1, <2>2, <3>1, <3>2
  <2>7. CASE TickExpire
    <3>1. /\ timers # <<>> /\ UNCHANGED batch
          /\ \/ UNCHANGED tasks
             \/ tasks' = Append(tasks, Task("Timeout", Head(timers).fd, Head(timers).conn))
      BY <2>7 DEF TickExpire
    <3>2. Head(timers) \in Timers
      BY <2>0, <3>1 DEF TypeOK
    <3>3. Head(timers).fd \in Fds /\ Head(timers).conn \in Conns
      BY <3>2, RecordTypes
    <3> QED BY <2>1, <2>2, <3>1, <3>3
  <2>8. ASSUME NEW w \in Workers, WsBroadcast(w) PROVE Mail!Next
    <3>1. PICK fd \in Fds : ws[fd] # None /\ tasks' = Append(tasks, Task("Write", fd, ws[fd]))
      BY <2>8 DEF WsBroadcast
    <3>2. UNCHANGED batch /\ "Write" \in Actions /\ ws[fd] \in Conns
      BY <2>0, <2>8, <3>1 DEF WsBroadcast, loopVars, Actions, TypeOK, Conns, None
    <3> QED BY <2>1, <2>2, <3>1, <3>2
  <2>9. ASSUME NEW w \in Workers, WorkerPost(w) PROVE Mail!Next
    <3>1. /\ tasks' = Append(tasks, Task(work[w].act, work[w].job.fd, work[w].job.conn))
          /\ UNCHANGED batch /\ work[w].at = "post"
      BY <2>9 DEF WorkerPost, loopVars
    <3>2. work[w].job \in Jobs /\ work[w].act \in Actions
      BY <2>0, <3>1, WorkTypes
    <3>3. work[w].job.fd \in Fds /\ work[w].job.conn \in Conns
      BY <3>2, RecordTypes
    <3> QED BY <2>1, <2>2, <3>1, <3>2, <3>3
  <2>10. ASSUME NEW w \in Workers,
                WorkerTake(w) \/ WorkerDrop(w) \/ HttpRead(w) \/ HttpWrite(w) \/ WsHandler(w)
         PROVE  UNCHANGED <<tasks, batch>>
    BY <2>10 DEF WorkerTake, WorkerDrop, HttpRead, HttpWrite, WsHandler, loopVars
  <2>11. CASE MainReactor \/ EpollWait \/ UNCHANGED vars
    BY <2>11 DEF MainReactor, Accept, ForwardTick, EpollWait, vars, loopVars
  <2>12. CASE \/ DispatchDone \/ DispatchPipe \/ DispatchIo \/ HandleNewConnection
              \/ TickNothing \/ MsgsDone \/ RemoveFd \/ WakeupDone
    BY <2>12 DEF DispatchDone, DispatchPipe, DispatchIo, HandleNewConnection, TickNothing,
                 MsgsDone, RemoveFd, WakeupDone
  <2> QED BY <2>3, <2>5, <2>6, <2>7, <2>8, <2>9, <2>10, <2>11, <2>12
          DEF Next, Dispatch, Worker
<1>3. Safe => []Typed
  BY Typing, SwitchedStays, PostActsStays, PTL DEF Typed
<1> QED BY <1>1, <1>2, <1>3, PTL DEF Safe, Mail!Safe
=============================================================================
