-------------------------------- MODULE Server --------------------------------
(***************************************************************************)
(* The whole server from the accept loop to the end of the destructor: the *)
(* main reactor, the pipes and loops of the SubReactors, the worker pool   *)
(* and the request handlers with the database connections and the sessions *)
(* they share.  The parts have modules of their own; here they are as      *)
(* coarse as their order needs: a connection is its number, the pool's     *)
(* queue and a SubReactor's tasks change in one step.                      *)
(***************************************************************************)
EXTENDS SqlPool

CONSTANTS NumReactors,  \* m_sub_reactor_num
          Users,        \* the names clients register and log in with
          PipeCap,      \* the messages that fit into a SubReactor's pipe
          Batch,        \* the messages one read of the pipe takes
          MaxEvents,    \* bound: the connections accepted and signals raised,
                        \* and then one more stop signal
          MaxJobs       \* bound: the requests that clients send

ASSUME NumReactorsAssumption == NumReactors \in Nat \ {0}
ASSUME PipeAssumption == PipeCap \in Nat \ {0} /\ Batch \in Nat \ {0}
ASSUME BoundsAssumption == MaxEvents \in Nat /\ MaxJobs \in Nat

VARIABLES
  mpc,       \* where the main thread is
  turn,      \* the SubReactor a loop of the main thread has come to
  sigs,      \* what sig_handler wrote to m_pipefd for the main loop to read
  alarm,     \* an alarm is set
  raised,    \* the signals raised so far
  stop,      \* stop_server
  accepted,  \* m_round_robin_counter
  pipe,      \* pipe[r]: the messages in the pipe of SubReactor r
  rpc,       \* rpc[r]: "poll", "batch", "ended" or "deleted"
  conn,      \* conn[c]: "none", "dispatched", "armed" or "busy"
  tasks,     \* tasks[r]: the connections whose answers wait in m_task_queue
  queue,     \* m_workqueue: the connections to be read
  poolStop,  \* m_stop of the pool
  job,       \* job[w]: what worker w is doing for which connection
  jobs,      \* the requests sent so far
  users,     \* the rows of the table users
  sessions,  \* m_context.sessions, <<id, user>>
  logins,    \* history: the sessions that login has opened
  known,     \* history: the ids that clients have been told
  logouts    \* history: the ids that clients have logged out

mainVars == <<mpc, turn, sigs, alarm, raised, stop, accepted>>
loopVars == <<pipe, rpc, conn, tasks>>
poolVars == <<queue, poolStop, job, jobs>>
dataVars == <<users, sessions, logins, known, logouts>>
vars == <<mainVars, loopVars, poolVars, dataVars, sqlVars>>

Reactors == 1 .. NumReactors
Conns == 1 .. MaxEvents
Ids == 1 .. MaxJobs
Stop == -1
Tick == -2
NoConn == 0

Home(c) == ((c - 1) % NumReactors) + 1

Idle == [conn |-> NoConn, step |-> "idle", arg |-> 0]
Gone == [Idle EXCEPT !.step = "exited"]

\* Users may have registered in an earlier run of the program.
Init ==
  /\ SqlInit
  /\ mpc = "loop" /\ turn = 1
  /\ sigs = <<>> /\ alarm = TRUE /\ raised = 0
  /\ stop = FALSE /\ accepted = 0
  /\ pipe = [r \in Reactors |-> <<>>]
  /\ rpc = [r \in Reactors |-> "poll"]
  /\ conn = [c \in Conns |-> "none"]
  /\ tasks = [r \in Reactors |-> {}]
  /\ queue = <<>> /\ poolStop = FALSE /\ jobs = 0
  /\ job = [w \in Workers |-> Idle]
  /\ users \in SUBSET Users /\ sessions = {}
  /\ logins = {} /\ known = {} /\ logouts = {}

-----------------------------------------------------------------------------
(***************************************************************************)
(* The main reactor.  The write end of a pipe blocks: a message is written *)
(* when there is room for it.                                              *)
(***************************************************************************)
Write(r, m) ==
  /\ Len(pipe[r]) < PipeCap
  /\ pipe' = [pipe EXCEPT ![r] = Append(@, m)]
  /\ UNCHANGED <<rpc, tasks>>

Go(from, to) == mpc = from /\ mpc' = to

Alive == mpc # "crashed"

\* The pipe that the main thread is to write to, and whether the write blocks.
Target == IF mpc = "give" THEN Home(accepted + 1) ELSE turn

Blocked ==
  /\ mpc \in {"give", "tick", "stop", "destroy"} /\ Target \in Reactors
  /\ Len(pipe[Target]) = PipeCap

\* The handlers are installed without SA_RESTART: a write that a signal finds
\* blocked fails, and the message is dropped, with an accepted connection the
\* descriptor too.  The round-robin counter has been advanced before the write.
Interrupt ==
  \/ UNCHANGED <<mpc, turn, accepted>>
  \/ /\ Blocked /\ mpc = "give"
     /\ mpc' = "loop" /\ accepted' = accepted + 1 /\ UNCHANGED turn
  \/ /\ Blocked /\ mpc # "give"
     /\ turn' = turn + 1 /\ UNCHANGED <<mpc, accepted>>

\* sig_handler.  A signal that is raised when the loop has ended and that finds
\* no write to interrupt is left out: nobody reads its message any more.
Raise(s) ==
  /\ raised' = raised + 1
  /\ mpc \in {"loop", "give", "tick", "stop"} \/ Blocked
  /\ sigs' = IF mpc = "destroy" THEN <<>> ELSE Append(sigs, s)
  /\ Interrupt
  /\ UNCHANGED <<stop, loopVars, poolVars, dataVars, sqlVars>>

Alarm ==
  /\ accepted + raised < MaxEvents
  /\ alarm /\ alarm' = FALSE
  /\ Raise(Tick)

\* SIGINT or SIGTERM, more than once if the user insists.
Signal ==
  /\ accepted + raised <= MaxEvents
  /\ Raise(Stop)
  /\ UNCHANGED alarm

\* accept returns a connection, and it is written to the pipe of the SubReactor
\* whose turn it is, at once or when there is room.  The events that epoll
\* reported together with a stop signal are still handled.
Give(c) ==
  /\ Write(Home(c), c)
  /\ mpc' = "loop" /\ accepted' = c
  /\ conn' = [conn EXCEPT ![c] = "dispatched"]
  /\ UNCHANGED <<turn, sigs, alarm, raised, stop, poolVars, dataVars, sqlVars>>

Accept ==
  /\ mpc = "loop" /\ accepted + raised < MaxEvents
  /\ LET c == accepted + 1 IN
       \/ Give(c)
       \/ Len(pipe[Home(c)]) = PipeCap /\ mpc' = "give"
          /\ UNCHANGED <<turn, sigs, alarm, raised, stop, accepted, loopVars, poolVars, dataVars, sqlVars>>

HandleSignal ==
  /\ sigs # <<>>
  /\ Go("loop", IF Head(sigs) = Stop THEN "stop" ELSE "tick")
  /\ sigs' = Tail(sigs)
  /\ stop' = (stop \/ Head(sigs) = Stop)
  /\ UNCHANGED <<turn, alarm, raised, accepted, loopVars, poolVars, dataVars, sqlVars>>

\* The message goes to one SubReactor after the other, in the loop for a signal
\* and in the destructor.  After a tick the next alarm is set.
Tell ==
  /\ mpc \in {"tick", "stop", "destroy"} /\ turn <= NumReactors
  /\ Write(turn, IF mpc = "tick" THEN Tick ELSE Stop)
  /\ turn' = turn + 1
  /\ UNCHANGED <<mpc, sigs, alarm, raised, stop, accepted, conn, poolVars, dataVars, sqlVars>>

Told ==
  /\ turn > NumReactors
  /\ Go("tick", "loop") \/ Go("stop", "loop")
  /\ turn' = 1 /\ alarm' = (alarm \/ mpc = "tick")
  /\ UNCHANGED <<sigs, raised, stop, accepted, loopVars, poolVars, dataVars, sqlVars>>

\* Mutant: the destructor relies on stop_server and writes no message.
LoopEndsUntold ==
  /\ Go("loop", "destroy")
  /\ stop' = TRUE /\ turn' = NumReactors + 1 /\ sigs' = <<>>
  /\ UNCHANGED <<alarm, raised, accepted, loopVars, poolVars, dataVars, sqlVars>>

\* The loop ends after a stop signal, or because epoll_wait failed, and reads
\* m_pipefd no more; the destructor sets stop_server again.
LoopEnds ==
  /\ Go("loop", "destroy")
  /\ stop' = TRUE /\ sigs' = <<>>
  /\ UNCHANGED <<turn, alarm, raised, accepted, loopVars, poolVars, dataVars, sqlVars>>

-----------------------------------------------------------------------------
(***************************************************************************)
(* ~WebServer: join the SubReactor threads, delete the SubReactors with    *)
(* their pipes, join the workers, close the database connections.          *)
(***************************************************************************)
JoinReactors ==
  /\ Go("destroy", "delete") /\ turn > NumReactors
  /\ \A r \in Reactors : rpc[r] = "ended"
  /\ turn' = 1
  /\ UNCHANGED <<sigs, alarm, raised, stop, accepted, loopVars, poolVars, dataVars, sqlVars>>

DeleteReactor ==
  /\ mpc = "delete" /\ turn <= NumReactors
  /\ rpc' = [rpc EXCEPT ![turn] = "deleted"]
  /\ pipe' = [pipe EXCEPT ![turn] = <<>>]
  /\ tasks' = [tasks EXCEPT ![turn] = {}]
  /\ turn' = turn + 1
  /\ UNCHANGED <<mpc, sigs, alarm, raised, stop, accepted, conn, poolVars, dataVars, sqlVars>>

StopPool ==
  /\ Go("delete", "join") /\ turn > NumReactors
  /\ poolStop' = TRUE
  /\ UNCHANGED <<turn, sigs, alarm, raised, stop, accepted, loopVars, queue, job, jobs, dataVars, sqlVars>>

\* Mutant: the workers are told to stop and not waited for.
JoinNoWorkers ==
  /\ Go("join", "close")
  /\ UNCHANGED <<turn, sigs, alarm, raised, stop, accepted, loopVars, poolVars, dataVars, sqlVars>>

JoinWorkers ==
  /\ Go("join", "close")
  /\ \A w \in Workers : job[w] = Gone
  /\ UNCHANGED <<turn, sigs, alarm, raised, stop, accepted, loopVars, poolVars, dataVars, sqlVars>>

ClosePool ==
  /\ Go("close", "done")
  /\ DestroyPool
  /\ UNCHANGED <<turn, sigs, alarm, raised, stop, accepted, loopVars, poolVars, dataVars>>

-----------------------------------------------------------------------------
(***************************************************************************)
(* SubReactor::eventLoop: what one event does, and the test of stop_server *)
(* when the events that epoll_wait reported are handled.                   *)
(***************************************************************************)
Looping(r) == rpc[r] \in {"poll", "batch"}

\* One read takes up to Batch messages; those behind a stop message are dropped.
ReadPipe(r) ==
  /\ Looping(r) /\ pipe[r] # <<>>
  /\ LET n == IF Len(pipe[r]) < Batch THEN Len(pipe[r]) ELSE Batch
         msgs == SubSeq(pipe[r], 1, n)
         seen == {i \in 1 .. n : \A j \in 1 .. i : msgs[j] # Stop}
     IN /\ pipe' = [pipe EXCEPT ![r] = SubSeq(@, n + 1, Len(@))]
        /\ conn' = [c \in Conns |-> IF \E i \in seen : msgs[i] = c THEN "armed" ELSE conn[c]]
        /\ stop' = (stop \/ seen # 1 .. n)
        /\ rpc' = [rpc EXCEPT ![r] = IF stop' THEN "ended" ELSE "batch"]
  /\ UNCHANGED <<mpc, turn, sigs, alarm, raised, accepted, tasks, poolVars, dataVars, sqlVars>>

\* handle_wakeup: the answered connections wait for their next request.
RunTasks(r) ==
  /\ Looping(r) /\ tasks[r] # {}
  /\ conn' = [c \in Conns |-> IF c \in tasks[r] THEN "armed" ELSE conn[c]]
  /\ tasks' = [tasks EXCEPT ![r] = {}]
  /\ rpc' = [rpc EXCEPT ![r] = "batch"]
  /\ UNCHANGED <<mainVars, pipe, poolVars, dataVars, sqlVars>>

\* A request arrives, and handle_read is queued for the workers.
Dispatch(r, c) ==
  /\ Looping(r) /\ Home(c) = r /\ conn[c] = "armed" /\ jobs < MaxJobs
  /\ conn' = [conn EXCEPT ![c] = "busy"]
  /\ queue' = Append(queue, c) /\ jobs' = jobs + 1
  /\ rpc' = [rpc EXCEPT ![r] = "batch"]
  /\ UNCHANGED <<mainVars, pipe, tasks, poolStop, job, dataVars, sqlVars>>

LoopTest(r) ==
  /\ rpc[r] = "batch"
  /\ rpc' = [rpc EXCEPT ![r] = IF stop THEN "ended" ELSE "poll"]
  /\ UNCHANGED <<mainVars, pipe, conn, tasks, poolVars, dataVars, sqlVars>>

-----------------------------------------------------------------------------
(***************************************************************************)
(* The workers and the handlers.  A request registers a user, logs one in, *)
(* or logs out an id that a client was told; any other is answered and     *)
(* changes nothing: the files, the validation of a session, every request  *)
(* that is refused for a missing field.  The argument of a job is the user *)
(* or the id, and in the end the id that the answer tells the client.      *)
(***************************************************************************)
Step(w, from, to, arg) ==
  /\ Alive /\ job[w].step = from
  /\ job' = [job EXCEPT ![w] = [conn |-> @.conn, step |-> to, arg |-> arg]]

TakeJob(w) ==
  /\ Alive /\ job[w].step = "idle" /\ queue # <<>>
  /\ queue' = Tail(queue)
  /\ LET Start(step, arg) ==
           job' = [job EXCEPT ![w] = [conn |-> Head(queue), step |-> step, arg |-> arg]]
     IN \/ Start("answer", 0)
        \/ \E u \in Users : Start("insert", u) \/ Start("select", u)
        \/ \E id \in known : Start("erase", id)
  /\ UNCHANGED <<mainVars, loopVars, poolStop, jobs, dataVars, sqlVars>>

\* connectionRAII: from the call of GetConnection to its return.
Connect(w) ==
  /\ Alive /\ job[w].step \in {"insert", "select"}
  /\ Ask(w) \/ Sleep(w) \/ GetConnection(w)
  /\ UNCHANGED <<mainVars, loopVars, poolVars, dataVars>>

SpuriousWake(w) ==
  /\ Alive /\ WakeSpuriously(w)
  /\ UNCHANGED <<mainVars, loopVars, poolVars, dataVars>>

\* mysql_query: the database may fail, user names are unique.
Insert(w) ==
  /\ place[w] = "has" /\ Step(w, "insert", "answer", 0)
  /\ users' \in {users, users \cup {job[w].arg}}
  /\ UNCHANGED <<mainVars, loopVars, queue, poolStop, jobs, sessions, logins, known, logouts, sqlVars>>

\* Mutant: a result without rows is taken for a match.
SelectEmpty(w) ==
  /\ place[w] = "has"
  /\ Step(w, "select", "answer", 0) \/ Step(w, "select", "store", job[w].arg)
  /\ UNCHANGED <<mainVars, loopVars, queue, poolStop, jobs, dataVars, sqlVars>>

\* The row is found, or the answer is 401 or 500.
Select(w) ==
  /\ place[w] = "has"
  /\ \/ Step(w, "select", "answer", 0)
     \/ Step(w, "select", "store", job[w].arg) /\ job[w].arg \in users
  /\ UNCHANGED <<mainVars, loopVars, queue, poolStop, jobs, dataVars, sqlVars>>

\* generate_session_id draws an id that was never drawn before.
StoreSession(w) ==
  LET id == Cardinality(logins) + 1 IN
  /\ Step(w, "store", "answer", id)
  /\ sessions' = {s \in sessions : s[1] # id} \cup {<<id, job[w].arg>>}
  /\ logins' = logins \cup {<<id, job[w].arg>>}
  /\ UNCHANGED <<mainVars, loopVars, queue, poolStop, jobs, users, known, logouts, sqlVars>>

\* handle_logout erases the session, if it is there.
EraseSession(w) ==
  /\ Step(w, "erase", "answer", 0)
  /\ sessions' = {s \in sessions : s[1] # job[w].arg}
  /\ logouts' = logouts \cup {job[w].arg}
  /\ UNCHANGED <<mainVars, loopVars, queue, poolStop, jobs, users, logins, known, sqlVars>>

Disconnect(w) ==
  /\ Alive /\ job[w].step = "answer"
  /\ ReleaseConnection(w) \/ Notify(w)
  /\ UNCHANGED <<mainVars, loopVars, poolVars, dataVars>>

\* addTask.  A SubReactor that has been deleted is written to all the same: the
\* task is lost in freed memory, or the program crashes.
PostAnswer(w) ==
  LET c == job[w].conn  r == Home(c) IN
  /\ Alive /\ job[w].step = "answer" /\ place[w] = "out"
  /\ job' = [job EXCEPT ![w] = Idle]
  /\ known' = known \cup ({job[w].arg} \ {0})
  /\ IF rpc[r] = "deleted"
       THEN mpc' \in {mpc, "crashed"} /\ UNCHANGED tasks
       ELSE tasks' = [tasks EXCEPT ![r] = @ \cup {c}] /\ UNCHANGED mpc
  /\ UNCHANGED <<turn, sigs, alarm, raised, stop, accepted, pipe, rpc, conn,
                 queue, poolStop, jobs, users, sessions, logins, logouts, sqlVars>>

ExitWorker(w) ==
  /\ Alive /\ poolStop /\ queue = <<>> /\ job[w].step = "idle"
  /\ job' = [job EXCEPT ![w] = Gone]
  /\ UNCHANGED <<mainVars, loopVars, queue, poolStop, jobs, dataVars, sqlVars>>

-----------------------------------------------------------------------------
MainStep ==
  \/ (mpc = "give" /\ Give(accepted + 1)) \/ HandleSignal \/ Tell \/ Told \/ (stop /\ LoopEnds)
  \/ JoinReactors \/ DeleteReactor \/ StopPool \/ JoinWorkers \/ ClosePool

ReactorStep(r) == ReadPipe(r) \/ RunTasks(r) \/ LoopTest(r)

WorkerStep(w) ==
  \/ TakeJob(w) \/ Connect(w) \/ Insert(w) \/ Select(w) \/ StoreSession(w)
  \/ EraseSession(w) \/ Disconnect(w) \/ PostAnswer(w) \/ ExitWorker(w)

\* After a crash nothing moves; the loops have ended when one can happen.
Next ==
  \/ Alarm \/ Signal \/ Accept \/ LoopEnds \/ MainStep
  \/ \E r \in Reactors : ReactorStep(r) \/ \E c \in Conns : Dispatch(r, c)
  \/ \E w \in Workers : WorkerStep(w) \/ SpuriousWake(w)

Safe == Init /\ [][Next]_vars

\* Every thread runs when it can; a request, a signal, an alarm and a failure of
\* epoll_wait may stay away.
Spec ==
  /\ Safe
  /\ WF_vars(MainStep)
  /\ \A r \in Reactors : WF_vars(ReactorStep(r))
  /\ \A w \in Workers : WF_vars(WorkerStep(w))

-----------------------------------------------------------------------------
Steps == {"idle", "insert", "select", "store", "erase", "answer", "exited"}

TypeOK ==
  /\ SqlTypeOK
  /\ mpc \in {"loop", "give", "tick", "stop", "destroy", "delete", "join", "close", "done", "crashed"}
  /\ turn \in 1 .. NumReactors + 1
  /\ raised \in 0 .. MaxEvents + 1 /\ sigs \in Seq({Stop, Tick})
  /\ alarm \in BOOLEAN /\ stop \in BOOLEAN /\ poolStop \in BOOLEAN
  /\ accepted \in 0 .. MaxEvents
  /\ pipe \in [Reactors -> Seq(Conns \cup {Stop, Tick})]
  /\ \A r \in Reactors : Len(pipe[r]) <= PipeCap
  /\ rpc \in [Reactors -> {"poll", "batch", "ended", "deleted"}]
  /\ conn \in [Conns -> {"none", "dispatched", "armed", "busy"}]
  /\ tasks \in [Reactors -> SUBSET Conns]
  /\ queue \in Seq(Conns) /\ jobs \in 0 .. MaxJobs
  /\ job \in [Workers -> [conn : Conns \cup {NoConn}, step : Steps,
                          arg : Users \cup Ids \cup {0}]]
  /\ users \subseteq Users /\ sessions \subseteq Ids \X Users
  /\ logins \subseteq Ids \X Users /\ known \subseteq Ids /\ logouts \subseteq Ids

\* The sessions are those that were opened and not closed: an id that a client
\* was told and has not logged out opens the session of the user that logged in
\* with it, who is registered; one that was logged out opens none.
SessionsRight ==
  /\ sessions = {s \in logins : s[1] \notin logouts}
  /\ \A s, t \in logins : s[1] = t[1] => s = t
  /\ \A s \in logins : s[2] \in users

\* When the destructor ends, every handler has ended and every connection to the
\* database is closed.
ClosedAtExit ==
  mpc = "done" => open = {} /\ queue = <<>> /\ \A w \in Workers : job[w] = Gone

\* The main thread writes to a full pipe whose SubReactor has left its loop.
Stuck == Blocked /\ rpc[Target] = "ended"

\* The pool as the server uses it.
Doing == [w \in Workers |->
  CASE job[w].step = "idle" -> "nothing" [] job[w].step = "exited" -> "left" [] OTHER -> "job"]

Pool == INSTANCE WorkerPool WITH Items <- Conns, stopped <- poolStop, doing <- Doing

\* A stop signal ends the program, unless the main thread is stuck at a pipe
\* that nobody reads any more.
StopEnds ==
  stop \/ Stop \in {sigs[i] : i \in DOMAIN sigs}
    ~> mpc \in {"done", "crashed"} \/ Stuck

\* What the order of the destructor does not give: no worker posts an answer to
\* a SubReactor that is deleted.
NoUseAfterDelete == mpc # "crashed"
=============================================================================
