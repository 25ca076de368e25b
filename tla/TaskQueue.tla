----------------------------- MODULE TaskQueue -----------------------------
(***************************************************************************)
(* The mailbox of a SubReactor: any thread posts a task with addTask, the  *)
(* reactor thread runs the tasks in handle_wakeup.  The mutex protects the *)
(* queue only; the eventfd that makes epoll_wait return is written after   *)
(* the unlock and read before the lock, so a post and a wakeup interleave  *)
(* between those steps.                                                    *)
(***************************************************************************)
EXTENDS Naturals, Sequences

CONSTANTS Posters,     \* the threads that call addTask
          Reactor,     \* the reactor thread, which posts to itself too
          MaxTasks     \* bound: the tasks that each thread posts

ASSUME PostersAssumption == Reactor \in Posters
ASSUME MaxTasksAssumption == MaxTasks \in Nat

VARIABLES queue,       \* m_task_queue, guarded by m_task_mutex
          efd,         \* the counter of m_wakeup_fd
          ppc,         \* ppc[p]: where p is in addTask
          sent,        \* sent[p]: the tasks that p has posted
          rpc,         \* where the reactor thread is
          wake,        \* the events being dispatched include m_wakeup_fd
          batch,       \* tasks, the local queue of handle_wakeup
          posted,      \* history: the tasks pushed, in order
          executed     \* history: the tasks run, in order

vars == <<queue, efd, ppc, sent, rpc, wake, batch, posted, executed>>

Tasks == [by : Posters, n : 1 .. MaxTasks]

Init ==
  /\ queue = <<>> /\ batch = <<>> /\ posted = <<>> /\ executed = <<>>
  /\ efd = 0
  /\ ppc = [p \in Posters |-> "idle"]
  /\ sent = [p \in Posters |-> 0]
  /\ rpc = "epoll" /\ wake = FALSE

(***************************************************************************)
(* addTask: push under the lock, then write 1 to the eventfd.  The reactor *)
(* thread calls it while it dispatches events: a hang-up, or the callback  *)
(* of a timer that expired.                                                *)
(***************************************************************************)
AddTaskPush(p) ==
  /\ ppc[p] = "idle" /\ sent[p] < MaxTasks
  /\ p = Reactor => rpc = "dispatch"
  /\ LET task == [by |-> p, n |-> sent[p] + 1] IN
       /\ queue' = Append(queue, task)
       /\ posted' = Append(posted, task)
  /\ sent' = [sent EXCEPT ![p] = @ + 1]
  /\ ppc' = [ppc EXCEPT ![p] = "pushed"]
  /\ UNCHANGED <<efd, rpc, wake, batch, executed>>

AddTaskSignal(p) ==
  /\ ppc[p] = "pushed"
  /\ efd' = efd + 1
  /\ ppc' = [ppc EXCEPT ![p] = "idle"]
  /\ UNCHANGED <<queue, sent, rpc, wake, batch, posted, executed>>

(***************************************************************************)
(* epoll_wait returns because the level-triggered eventfd is readable, or  *)
(* for other events, here those that make the reactor post to itself.      *)
(***************************************************************************)
\* Mutant: handle_wakeup runs without the test for m_wakeup_fd, for any event.
EpollReturnAnyEvent ==
  /\ rpc = "epoll"
  /\ efd > 0 \/ sent[Reactor] < MaxTasks
  /\ wake' = TRUE
  /\ rpc' = "dispatch"
  /\ UNCHANGED <<queue, efd, ppc, sent, batch, posted, executed>>

EpollReturn ==
  /\ rpc = "epoll"
  /\ efd > 0 \/ sent[Reactor] < MaxTasks
  /\ wake' = (efd > 0)
  /\ rpc' = "dispatch"
  /\ UNCHANGED <<queue, efd, ppc, sent, batch, posted, executed>>

EpollAgain ==
  /\ rpc = "dispatch" /\ ~wake /\ ppc[Reactor] = "idle"
  /\ rpc' = "epoll"
  /\ UNCHANGED <<queue, efd, ppc, sent, wake, batch, posted, executed>>

(***************************************************************************)
(* handle_wakeup: read the eventfd, which resets its counter; swap the     *)
(* queue with an empty one under the lock; run the tasks in order.         *)
(***************************************************************************)
ReadEventfd ==
  /\ rpc = "dispatch" /\ wake /\ ppc[Reactor] = "idle"
  /\ efd' = 0
  /\ wake' = FALSE
  /\ rpc' = "swap"
  /\ UNCHANGED <<queue, ppc, sent, batch, posted, executed>>

\* Mutant: only the front task is taken, as by a queue that is popped once.
SwapQueueFront ==
  /\ rpc = "swap"
  /\ batch' = IF queue = <<>> THEN <<>> ELSE <<Head(queue)>>
  /\ queue' = IF queue = <<>> THEN <<>> ELSE Tail(queue)
  /\ rpc' = "run"
  /\ UNCHANGED <<efd, ppc, sent, wake, posted, executed>>

SwapQueue ==
  /\ rpc = "swap"
  /\ batch' = queue
  /\ queue' = <<>>
  /\ rpc' = "run"
  /\ UNCHANGED <<efd, ppc, sent, wake, posted, executed>>

RunTask ==
  /\ rpc = "run" /\ batch # <<>>
  /\ executed' = Append(executed, Head(batch))
  /\ batch' = Tail(batch)
  /\ UNCHANGED <<queue, efd, ppc, sent, rpc, wake, posted>>

\* Mutant: the eventfd is read after the tasks were run, not before the swap.
WakeupDoneThenRead ==
  /\ rpc = "run" /\ batch = <<>>
  /\ rpc' = "dispatch"
  /\ efd' = 0
  /\ UNCHANGED <<queue, ppc, sent, wake, batch, posted, executed>>

WakeupDone ==
  /\ rpc = "run" /\ batch = <<>>
  /\ rpc' = "dispatch"
  /\ UNCHANGED <<queue, efd, ppc, sent, wake, batch, posted, executed>>

ReactorStep ==
  EpollReturn \/ EpollAgain \/ ReadEventfd \/ SwapQueue \/ RunTask \/ WakeupDone

Next ==
  \/ ReactorStep
  \/ \E p \in Posters : AddTaskPush(p) \/ AddTaskSignal(p)

Safe == Init /\ [][Next]_vars

\* A thread inside addTask finishes it, and the reactor thread keeps running.
Spec ==
  /\ Safe
  /\ WF_vars(ReactorStep)
  /\ \A p \in Posters : WF_vars(AddTaskSignal(p))

-----------------------------------------------------------------------------
TypeOK ==
  /\ queue \in Seq(Tasks) /\ batch \in Seq(Tasks)
  /\ posted \in Seq(Tasks) /\ executed \in Seq(Tasks)
  /\ efd \in Nat
  /\ ppc \in [Posters -> {"idle", "pushed"}]
  /\ sent \in [Posters -> 0 .. MaxTasks]
  /\ rpc \in {"epoll", "dispatch", "swap", "run"}
  /\ wake \in BOOLEAN

\* A task that waits in m_task_queue is never forgotten: the eventfd is
\* readable, or its poster is about to write it (the unlock and the write of
\* addTask), or the reactor has read it and is about to take the queue.
NoLostWakeup ==
  queue # <<>> =>
    efd > 0 \/ rpc = "swap" \/ \E p \in Posters : ppc[p] = "pushed"

\* The read in handle_wakeup never fails with EAGAIN (the LOG_ERROR after it):
\* only the reactor resets the counter that epoll_wait reported.
ReadNeverFails == wake => efd > 0

\* Every task posted is run once, in the order of the pushes, across batches.
InOrder == posted = executed \o batch \o queue

Abstract == INSTANCE Fifo WITH Items <- Tasks, accepted <- posted,
                               delivered <- executed

\* Seen from outside there are no locks and no eventfd.
Outside == INSTANCE Mailbox WITH Items <- Tasks, waiting <- queue, running <- batch

\* addTask and handle_wakeup together implement a fair first-in first-out
\* queue: a posted task is eventually run by the reactor thread.
ImplementsFifo == Abstract!Spec
=============================================================================
