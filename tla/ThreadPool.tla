----------------------------- MODULE ThreadPool -----------------------------
(***************************************************************************)
(* The worker pool: a bounded list of tasks behind a mutex and a condition *)
(* variable.  What a thread does while it holds m_queuelocker is one step; *)
(* the notifications come after the unlock and are steps of their own.     *)
(* The SubReactors are the only threads that append, and the destructor    *)
(* runs after they were joined (WebServer::~WebServer).                    *)
(***************************************************************************)
EXTENDS Naturals, Sequences, FiniteSets

CONSTANTS Workers,      \* m_threads
          Appenders,    \* the SubReactor threads
          MaxRequests,  \* m_max_requests
          MaxAppends    \* bound: the calls of append by each SubReactor

ASSUME WorkersAssumption == Workers # {} /\ IsFiniteSet(Workers)
ASSUME AppendersAssumption == IsFiniteSet(Appenders)
ASSUME MaxRequestsAssumption == MaxRequests \in Nat \ {0}
ASSUME MaxAppendsAssumption == MaxAppends \in Nat

VARIABLES workqueue,    \* m_workqueue
          stop,         \* m_stop
          wpc,          \* wpc[w]: where worker w is in run
          apc,          \* apc[a]: where SubReactor a is in append
          calls,        \* calls[a]: the calls of append that a has begun
          mpc,          \* where the destructor is
          accepted,     \* history: the tasks append accepted, in order
          taken,        \* history: the tasks the workers took, in order
          finished      \* history: the number of tasks run to their end

vars == <<workqueue, stop, wpc, apc, calls, mpc, accepted, taken, finished>>

Tasks == [by : Appenders, n : 1 .. MaxAppends]

Init ==
  /\ workqueue = <<>> /\ accepted = <<>> /\ taken = <<>> /\ finished = 0
  /\ stop = FALSE /\ mpc = "up"
  /\ wpc = [w \in Workers |-> "lock"]
  /\ apc = [a \in Appenders |-> "idle"]
  /\ calls = [a \in Appenders |-> 0]

(***************************************************************************)
(* append.  The task is pushed unless the list is full; notify_one follows *)
(* the unlock and wakes one of the waiting threads, if there is any.       *)
(***************************************************************************)
\* Mutant: one task more than the limit is accepted.
AppendPushOver(a) ==
  /\ mpc = "up" /\ apc[a] = "idle" /\ calls[a] < MaxAppends
  /\ Len(workqueue) <= MaxRequests
  /\ LET task == [by |-> a, n |-> calls[a] + 1] IN
       /\ workqueue' = Append(workqueue, task)
       /\ accepted' = Append(accepted, task)
  /\ calls' = [calls EXCEPT ![a] = @ + 1]
  /\ apc' = [apc EXCEPT ![a] = "pushed"]
  /\ UNCHANGED <<stop, wpc, mpc, taken, finished>>

\* Mutant: only the push into an empty list is followed by notify_one.
AppendPushFirst(a) ==
  /\ mpc = "up" /\ apc[a] = "idle" /\ calls[a] < MaxAppends
  /\ Len(workqueue) < MaxRequests
  /\ LET task == [by |-> a, n |-> calls[a] + 1] IN
       /\ workqueue' = Append(workqueue, task)
       /\ accepted' = Append(accepted, task)
  /\ calls' = [calls EXCEPT ![a] = @ + 1]
  /\ apc' = IF workqueue = <<>> THEN [apc EXCEPT ![a] = "pushed"] ELSE apc
  /\ UNCHANGED <<stop, wpc, mpc, taken, finished>>

AppendPush(a) ==
  /\ mpc = "up" /\ apc[a] = "idle" /\ calls[a] < MaxAppends
  /\ Len(workqueue) < MaxRequests
  /\ LET task == [by |-> a, n |-> calls[a] + 1] IN
       /\ workqueue' = Append(workqueue, task)
       /\ accepted' = Append(accepted, task)
  /\ calls' = [calls EXCEPT ![a] = @ + 1]
  /\ apc' = [apc EXCEPT ![a] = "pushed"]
  /\ UNCHANGED <<stop, wpc, mpc, taken, finished>>

AppendReject(a) ==
  /\ mpc = "up" /\ apc[a] = "idle" /\ calls[a] < MaxAppends
  /\ Len(workqueue) >= MaxRequests
  /\ calls' = [calls EXCEPT ![a] = @ + 1]
  /\ UNCHANGED <<workqueue, stop, wpc, apc, mpc, accepted, taken, finished>>

At(l) == {w \in Workers : wpc[w] = l}

Waiting == At("wait")

Notifying == {a \in Appenders : apc[a] = "pushed"}

\* Mutant: append returns without notify_one.
AppendNotifyNone(a) ==
  /\ apc[a] = "pushed"
  /\ apc' = [apc EXCEPT ![a] = "idle"]
  /\ UNCHANGED <<workqueue, stop, wpc, calls, mpc, accepted, taken, finished>>

AppendNotify(a) ==
  /\ apc[a] = "pushed"
  /\ \/ Waiting = {} /\ UNCHANGED wpc
     \/ \E w \in Waiting : wpc' = [wpc EXCEPT ![w] = "lock"]
  /\ apc' = [apc EXCEPT ![a] = "idle"]
  /\ UNCHANGED <<workqueue, stop, calls, mpc, accepted, taken, finished>>

(***************************************************************************)
(* run.  With the lock held a worker takes the front task, leaves when the *)
(* pool stops and nothing is queued, or gives up the lock to wait.  A wait *)
(* may also end for no reason, and tests its condition again.              *)
(***************************************************************************)
RunWait(w) ==
  /\ wpc[w] = "lock" /\ workqueue = <<>> /\ ~stop
  /\ wpc' = [wpc EXCEPT ![w] = "wait"]
  /\ UNCHANGED <<workqueue, stop, apc, calls, mpc, accepted, taken, finished>>

RunSpurious(w) ==
  /\ wpc[w] = "wait"
  /\ wpc' = [wpc EXCEPT ![w] = "lock"]
  /\ UNCHANGED <<workqueue, stop, apc, calls, mpc, accepted, taken, finished>>

RunTake(w) ==
  /\ wpc[w] = "lock" /\ workqueue # <<>>
  /\ taken' = Append(taken, Head(workqueue))
  /\ workqueue' = Tail(workqueue)
  /\ wpc' = [wpc EXCEPT ![w] = "task"]
  /\ UNCHANGED <<stop, apc, calls, mpc, accepted, finished>>

RunTaskEnd(w) ==
  /\ wpc[w] = "task"
  /\ finished' = finished + 1
  /\ wpc' = [wpc EXCEPT ![w] = "lock"]
  /\ UNCHANGED <<workqueue, stop, apc, calls, mpc, accepted, taken>>

\* Mutant: a worker leaves as soon as the pool stops.
RunExitEarly(w) ==
  /\ wpc[w] = "lock" /\ stop
  /\ wpc' = [wpc EXCEPT ![w] = "exited"]
  /\ UNCHANGED <<workqueue, stop, apc, calls, mpc, accepted, taken, finished>>

RunExit(w) ==
  /\ wpc[w] = "lock" /\ stop /\ workqueue = <<>>
  /\ wpc' = [wpc EXCEPT ![w] = "exited"]
  /\ UNCHANGED <<workqueue, stop, apc, calls, mpc, accepted, taken, finished>>

(***************************************************************************)
(* ~ThreadPool: set m_stop under the lock, notify_all, join every worker.  *)
(***************************************************************************)
DestroyStop ==
  /\ mpc = "up" /\ \A a \in Appenders : apc[a] = "idle"
  /\ stop' = TRUE
  /\ mpc' = "stopped"
  /\ UNCHANGED <<workqueue, wpc, apc, calls, accepted, taken, finished>>

\* Mutant: the destructor notifies one thread, not all of them.
DestroyNotifyOne ==
  /\ mpc = "stopped"
  /\ \/ Waiting = {} /\ UNCHANGED wpc
     \/ \E w \in Waiting : wpc' = [wpc EXCEPT ![w] = "lock"]
  /\ mpc' = "joining"
  /\ UNCHANGED <<workqueue, stop, apc, calls, accepted, taken, finished>>

DestroyNotify ==
  /\ mpc = "stopped"
  /\ wpc' = [w \in Workers |-> IF wpc[w] = "wait" THEN "lock" ELSE wpc[w]]
  /\ mpc' = "joining"
  /\ UNCHANGED <<workqueue, stop, apc, calls, accepted, taken, finished>>

DestroyJoin ==
  /\ mpc = "joining" /\ \A w \in Workers : wpc[w] = "exited"
  /\ mpc' = "down"
  /\ UNCHANGED <<workqueue, stop, wpc, apc, calls, accepted, taken, finished>>

Run(w) == RunWait(w) \/ RunTake(w) \/ RunTaskEnd(w) \/ RunExit(w)

Destroy == DestroyNotify \/ DestroyJoin

Next ==
  \/ \E a \in Appenders : AppendPush(a) \/ AppendReject(a) \/ AppendNotify(a)
  \/ \E w \in Workers : Run(w) \/ RunSpurious(w)
  \/ DestroyStop \/ Destroy

Safe == Init /\ [][Next]_vars

\* Every thread that can run does; the tasks end; nobody has to shut down.
Spec ==
  /\ Safe
  /\ \A w \in Workers : WF_vars(Run(w))
  /\ \A a \in Appenders : WF_vars(AppendNotify(a))
  /\ WF_vars(Destroy)

-----------------------------------------------------------------------------
TypeOK ==
  /\ workqueue \in Seq(Tasks) /\ Len(workqueue) <= MaxRequests
  /\ accepted \in Seq(Tasks) /\ taken \in Seq(Tasks)
  /\ finished \in Nat
  /\ stop \in BOOLEAN
  /\ wpc \in [Workers -> {"lock", "wait", "task", "exited"}]
  /\ apc \in [Appenders -> {"idle", "pushed"}]
  /\ calls \in [Appenders -> 0 .. MaxAppends]
  /\ mpc \in {"up", "stopped", "joining", "down"}

\* append and run together lose no notification: while a worker sleeps there
\* are at least as many workers coming for the queue, or notifications on
\* their way, as there are queued tasks.
NoSleeperNeeded ==
  Waiting # {} =>
    Len(workqueue) <= Cardinality(At("lock")) + Cardinality(Notifying)

\* Every accepted task is taken once, in the order of acceptance.
TakenInOrder == accepted = taken \o workqueue

\* When the destructor has joined the workers, everything append accepted has
\* been run to its end: shutting the pool down drops no task.
DrainedWhenDown ==
  mpc = "down" => workqueue = <<>> /\ finished = Len(accepted)

Abstract == INSTANCE Fifo WITH Items <- Tasks, delivered <- taken

\* The pool implements a fair first-in first-out queue of accepted tasks.
ImplementsFifo == Abstract!Spec

\* Seen from outside a worker that waits for the lock or sleeps does nothing.
Doing == [w \in Workers |->
  CASE wpc[w] = "task" -> "job" [] wpc[w] = "exited" -> "left" [] OTHER -> "nothing"]

Outside == INSTANCE WorkerPool
  WITH Items <- Tasks, queue <- workqueue, stopped <- stop, doing <- Doing

\* A destructor that begins ends: no worker sleeps through the stop.
DestroyEnds == mpc = "stopped" ~> mpc = "down"
=============================================================================
