-------------------------- MODULE TaskQueueProofs --------------------------
(***************************************************************************)
(* For any set of posting threads and any number of tasks: no wakeup of    *)
(* the reactor is lost, and its mailbox implements a first-in first-out    *)
(* queue.                                                                  *)
(***************************************************************************)
EXTENDS TaskQueue, SequenceTheorems, TLAPS

USE DEF MaxTasksAssumption, PostersAssumption
USE MaxTasksAssumption, PostersAssumption

\* Popping the front of a batch moves it to the end of what was run.
LEMMA MoveHead ==
  ASSUME NEW S, NEW s \in Seq(S), NEW t \in Seq(S), NEW u \in Seq(S), t # <<>>
  PROVE  Append(s, Head(t)) \o Tail(t) \o u = s \o t \o u
<1>1. Append(s, Head(t)) = s \o <<Head(t)>>
  BY AppendIsConcat, HeadTailProperties
<1>2. t = <<Head(t)>> \o Tail(t)
  BY HeadTailProperties, HeadTailAppend
<1>3. (s \o <<Head(t)>>) \o Tail(t) = s \o (<<Head(t)>> \o Tail(t))
  BY HeadTailProperties, ConcatAssociative, <<Head(t)>> \in Seq(S)
<1> QED BY <1>1, <1>2, <1>3

\* Appending to the last of three segments appends to the whole.
LEMMA AppendOfConcat ==
  \A s \in Seq(Tasks), t \in Seq(Tasks), u \in Seq(Tasks), e \in Tasks :
    Append(s \o t \o u, e) = s \o t \o Append(u, e)
<1> SUFFICES ASSUME NEW s \in Seq(Tasks), NEW t \in Seq(Tasks),
                    NEW u \in Seq(Tasks), NEW e \in Tasks
             PROVE  Append(s \o t \o u, e) = s \o t \o Append(u, e)
  OBVIOUS
<1> DEFINE st == s \o t
<1>1. st \in Seq(Tasks) /\ <<e>> \in Seq(Tasks)
  BY ConcatProperties
<1> HIDE DEF st
<1>2. st \o u \in Seq(Tasks)
  BY <1>1, ConcatProperties
<1>3. Append(st \o u, e) = (st \o u) \o <<e>>
  BY <1>2, AppendIsConcat
<1>4. Append(u, e) = u \o <<e>>
  BY AppendIsConcat
<1>5. (st \o u) \o <<e>> = st \o (u \o <<e>>)
  BY SMTT(40), <1>1, ConcatAssociative
<1> QED BY <1>3, <1>4, <1>5 DEF st

\* The element after the end of s in s \o t \o u is the front of t.
LEMMA NextIsHead ==
  ASSUME NEW S, NEW s \in Seq(S), NEW t \in Seq(S), NEW u \in Seq(S), t # <<>>
  PROVE  /\ Len(s) < Len(s \o t \o u)
         /\ (s \o t \o u)[Len(s) + 1] = Head(t)
<1>1. Len(t) > 0
  BY EmptySeq, LenProperties
<1>2. s \o t \in Seq(S) /\ Len(s \o t) = Len(s) + Len(t)
  BY ConcatProperties
<1> QED BY <1>1, <1>2, ConcatProperties, LenProperties

\* The state of the mailbox and of its threads keeps its types.
THEOREM TypeCorrect == Safe => []TypeOK
<1>1. Init => TypeOK
  <2> SUFFICES ASSUME Init PROVE TypeOK
    OBVIOUS
  <2>1. /\ queue \in Seq(Tasks) /\ batch \in Seq(Tasks)
        /\ posted \in Seq(Tasks) /\ executed \in Seq(Tasks)
    BY EmptySeq DEF Init
  <2>2. sent \in [Posters -> 0 .. MaxTasks]
    BY 0 \in 0 .. MaxTasks DEF Init
  <2>3. /\ efd \in Nat /\ wake \in BOOLEAN
        /\ rpc \in {"epoll", "dispatch", "swap", "run"}
        /\ ppc \in [Posters -> {"idle", "pushed"}]
    BY DEF Init
  <2> QED BY <2>1, <2>2, <2>3 DEF TypeOK
<1>2. TypeOK /\ [Next]_vars => TypeOK'
  <2> SUFFICES ASSUME TypeOK, [Next]_vars PROVE TypeOK'
    OBVIOUS
  <2> USE DEF TypeOK
  <2>1. ASSUME NEW p \in Posters, AddTaskPush(p) PROVE TypeOK'
    <3> DEFINE task == [by |-> p, n |-> sent[p] + 1]
    <3>1. task \in Tasks
      BY <2>1 DEF AddTaskPush, Tasks
    <3>2. queue' \in Seq(Tasks) /\ posted' \in Seq(Tasks)
      BY <2>1, <3>1, AppendProperties DEF AddTaskPush
    <3> QED BY <2>1, <3>2 DEF AddTaskPush
  <2>2. ASSUME NEW p \in Posters, AddTaskSignal(p) PROVE TypeOK'
    BY <2>2 DEF AddTaskSignal
  <2>3. CASE EpollReturn
    BY <2>3 DEF EpollReturn
  <2>4. CASE EpollAgain
    BY <2>4 DEF EpollAgain
  <2>5. CASE ReadEventfd
    BY <2>5 DEF ReadEventfd
  <2>6. CASE SwapQueue
    BY <2>6, EmptySeq DEF SwapQueue
  <2>7. CASE RunTask
    <3>1. Head(batch) \in Tasks /\ Tail(batch) \in Seq(Tasks)
      BY <2>7, HeadTailProperties DEF RunTask
    <3>2. executed' \in Seq(Tasks)
      BY <2>7, <3>1, AppendProperties DEF RunTask
    <3> QED BY <2>7, <3>1, <3>2 DEF RunTask
  <2>8. CASE WakeupDone
    BY <2>8 DEF WakeupDone
  <2>9. CASE UNCHANGED vars
    BY <2>9 DEF vars
  <2> QED
    BY <2>1, <2>2, <2>3, <2>4, <2>5, <2>6, <2>7, <2>8, <2>9 DEF Next, ReactorStep
<1> QED BY <1>1, <1>2, PTL DEF Safe

-----------------------------------------------------------------------------
\* The hand-over between addTask and handle_wakeup loses no wakeup: a queued
\* task always has a readable eventfd, a poster about to write it, or the
\* reactor about to take the queue.  The read before the swap is what the
\* step SwapQueue needs, and the write after the push what AddTaskPush needs.
THEOREM WakeupNotLost == Safe => []NoLostWakeup
<1>1. Init => NoLostWakeup
  BY DEF Init, NoLostWakeup
<1>2. TypeOK /\ NoLostWakeup /\ [Next]_vars => NoLostWakeup'
  <2> SUFFICES ASSUME TypeOK, NoLostWakeup, [Next]_vars PROVE NoLostWakeup'
    OBVIOUS
  <2> USE DEF TypeOK, NoLostWakeup
  <2>1. ASSUME NEW p \in Posters, AddTaskPush(p) PROVE NoLostWakeup'
    BY <2>1 DEF AddTaskPush
  <2>2. ASSUME NEW p \in Posters, AddTaskSignal(p) PROVE NoLostWakeup'
    BY <2>2 DEF AddTaskSignal
  <2>3. CASE EpollReturn
    BY <2>3 DEF EpollReturn
  <2>4. CASE EpollAgain
    BY <2>4 DEF EpollAgain
  <2>5. CASE ReadEventfd
    BY <2>5 DEF ReadEventfd
  <2>6. CASE SwapQueue
    BY <2>6 DEF SwapQueue
  <2>7. CASE RunTask
    BY <2>7 DEF RunTask
  <2>8. CASE WakeupDone
    BY <2>8 DEF WakeupDone
  <2>9. CASE UNCHANGED vars
    BY <2>9 DEF vars
  <2> QED
    BY <2>1, <2>2, <2>3, <2>4, <2>5, <2>6, <2>7, <2>8, <2>9 DEF Next, ReactorStep
<1> QED BY <1>1, <1>2, TypeCorrect, PTL DEF Safe

\* The read of the eventfd in handle_wakeup always finds it readable.
THEOREM ReadSucceeds == Safe => []ReadNeverFails
<1>1. Init => ReadNeverFails
  BY DEF Init, ReadNeverFails
<1>2. TypeOK /\ ReadNeverFails /\ [Next]_vars => ReadNeverFails'
  <2> SUFFICES ASSUME TypeOK, ReadNeverFails, [Next]_vars
               PROVE  ReadNeverFails'
    OBVIOUS
  <2> USE DEF TypeOK, ReadNeverFails
  <2>1. ASSUME NEW p \in Posters, AddTaskPush(p) PROVE ReadNeverFails'
    BY <2>1 DEF AddTaskPush
  <2>2. ASSUME NEW p \in Posters, AddTaskSignal(p) PROVE ReadNeverFails'
    BY <2>2 DEF AddTaskSignal
  <2>3. CASE EpollReturn
    BY <2>3 DEF EpollReturn
  <2>4. CASE EpollAgain
    BY <2>4 DEF EpollAgain
  <2>5. CASE ReadEventfd
    BY <2>5 DEF ReadEventfd
  <2>6. CASE SwapQueue \/ RunTask \/ WakeupDone
    BY <2>6 DEF SwapQueue, RunTask, WakeupDone
  <2>7. CASE UNCHANGED vars
    BY <2>7 DEF vars
  <2> QED
    BY <2>1, <2>2, <2>3, <2>4, <2>5, <2>6, <2>7 DEF Next, ReactorStep
<1> QED BY <1>1, <1>2, TypeCorrect, PTL DEF Safe

-----------------------------------------------------------------------------
\* Outside handle_wakeup no task is left in the reactor's hands, so the swap
\* overwrites nothing.
BatchRun == rpc # "run" => batch = <<>>

OrderInv == InOrder /\ BatchRun

LEMMA OrderInductive == Safe => []OrderInv
<1>1. Init => OrderInv
  BY EmptySeq, ConcatEmptySeq DEF Init, OrderInv, InOrder, BatchRun
<1>2. TypeOK /\ OrderInv /\ [Next]_vars => OrderInv'
  <2> SUFFICES ASSUME TypeOK, OrderInv, [Next]_vars PROVE OrderInv'
    OBVIOUS
  <2> USE DEF TypeOK, OrderInv, InOrder, BatchRun
  <2>1. ASSUME NEW p \in Posters, AddTaskPush(p) PROVE OrderInv'
    <3> DEFINE task == [by |-> p, n |-> sent[p] + 1]
    <3>1. task \in Tasks
      BY SMTT(40), <2>1 DEF AddTaskPush, Tasks
    <3>2. executed \in Seq(Tasks) /\ batch \in Seq(Tasks) /\ queue \in Seq(Tasks)
      OBVIOUS
    <3>3. \A e \in Tasks : Append(executed \o batch \o queue, e)
                             = executed \o batch \o Append(queue, e)
      BY <3>2, AppendOfConcat, ZenonT(40)
    <3>4. Append(executed \o batch \o queue, task)
            = executed \o batch \o Append(queue, task)
      BY <3>1, <3>3, Zenon
    <3> QED BY <2>1, <3>4 DEF AddTaskPush
  <2>2. ASSUME NEW p \in Posters, AddTaskSignal(p) PROVE OrderInv'
    BY <2>2 DEF AddTaskSignal
  <2>3. CASE EpollReturn
    BY <2>3 DEF EpollReturn
  <2>4. CASE EpollAgain
    BY <2>4 DEF EpollAgain
  <2>5. CASE ReadEventfd
    BY <2>5 DEF ReadEventfd
  <2>6. CASE SwapQueue
    <3>1. batch = <<>> /\ executed \o <<>> = executed
      BY <2>6, ConcatEmptySeq DEF SwapQueue
    <3>2. (executed \o queue) \o <<>> = executed \o queue
      BY ConcatProperties, ConcatEmptySeq
    <3> QED BY <2>6, <3>1, <3>2 DEF SwapQueue
  <2>7. CASE RunTask
    <3>0. /\ executed \in Seq(Tasks) /\ queue \in Seq(Tasks)
          /\ batch \in Seq(Tasks) /\ batch # <<>>
      BY <2>7 DEF RunTask
    <3>1. Append(executed, Head(batch)) \o Tail(batch) \o queue
            = executed \o batch \o queue
      BY ONLY <3>0, MoveHead
    <3> QED BY <2>7, <3>1 DEF RunTask
  <2>8. CASE WakeupDone
    BY <2>8 DEF WakeupDone
  <2>9. CASE UNCHANGED vars
    BY <2>9 DEF vars
  <2> QED
    BY <2>1, <2>2, <2>3, <2>4, <2>5, <2>6, <2>7, <2>8, <2>9 DEF Next, ReactorStep
<1> QED BY <1>1, <1>2, TypeCorrect, PTL DEF Safe

\* Across any number of wakeups, what was run, what the current wakeup still
\* has to run and what is queued are together what was posted, in order.
THEOREM OrderKept == Safe => []InOrder
BY OrderInductive, PTL DEF OrderInv

\* addTask and handle_wakeup implement the abstract queue: a push is a Put, a
\* task run is the Get of the oldest task posted, every other step stutters.
THEOREM MailboxIsFifo == Safe => Abstract!Safe
<1>1. Init => Abstract!Init
  BY DEF Init, Abstract!Init
<1>2. TypeOK /\ InOrder /\ [Next]_vars => [Abstract!Next]_Abstract!fifoVars
  <2> SUFFICES ASSUME TypeOK, InOrder, [Next]_vars
               PROVE  Abstract!Next \/ UNCHANGED <<posted, executed>>
    BY DEF Abstract!fifoVars
  <2> USE DEF TypeOK, InOrder, Abstract!Next
  <2>1. ASSUME NEW p \in Posters, AddTaskPush(p) PROVE Abstract!Next
    <3> DEFINE task == [by |-> p, n |-> sent[p] + 1]
    <3>1. task \in Tasks
      BY <2>1 DEF AddTaskPush, Tasks
    <3>2. Abstract!Put(task)
      BY <2>1 DEF AddTaskPush, Abstract!Put
    <3> QED BY <3>1, <3>2
  <2>2. CASE RunTask
    <3>1. Len(executed) < Len(posted) /\ posted[Len(executed) + 1] = Head(batch)
      BY <2>2, NextIsHead DEF RunTask
    <3>2. Abstract!Get
      BY <2>2, <3>1 DEF RunTask, Abstract!Get
    <3> QED BY <3>2
  <2>3. ASSUME NEW p \in Posters, AddTaskSignal(p)
        PROVE  UNCHANGED <<posted, executed>>
    BY <2>3 DEF AddTaskSignal
  <2>4. CASE EpollReturn \/ EpollAgain \/ ReadEventfd \/ SwapQueue \/ WakeupDone
    BY <2>4 DEF EpollReturn, EpollAgain, ReadEventfd, SwapQueue, WakeupDone
  <2>5. CASE UNCHANGED vars
    BY <2>5 DEF vars
  <2> QED BY <2>1, <2>2, <2>3, <2>4, <2>5 DEF Next, ReactorStep
<1> QED BY <1>1, <1>2, TypeCorrect, OrderKept, PTL DEF Safe, Abstract!Safe

\* Whatever addTask and handle_wakeup do with the lock and the eventfd, the queue is
\* for the others one that the loop empties at once, when it has run what it took.
THEOREM MailboxSeenOutside == Safe => Outside!Safe
<1>1. Init => Outside!Init
  BY DEF Init, Outside!Init
<1>2. TypeOK /\ OrderInv /\ [Next]_vars => [Outside!Next]_Outside!mailVars
  <2> SUFFICES ASSUME TypeOK, OrderInv, [Next]_vars
               PROVE  Outside!Next \/ UNCHANGED <<queue, batch>>
    BY DEF Outside!mailVars
  <2>1. ASSUME NEW p \in Posters, AddTaskPush(p) PROVE Outside!Next
    <3> DEFINE task == [by |-> p, n |-> sent[p] + 1]
    <3>1. task \in Tasks
      BY <2>1 DEF AddTaskPush, Tasks, TypeOK
    <3>2. Outside!Post(task)
      BY <2>1 DEF AddTaskPush, Outside!Post
    <3> QED BY <3>1, <3>2 DEF Outside!Next
  <2>2. CASE SwapQueue
    BY <2>2 DEF SwapQueue, OrderInv, BatchRun, Outside!TakeAll, Outside!Next
  <2>3. CASE RunTask
    BY <2>3 DEF RunTask, Outside!RunOne, Outside!Next
  <2>4. ASSUME NEW p \in Posters, AddTaskSignal(p) PROVE UNCHANGED <<queue, batch>>
    BY <2>4 DEF AddTaskSignal
  <2>5. CASE EpollReturn \/ EpollAgain \/ ReadEventfd \/ WakeupDone \/ UNCHANGED vars
    BY <2>5 DEF EpollReturn, EpollAgain, ReadEventfd, WakeupDone, vars
  <2> QED BY <2>1, <2>2, <2>3, <2>4, <2>5 DEF Next, ReactorStep
<1> QED BY <1>1, <1>2, TypeCorrect, OrderInductive, PTL DEF Safe, Outside!Safe
=============================================================================
