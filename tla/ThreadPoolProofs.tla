-------------------------- MODULE ThreadPoolProofs --------------------------
(***************************************************************************)
(* For any number of workers and SubReactors and any limit on the list: no *)
(* notification is lost, the tasks are taken in order, and the destructor  *)
(* drops none of them.                                                     *)
(***************************************************************************)
EXTENDS ThreadPool, SequenceTheorems, FiniteSetTheorems, TLAPS

USE DEF WorkersAssumption, AppendersAssumption, MaxRequestsAssumption,
        MaxAppendsAssumption
USE WorkersAssumption, AppendersAssumption, MaxRequestsAssumption,
    MaxAppendsAssumption

\* Taking the front of the list moves it to the end of what was taken.
LEMMA MoveHead ==
  \A s \in Seq(Tasks), t \in Seq(Tasks) :
    t # <<>> => Append(s, Head(t)) \o Tail(t) = s \o t
<1> SUFFICES ASSUME NEW s \in Seq(Tasks), NEW t \in Seq(Tasks), t # <<>>
             PROVE  Append(s, Head(t)) \o Tail(t) = s \o t
  OBVIOUS
<1>1. Append(s, Head(t)) = s \o <<Head(t)>>
  BY AppendIsConcat, HeadTailProperties
<1>2. t = <<Head(t)>> \o Tail(t)
  BY HeadTailProperties, HeadTailAppend
<1>3. (s \o <<Head(t)>>) \o Tail(t) = s \o (<<Head(t)>> \o Tail(t))
  BY HeadTailProperties, ConcatAssociative, <<Head(t)>> \in Seq(Tasks)
<1> QED BY <1>1, <1>2, <1>3

\* Appending to the second of two segments appends to the whole.
LEMMA AppendOfConcat ==
  \A s \in Seq(Tasks), t \in Seq(Tasks), e \in Tasks :
    Append(s \o t, e) = s \o Append(t, e)
<1> SUFFICES ASSUME NEW s \in Seq(Tasks), NEW t \in Seq(Tasks), NEW e \in Tasks
             PROVE  Append(s \o t, e) = s \o Append(t, e)
  OBVIOUS
<1>1. s \o t \in Seq(Tasks) /\ <<e>> \in Seq(Tasks)
  BY ConcatProperties
<1>2. Append(s \o t, e) = (s \o t) \o <<e>>
  BY <1>1, AppendIsConcat
<1>3. Append(t, e) = t \o <<e>>
  BY AppendIsConcat
<1>4. (s \o t) \o <<e>> = s \o (t \o <<e>>)
  BY <1>1, ConcatAssociative
<1> QED BY <1>2, <1>3, <1>4

\* The element after the end of s in s \o t is the front of t.
LEMMA NextIsHead ==
  \A s \in Seq(Tasks), t \in Seq(Tasks) :
    t # <<>> => /\ Len(s) < Len(s \o t)
                /\ (s \o t)[Len(s) + 1] = Head(t)
<1> SUFFICES ASSUME NEW s \in Seq(Tasks), NEW t \in Seq(Tasks), t # <<>>
             PROVE  /\ Len(s) < Len(s \o t)
                    /\ (s \o t)[Len(s) + 1] = Head(t)
  OBVIOUS
<1>1. Len(t) > 0
  BY EmptySeq, LenProperties
<1> QED BY <1>1, ConcatProperties, LenProperties

\* The state of the pool keeps its types, and the list its limit.
THEOREM TypeCorrect == Safe => []TypeOK
<1>1. Init => TypeOK
  <2> SUFFICES ASSUME Init PROVE TypeOK
    OBVIOUS
  <2>1. /\ workqueue \in Seq(Tasks) /\ accepted \in Seq(Tasks)
        /\ taken \in Seq(Tasks) /\ Len(workqueue) = 0
    BY EmptySeq DEF Init
  <2>2. calls \in [Appenders -> 0 .. MaxAppends]
    BY 0 \in 0 .. MaxAppends DEF Init
  <2>3. /\ wpc \in [Workers -> {"lock", "wait", "task", "exited"}]
        /\ apc \in [Appenders -> {"idle", "pushed"}]
        /\ mpc \in {"up", "stopped", "joining", "down"}
        /\ finished \in Nat /\ stop \in BOOLEAN
    BY DEF Init
  <2> QED BY <2>1, <2>2, <2>3 DEF TypeOK
<1>2. TypeOK /\ [Next]_vars => TypeOK'
  <2> SUFFICES ASSUME TypeOK, [Next]_vars PROVE TypeOK'
    OBVIOUS
  <2> USE DEF TypeOK
  <2>1. ASSUME NEW a \in Appenders, AppendPush(a) PROVE TypeOK'
    <3> DEFINE task == [by |-> a, n |-> calls[a] + 1]
    <3>1. task \in Tasks
      BY <2>1 DEF AppendPush, Tasks
    <3>2. /\ workqueue' \in Seq(Tasks) /\ accepted' \in Seq(Tasks)
          /\ Len(workqueue') = Len(workqueue) + 1
      BY <2>1, <3>1, AppendProperties DEF AppendPush
    <3>3. Len(workqueue') <= MaxRequests
      BY <2>1, <3>2, LenProperties DEF AppendPush
    <3> QED BY <2>1, <3>2, <3>3 DEF AppendPush
  <2>2. ASSUME NEW a \in Appenders, AppendReject(a) PROVE TypeOK'
    BY <2>2 DEF AppendReject
  <2>3. ASSUME NEW a \in Appenders, AppendNotify(a) PROVE TypeOK'
    BY <2>3 DEF AppendNotify, Waiting, At
  <2>4. ASSUME NEW w \in Workers, RunWait(w) PROVE TypeOK'
    BY <2>4 DEF RunWait
  <2>5. ASSUME NEW w \in Workers, RunTake(w) PROVE TypeOK'
    <3>1. /\ Head(workqueue) \in Tasks /\ workqueue' \in Seq(Tasks)
          /\ Len(workqueue') = Len(workqueue) - 1
      BY <2>5, HeadTailProperties DEF RunTake
    <3>2. taken' \in Seq(Tasks)
      BY <2>5, <3>1, AppendProperties DEF RunTake
    <3>3. Len(workqueue') <= MaxRequests
      BY <3>1, LenProperties
    <3> QED BY <2>5, <3>1, <3>2, <3>3 DEF RunTake
  <2>6. ASSUME NEW w \in Workers, RunTaskEnd(w) PROVE TypeOK'
    BY <2>6 DEF RunTaskEnd
  <2>7. ASSUME NEW w \in Workers, RunExit(w) \/ RunSpurious(w) PROVE TypeOK'
    BY <2>7 DEF RunExit, RunSpurious
  <2>8. CASE DestroyStop \/ DestroyJoin
    BY <2>8 DEF DestroyStop, DestroyJoin
  <2>9. CASE DestroyNotify
    BY <2>9 DEF DestroyNotify
  <2>10. CASE UNCHANGED vars
    BY <2>10 DEF vars
  <2> QED
    BY <2>1, <2>2, <2>3, <2>4, <2>5, <2>6, <2>7, <2>8, <2>9, <2>10
    DEF Next, Run, Destroy
<1> QED BY <1>1, <1>2, PTL DEF Safe

-----------------------------------------------------------------------------
\* Every accepted task is taken once, in the order of acceptance.
THEOREM OrderKept == Safe => []TakenInOrder
<1>1. Init => TakenInOrder
  BY EmptySeq, ConcatEmptySeq DEF Init, TakenInOrder
<1>2. TypeOK /\ TakenInOrder /\ [Next]_vars => TakenInOrder'
  <2> SUFFICES ASSUME TypeOK, TakenInOrder, [Next]_vars PROVE TakenInOrder'
    OBVIOUS
  <2> USE DEF TypeOK, TakenInOrder
  <2>0. workqueue \in Seq(Tasks) /\ taken \in Seq(Tasks)
    OBVIOUS
  <2>1. ASSUME NEW a \in Appenders, AppendPush(a) PROVE TakenInOrder'
    <3> DEFINE task == [by |-> a, n |-> calls[a] + 1]
    <3>1. task \in Tasks
      BY <2>1 DEF AppendPush, Tasks
    <3>2. \A e \in Tasks : Append(taken \o workqueue, e)
                             = taken \o Append(workqueue, e)
      BY <2>0, AppendOfConcat, Zenon
    <3>3. Append(taken \o workqueue, task) = taken \o Append(workqueue, task)
      BY <3>1, <3>2, Zenon
    <3> QED BY <2>1, <3>3 DEF AppendPush
  <2>2. ASSUME NEW w \in Workers, RunTake(w) PROVE TakenInOrder'
    <3>1. workqueue # <<>>
      BY <2>2 DEF RunTake
    <3>2. Append(taken, Head(workqueue)) \o Tail(workqueue) = taken \o workqueue
      BY <2>0, <3>1, MoveHead, Zenon
    <3> QED BY <2>2, <3>2 DEF RunTake
  <2>3. ASSUME UNCHANGED <<workqueue, accepted, taken>> PROVE TakenInOrder'
    BY <2>3
  <2>4. ASSUME NEW a \in Appenders, AppendReject(a) \/ AppendNotify(a)
        PROVE  UNCHANGED <<workqueue, accepted, taken>>
    BY <2>4 DEF AppendReject, AppendNotify
  <2>5. ASSUME NEW w \in Workers,
               RunWait(w) \/ RunTaskEnd(w) \/ RunExit(w) \/ RunSpurious(w)
        PROVE  UNCHANGED <<workqueue, accepted, taken>>
    BY <2>5 DEF RunWait, RunTaskEnd, RunExit, RunSpurious
  <2>6. ASSUME DestroyStop \/ DestroyNotify \/ DestroyJoin \/ UNCHANGED vars
        PROVE  UNCHANGED <<workqueue, accepted, taken>>
    BY <2>6 DEF DestroyStop, DestroyNotify, DestroyJoin, vars
  <2> QED
    BY <2>1, <2>2, <2>3, <2>4, <2>5, <2>6 DEF Next, Run, Destroy
<1> QED BY <1>1, <1>2, TypeCorrect, PTL DEF Safe

\* The pool implements the abstract queue: an accepted append is a Put, a
\* worker that takes a task does the Get of the oldest one.
THEOREM PoolIsFifo == Safe => Abstract!Safe
<1>1. Init => Abstract!Init
  BY DEF Init, Abstract!Init
<1>2. TypeOK /\ TakenInOrder /\ [Next]_vars => [Abstract!Next]_Abstract!fifoVars
  <2> SUFFICES ASSUME TypeOK, TakenInOrder, [Next]_vars
               PROVE  Abstract!Next \/ UNCHANGED <<accepted, taken>>
    BY DEF Abstract!fifoVars
  <2> USE DEF TypeOK, TakenInOrder, Abstract!Next
  <2>1. ASSUME NEW a \in Appenders, AppendPush(a) PROVE Abstract!Next
    <3> DEFINE task == [by |-> a, n |-> calls[a] + 1]
    <3>1. task \in Tasks
      BY <2>1 DEF AppendPush, Tasks
    <3>2. Abstract!Put(task)
      BY <2>1 DEF AppendPush, Abstract!Put
    <3> QED BY <3>1, <3>2
  <2>2. ASSUME NEW w \in Workers, RunTake(w) PROVE Abstract!Next
    <3>0. /\ workqueue # <<>>
          /\ workqueue \in Seq(Tasks) /\ taken \in Seq(Tasks)
      BY <2>2 DEF RunTake
    <3>1. /\ Len(taken) < Len(taken \o workqueue)
          /\ (taken \o workqueue)[Len(taken) + 1] = Head(workqueue)
      BY <3>0, NextIsHead, Zenon
    <3>2. Abstract!Get
      BY <2>2, <3>1 DEF RunTake, Abstract!Get
    <3> QED BY <3>2
  <2>3. ASSUME NEW a \in Appenders, AppendReject(a) \/ AppendNotify(a)
        PROVE  UNCHANGED <<accepted, taken>>
    BY <2>3 DEF AppendReject, AppendNotify
  <2>4. ASSUME NEW w \in Workers,
               RunWait(w) \/ RunTaskEnd(w) \/ RunExit(w) \/ RunSpurious(w)
        PROVE  UNCHANGED <<accepted, taken>>
    BY <2>4 DEF RunWait, RunTaskEnd, RunExit, RunSpurious
  <2>5. ASSUME DestroyStop \/ DestroyNotify \/ DestroyJoin \/ UNCHANGED vars
        PROVE  UNCHANGED <<accepted, taken>>
    BY <2>5 DEF DestroyStop, DestroyNotify, DestroyJoin, vars
  <2> QED BY <2>1, <2>2, <2>3, <2>4, <2>5 DEF Next, Run, Destroy
<1> QED BY <1>1, <1>2, TypeCorrect, OrderKept, PTL DEF Safe, Abstract!Safe

-----------------------------------------------------------------------------
Locs == {"lock", "wait", "task", "exited"}

\* The workers at a location are finitely many.
LEMMA Counted ==
  /\ \A l \in Locs : IsFiniteSet(At(l)) /\ Cardinality(At(l)) \in Nat
  /\ IsFiniteSet(Notifying) /\ Cardinality(Notifying) \in Nat
<1>1. ASSUME NEW l \in Locs PROVE IsFiniteSet(At(l))
  BY At(l) \in SUBSET Workers, FS_Subset DEF At
<1>2. IsFiniteSet(Notifying)
  BY Notifying \in SUBSET Appenders, FS_Subset DEF Notifying
<1> QED BY <1>1, <1>2, FS_CardinalityType

\* A worker that moves from one location to another takes one from the count
\* of the first and adds one to that of the second.
LEMMA WorkerMoves ==
  ASSUME TypeOK, NEW w \in Workers, NEW l \in Locs, NEW m \in Locs, l # m,
         wpc[w] = l, wpc' = [wpc EXCEPT ![w] = m]
  PROVE  /\ Cardinality(At(l)') = Cardinality(At(l)) - 1
         /\ Cardinality(At(m)') = Cardinality(At(m)) + 1
<1>1. At(l)' = At(l) \ {w} /\ w \in At(l)
  BY DEF At, TypeOK
<1>2. At(m)' = At(m) \cup {w} /\ w \notin At(m)
  BY DEF At, TypeOK
<1>3. Cardinality(At(l)') = Cardinality(At(l)) - 1
  <2>1. IsFiniteSet(At(l))
    BY Counted
  <2>2. Cardinality(At(l) \ {w}) = Cardinality(At(l)) - 1
    BY <1>1, <2>1, FS_RemoveElement, Zenon
  <2> QED BY <1>1, <2>2
<1>4. Cardinality(At(m)') = Cardinality(At(m)) + 1
  <2>1. IsFiniteSet(At(m))
    BY Counted
  <2>2. Cardinality(At(m) \cup {w}) = Cardinality(At(m)) + 1
    BY <1>2, <2>1, FS_AddElement, Zenon
  <2> QED BY <1>2, <2>2
<1> QED BY <1>3, <1>4

\* While a worker sleeps, the workers that are coming for the list and the
\* notifications on their way are at least as many as the queued tasks: each
\* push brings a notification of its own, a notification becomes a worker at
\* the lock, and a worker sleeps only when it saw the list empty.
THEOREM NoNotificationLost == Safe => []NoSleeperNeeded
<1>1. Init => NoSleeperNeeded
  BY DEF Init, NoSleeperNeeded, Waiting, At
<1>2. TypeOK /\ NoSleeperNeeded /\ [Next]_vars => NoSleeperNeeded'
  <2> SUFFICES ASSUME TypeOK, NoSleeperNeeded, [Next]_vars, Waiting' # {}
               PROVE  Len(workqueue)' <= Cardinality(At("lock"))'
                                           + Cardinality(Notifying)'
    BY DEF NoSleeperNeeded
  <2>0. /\ "lock" \in Locs /\ "wait" \in Locs /\ "task" \in Locs
        /\ "exited" \in Locs
        /\ Len(workqueue) \in Nat
        /\ Cardinality(At("lock")) \in Nat /\ Cardinality(Notifying) \in Nat
    BY Counted, LenProperties DEF TypeOK, Locs
  <2>00. Waiting # {} => Len(workqueue) <= Cardinality(At("lock"))
                                             + Cardinality(Notifying)
    BY DEF NoSleeperNeeded
  <2>1. ASSUME NEW a \in Appenders, AppendPush(a)
        PROVE  Len(workqueue)' <= Cardinality(At("lock"))'
                                    + Cardinality(Notifying)'
    <3>1. At("lock")' = At("lock") /\ Waiting' = Waiting
      BY <2>1 DEF AppendPush, At, Waiting
    <3>2. Notifying' = Notifying \cup {a} /\ a \notin Notifying
      BY <2>1 DEF AppendPush, Notifying, TypeOK
    <3>3. Cardinality(Notifying)' = Cardinality(Notifying) + 1
      BY <3>2, Counted, FS_AddElement
    <3>4. Len(workqueue)' = Len(workqueue) + 1
      <4>1. [by |-> a, n |-> calls[a] + 1] \in Tasks
        BY <2>1 DEF AppendPush, Tasks, TypeOK
      <4> QED BY <2>1, <4>1, AppendProperties DEF AppendPush, TypeOK
    <3> QED BY <2>0, <2>00, <3>1, <3>3, <3>4
  <2>2. ASSUME NEW a \in Appenders, AppendNotify(a)
        PROVE  Len(workqueue)' <= Cardinality(At("lock"))'
                                    + Cardinality(Notifying)'
    <3>1. Notifying' = Notifying \ {a} /\ a \in Notifying
      BY <2>2 DEF AppendNotify, Notifying, TypeOK
    <3>2. Cardinality(Notifying)' = Cardinality(Notifying) - 1
      BY <3>1, Counted, FS_RemoveElement
    <3>3. PICK w \in Waiting : wpc' = [wpc EXCEPT ![w] = "lock"]
      <4>1. CASE Waiting = {} /\ UNCHANGED wpc
        BY <4>1 DEF Waiting, At
      <4> QED BY <2>2, <4>1 DEF AppendNotify
    <3>4. w \in Workers /\ wpc[w] = "wait"
      BY DEF Waiting, At
    <3>5. Cardinality(At("lock")') = Cardinality(At("lock")) + 1
      BY <2>0, <3>3, <3>4, WorkerMoves
    <3>6. workqueue' = workqueue /\ Waiting # {}
      BY <2>2 DEF AppendNotify
    <3> QED BY <2>0, <2>00, <3>2, <3>5, <3>6
  <2>3. ASSUME NEW w \in Workers, RunTake(w)
        PROVE  Len(workqueue)' <= Cardinality(At("lock"))'
                                    + Cardinality(Notifying)'
    <3>1. wpc[w] = "lock" /\ wpc' = [wpc EXCEPT ![w] = "task"]
      BY <2>3 DEF RunTake
    <3>2. Cardinality(At("lock")') = Cardinality(At("lock")) - 1
      BY <2>0, <3>1, WorkerMoves
    <3>2a. At("wait")' = At("wait")
      BY <3>1 DEF At, TypeOK
    <3>3. Notifying' = Notifying
      BY <2>3 DEF RunTake, Notifying
    <3>4. Len(workqueue)' = Len(workqueue) - 1
      BY <2>3, HeadTailProperties DEF RunTake, TypeOK
    <3> QED BY <2>0, <2>00, <3>2, <3>2a, <3>3, <3>4 DEF Waiting
  <2>4. ASSUME NEW w \in Workers, RunTaskEnd(w) \/ RunSpurious(w)
        PROVE  Len(workqueue)' <= Cardinality(At("lock"))'
                                    + Cardinality(Notifying)'
    <3>1. /\ wpc[w] \in {"task", "wait"} /\ wpc' = [wpc EXCEPT ![w] = "lock"]
          /\ workqueue' = workqueue /\ Notifying' = Notifying
      BY <2>4 DEF RunTaskEnd, RunSpurious, Notifying
    <3>2. Cardinality(At("lock")') = Cardinality(At("lock")) + 1
      BY <2>0, <3>1, WorkerMoves
    <3>3. Waiting # {}
      <4>1. PICK v \in Workers : wpc'[v] = "wait"
        BY DEF Waiting, At
      <4>2. v # w
        BY <3>1, <4>1 DEF TypeOK
      <4>3. wpc[v] = "wait"
        BY <3>1, <4>1, <4>2 DEF TypeOK
      <4> QED BY <4>3 DEF Waiting, At
    <3> QED BY <2>0, <2>00, <3>1, <3>2, <3>3
  <2>5. ASSUME workqueue = <<>>, workqueue' = workqueue
        PROVE  Len(workqueue)' <= Cardinality(At("lock"))'
                                    + Cardinality(Notifying)'
    <3>1. Len(workqueue)' = 0
      BY <2>5, EmptySeq
    <3>2. Cardinality(At("lock"))' \in Nat /\ Cardinality(Notifying)' \in Nat
      <4>1. At("lock")' \in SUBSET Workers /\ Notifying' \in SUBSET Appenders
        BY DEF At, Notifying
      <4> QED BY <4>1, FS_Subset, FS_CardinalityType
    <3> QED BY <3>1, <3>2
  <2>6. ASSUME NEW w \in Workers, RunWait(w) \/ RunExit(w)
        PROVE  workqueue = <<>> /\ workqueue' = workqueue
    BY <2>6 DEF RunWait, RunExit
  <2>7. CASE DestroyNotify
    BY <2>7 DEF DestroyNotify, Waiting, At, TypeOK
  <2>8. ASSUME UNCHANGED <<workqueue, wpc, apc>>
        PROVE  Len(workqueue)' <= Cardinality(At("lock"))'
                                    + Cardinality(Notifying)'
    <3>1. /\ At("lock")' = At("lock") /\ Notifying' = Notifying
          /\ Waiting' = Waiting /\ workqueue' = workqueue
      BY <2>8 DEF At, Notifying, Waiting
    <3> QED BY <2>00, <3>1
  <2>9. ASSUME NEW a \in Appenders, AppendReject(a)
        PROVE  UNCHANGED <<workqueue, wpc, apc>>
    BY <2>9 DEF AppendReject
  <2>10. ASSUME DestroyStop \/ DestroyJoin \/ UNCHANGED vars
         PROVE  UNCHANGED <<workqueue, wpc, apc>>
    BY <2>10 DEF DestroyStop, DestroyJoin, vars
  <2> QED
    BY <2>1, <2>2, <2>3, <2>4, <2>5, <2>6, <2>7, <2>8, <2>9, <2>10
    DEF Next, Run, Destroy
<1> QED BY <1>1, <1>2, TypeCorrect, PTL DEF Safe

-----------------------------------------------------------------------------
\* A worker leaves only when the pool stops with an empty list, and nothing
\* is appended from then on.
ExitInv ==
  /\ stop <=> mpc # "up"
  /\ \A w \in Workers : wpc[w] = "exited" => stop /\ workqueue = <<>>
  /\ mpc = "down" => \A w \in Workers : wpc[w] = "exited"

LEMMA ExitInductive == Safe => []ExitInv
<1>1. Init => ExitInv
  BY DEF Init, ExitInv
<1>2. TypeOK /\ ExitInv /\ [Next]_vars => ExitInv'
  <2> SUFFICES ASSUME TypeOK, ExitInv, [Next]_vars PROVE ExitInv'
    OBVIOUS
  <2> USE DEF TypeOK, ExitInv
  <2>1. ASSUME NEW a \in Appenders, AppendPush(a) PROVE ExitInv'
    BY <2>1 DEF AppendPush
  <2>2. ASSUME NEW a \in Appenders, AppendReject(a) PROVE ExitInv'
    BY <2>2 DEF AppendReject
  <2>3. ASSUME NEW a \in Appenders, AppendNotify(a) PROVE ExitInv'
    BY <2>3 DEF AppendNotify, Waiting, At
  <2>4. ASSUME NEW w \in Workers, RunWait(w) PROVE ExitInv'
    BY <2>4 DEF RunWait
  <2>5. ASSUME NEW w \in Workers, RunTake(w) PROVE ExitInv'
    BY <2>5 DEF RunTake
  <2>6. ASSUME NEW w \in Workers, RunTaskEnd(w) PROVE ExitInv'
    BY <2>6 DEF RunTaskEnd
  <2>7. ASSUME NEW w \in Workers, RunExit(w) PROVE ExitInv'
    BY <2>7 DEF RunExit
  <2>8. ASSUME NEW w \in Workers, RunSpurious(w) PROVE ExitInv'
    BY <2>8 DEF RunSpurious
  <2>9. CASE DestroyStop
    BY <2>9 DEF DestroyStop
  <2>10. CASE DestroyNotify
    BY <2>10 DEF DestroyNotify
  <2>11. CASE DestroyJoin
    BY <2>11 DEF DestroyJoin
  <2>12. CASE UNCHANGED vars
    BY <2>12 DEF vars
  <2> QED
    BY <2>1, <2>2, <2>3, <2>4, <2>5, <2>6, <2>7, <2>8, <2>9, <2>10, <2>11, <2>12
    DEF Next, Run, Destroy
<1> QED BY <1>1, <1>2, TypeCorrect, PTL DEF Safe

\* A task that was taken has ended or is with the worker that took it.
EndInv == Len(taken) = finished + Cardinality(At("task"))

LEMMA EndInductive == Safe => []EndInv
<1>1. Init => EndInv
  <2> SUFFICES ASSUME Init PROVE EndInv
    OBVIOUS
  <2>1. At("task") = {}
    BY DEF Init, At
  <2>2. Cardinality(At("task")) = 0
    BY <2>1, FS_EmptySet
  <2>3. Len(taken) = 0 /\ finished = 0
    BY EmptySeq DEF Init
  <2> QED BY <2>2, <2>3 DEF EndInv
<1>2. TypeOK /\ EndInv /\ [Next]_vars => EndInv'
  <2> SUFFICES ASSUME TypeOK, EndInv, [Next]_vars PROVE EndInv'
    OBVIOUS
  <2>0. /\ "lock" \in Locs /\ "task" \in Locs
        /\ Cardinality(At("task")) \in Nat /\ finished \in Nat
    BY Counted DEF Locs, TypeOK
  <2>1. ASSUME NEW w \in Workers, RunTake(w) PROVE EndInv'
    <3>1. Cardinality(At("task")') = Cardinality(At("task")) + 1
      BY <2>0, <2>1, WorkerMoves DEF RunTake
    <3>2. Len(taken') = Len(taken) + 1
      BY <2>1, HeadTailProperties, AppendProperties DEF RunTake, TypeOK
    <3> QED BY <2>0, <2>1, <3>1, <3>2 DEF EndInv, RunTake
  <2>2. ASSUME NEW w \in Workers, RunTaskEnd(w) PROVE EndInv'
    <3>1. Cardinality(At("task")') = Cardinality(At("task")) - 1
      BY <2>0, <2>2, WorkerMoves DEF RunTaskEnd
    <3> QED BY <2>0, <2>2, <3>1 DEF EndInv, RunTaskEnd
  <2>3. ASSUME UNCHANGED <<taken, finished>>, At("task")' = At("task")
        PROVE  EndInv'
    BY <2>3 DEF EndInv
  <2>4. ASSUME NEW a \in Appenders,
               AppendPush(a) \/ AppendReject(a) \/ AppendNotify(a)
        PROVE  UNCHANGED <<taken, finished>> /\ At("task")' = At("task")
    BY <2>4 DEF AppendPush, AppendReject, AppendNotify, Waiting, At, TypeOK
  <2>5. ASSUME NEW w \in Workers, RunWait(w) \/ RunExit(w) \/ RunSpurious(w)
        PROVE  UNCHANGED <<taken, finished>> /\ At("task")' = At("task")
    BY <2>5 DEF RunWait, RunExit, RunSpurious, At, TypeOK
  <2>6. CASE DestroyNotify
    BY <2>6, <2>3 DEF DestroyNotify, At, TypeOK
  <2>7. CASE DestroyStop \/ DestroyJoin \/ UNCHANGED vars
    BY <2>7, <2>3 DEF DestroyStop, DestroyJoin, vars, At
  <2> QED BY <2>1, <2>2, <2>3, <2>4, <2>5, <2>6, <2>7 DEF Next, Run, Destroy
<1> QED BY <1>1, <1>2, TypeCorrect, PTL DEF Safe

\* When the destructor has joined the workers, everything that append ever
\* accepted was run to its end.
THEOREM NothingDropped == Safe => []DrainedWhenDown
<1>1. TypeOK /\ ExitInv /\ EndInv /\ TakenInOrder => DrainedWhenDown
  <2> SUFFICES ASSUME TypeOK, ExitInv, EndInv, TakenInOrder, mpc = "down"
               PROVE  workqueue = <<>> /\ finished = Len(accepted)
    BY DEF DrainedWhenDown
  <2>1. workqueue = <<>>
    BY DEF ExitInv
  <2>2. At("task") = {}
    BY DEF ExitInv, At
  <2>3. finished = Len(taken)
    <3>1. Cardinality(At("task")) = 0
      BY <2>2, FS_EmptySet
    <3> QED BY <3>1 DEF EndInv, TypeOK
  <2>4. accepted = taken
    BY <2>1, ConcatEmptySeq DEF TakenInOrder, TypeOK
  <2> QED BY <2>1, <2>3, <2>4
<1> QED BY <1>1, TypeCorrect, ExitInductive, EndInductive, OrderKept, PTL

-----------------------------------------------------------------------------
(* The pool seen from outside. *)

\* What a place of a worker is seen as.
Seen(l) == CASE l = "task" -> "job" [] l = "exited" -> "left" [] OTHER -> "nothing"

LEMMA SeenAre ==
  /\ Seen("task") = "job" /\ Seen("exited") = "left"
  /\ Seen("lock") = "nothing" /\ Seen("wait") = "nothing"
BY DEF Seen

\* A worker that moves from one place to another.
LEMMA SeenMove ==
  ASSUME TypeOK, NEW w \in Workers, NEW l, wpc' = [wpc EXCEPT ![w] = l]
  PROVE  /\ Doing[w] = Seen(wpc[w])
         /\ Doing' = [Doing EXCEPT ![w] = Seen(l)]
         /\ Seen(l) = Seen(wpc[w]) => Doing' = Doing
<1>1. Doing = [v \in Workers |-> Seen(wpc[v])] /\ Doing' = [v \in Workers |-> Seen(wpc'[v])]
  BY DEF Doing, Seen
<1>2. wpc'[w] = l /\ \A v \in Workers : v # w => wpc'[v] = wpc[v]
  BY DEF TypeOK
<1> HIDE DEF Seen
<1> QED BY <1>1, <1>2

\* Whatever the threads do with the mutex and the condition variable, the pool is
\* for the others a queue whose oldest job goes to a free worker, that takes no
\* job once it is told to stop, and that no worker leaves before it is empty.
THEOREM PoolSeenOutside == Safe => Outside!Safe
<1>1. Init => Outside!Init
  BY DEF Init, Outside!Init, Doing
<1>2. TypeOK /\ ExitInv /\ [Next]_vars => [Outside!Next]_Outside!poolVars
  <2> SUFFICES ASSUME TypeOK, ExitInv, [Next]_vars
               PROVE  Outside!Next \/ UNCHANGED <<workqueue, stop, Doing>>
    BY DEF Outside!poolVars
  <2>1. ASSUME NEW a \in Appenders, AppendPush(a) PROVE Outside!Next
    <3> DEFINE task == [by |-> a, n |-> calls[a] + 1]
    <3>1. task \in Tasks
      BY <2>1 DEF AppendPush, Tasks, TypeOK
    <3>2. Outside!Put(task)
      BY <2>1 DEF AppendPush, Outside!Put, ExitInv, Doing
    <3> QED BY <3>1, <3>2 DEF Outside!Next
  <2>2. ASSUME NEW a \in Appenders, AppendReject(a)
        PROVE  UNCHANGED <<workqueue, stop, Doing>>
    BY <2>2 DEF AppendReject, Doing
  <2>3. ASSUME NEW a \in Appenders, AppendNotify(a)
        PROVE  UNCHANGED <<workqueue, stop, Doing>>
    <3>1. UNCHANGED <<workqueue, stop>>
      BY <2>3 DEF AppendNotify
    <3>2. CASE UNCHANGED wpc
      BY <3>1, <3>2 DEF Doing
    <3>3. CASE \E w \in Waiting : wpc' = [wpc EXCEPT ![w] = "lock"]
      <4>1. PICK w \in Workers : wpc[w] = "wait" /\ wpc' = [wpc EXCEPT ![w] = "lock"]
        BY <3>3 DEF Waiting, At
      <4>2. Seen("lock") = Seen(wpc[w])
        BY <4>1, SeenAre
      <4>3. Doing' = Doing
        BY <4>1, <4>2, SeenMove
      <4> QED BY <3>1, <4>3
    <3> QED BY <2>3, <3>2, <3>3 DEF AppendNotify
  <2>4. ASSUME NEW w \in Workers, RunTake(w) PROVE Outside!Next
    <3>1. Doing[w] = "nothing" /\ Doing' = [Doing EXCEPT ![w] = "job"]
      <4>1. wpc[w] = "lock" /\ wpc' = [wpc EXCEPT ![w] = "task"]
        BY <2>4 DEF RunTake
      <4>2. Doing[w] = Seen("lock") /\ Doing' = [Doing EXCEPT ![w] = Seen("task")]
        BY <4>1, SeenMove
      <4> QED BY <4>2, SeenAre
    <3>2. Outside!Take(w)
      BY <2>4, <3>1 DEF RunTake, Outside!Take, Outside!Turns
    <3> QED BY <3>2 DEF Outside!Next
  <2>5. ASSUME NEW w \in Workers, RunTaskEnd(w) PROVE Outside!Next
    <3>1. Doing[w] = "job" /\ Doing' = [Doing EXCEPT ![w] = "nothing"]
      <4>1. wpc[w] = "task" /\ wpc' = [wpc EXCEPT ![w] = "lock"]
        BY <2>5 DEF RunTaskEnd
      <4>2. Doing[w] = Seen("task") /\ Doing' = [Doing EXCEPT ![w] = Seen("lock")]
        BY <4>1, SeenMove
      <4> QED BY <4>2, SeenAre
    <3>2. Outside!End(w)
      BY <2>5, <3>1 DEF RunTaskEnd, Outside!End, Outside!Turns
    <3> QED BY <3>2 DEF Outside!Next
  <2>6. ASSUME NEW w \in Workers, RunExit(w) PROVE Outside!Next
    <3>1. Doing[w] = "nothing" /\ Doing' = [Doing EXCEPT ![w] = "left"]
      <4>1. wpc[w] = "lock" /\ wpc' = [wpc EXCEPT ![w] = "exited"]
        BY <2>6 DEF RunExit
      <4>2. Doing[w] = Seen("lock") /\ Doing' = [Doing EXCEPT ![w] = Seen("exited")]
        BY <4>1, SeenMove
      <4> QED BY <4>2, SeenAre
    <3>2. Outside!Leave(w)
      BY <2>6, <3>1 DEF RunExit, Outside!Leave, Outside!Turns
    <3> QED BY <3>2 DEF Outside!Next
  <2>7. ASSUME NEW w \in Workers, RunWait(w) \/ RunSpurious(w)
        PROVE  UNCHANGED <<workqueue, stop, Doing>>
    <3>1. Doing' = Doing
      BY <2>7, SeenMove, SeenAre DEF RunWait, RunSpurious
    <3> QED BY <2>7, <3>1 DEF RunWait, RunSpurious
  <2>8. CASE DestroyStop
    <3>1. Outside!Stop
      BY <2>8 DEF DestroyStop, Outside!Stop, ExitInv, TypeOK, Doing
    <3> QED BY <3>1 DEF Outside!Next
  <2>9. CASE DestroyNotify
    <3>1. Doing' = Doing
      BY <2>9 DEF DestroyNotify, Doing, TypeOK
    <3> QED BY <2>9, <3>1 DEF DestroyNotify
  <2>10. CASE DestroyJoin \/ UNCHANGED vars
    BY <2>10 DEF DestroyJoin, vars, Doing
  <2> QED BY <2>1, <2>2, <2>3, <2>4, <2>5, <2>6, <2>7, <2>8, <2>9, <2>10
          DEF Next, Run, Destroy
<1> QED BY <1>1, <1>2, TypeCorrect, ExitInductive, PTL DEF Safe, Outside!Safe
=============================================================================
