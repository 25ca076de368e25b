----------------------------- MODULE LogProofs -----------------------------
(***************************************************************************)
(* The log, for any number of slots, of threads, of lines and of days: the *)
(* ring of BlockQueue hands every item over once and in order however      *)
(* often it goes round, its two condition variables lose no notification,  *)
(* and the files hold, in the order of their names, exactly what the       *)
(* writer took, so that nothing is lost when ~Log closes the last of them. *)
(***************************************************************************)
EXTENDS Log, SequenceTheorems, FiniteSetTheorems, WellFoundedInduction, TLAPS

USE LoggersAssumption, MaxSizeAssumption, BoundsAssumption

\* A sum of at most one round, counted round the ring.
Turn(a) == IF a < MaxSize THEN a ELSE a - MaxSize

LEMMA Round ==
  \A a \in Slots, b \in 0 .. MaxSize : (a + b) % MaxSize = Turn(a + b)
  BY DEF Slots, Turn

LEMMA Small == 0 \in 0 .. MaxSize /\ 1 \in 0 .. MaxSize /\ 0 \in Slots
  BY DEF Slots

\* m_back is the slot after the last item.
BackFollows == back = (front + size) % MaxSize

\* A thread on its way to push has an item left to push.
PushDue == \A p \in Pushers : pc[p] \in {"lock", "wait"} => calls[p] <= MaxLines

RingInv == QueueTypeOK /\ BackFollows /\ PushDue

LEMMA RingInductive == Safe => []RingInv
<1>1. Init => RingInv
  <2> SUFFICES ASSUME Init PROVE RingInv
    OBVIOUS
  <2>1. End \in Items /\ 0 \in Slots /\ 0 \in 0 .. MaxSize
    BY DEF End, Items, Pushers, Slots
  <2>2. array \in [Slots -> Items]
    BY <2>1 DEF Init
  <2>3. accepted \in Seq(Items) /\ taken \in Seq(Items)
    BY EmptySeq DEF Init
  <2>4. calls \in [Pushers -> 0 .. MaxLines + 1]
    BY 0 \in 0 .. MaxLines + 1 DEF Init
  <2>5. QueueTypeOK
    BY <2>1, <2>2, <2>3, <2>4 DEF Init, QueueTypeOK
  <2>6. BackFollows
    <3>1. (0 + 0) % MaxSize = Turn(0 + 0)
      BY Small, Round, Zenon
    <3> QED BY <3>1 DEF Init, BackFollows, Turn
  <2> QED BY <2>5, <2>6 DEF Init, RingInv, PushDue
<1>2. RingInv /\ [Next]_vars => RingInv'
  <2> SUFFICES ASSUME RingInv, [Next]_vars PROVE RingInv'
    OBVIOUS
  <2> USE DEF RingInv, QueueTypeOK
  <2>1. ASSUME NEW p \in Pushers, PushPut(p) PROVE RingInv'
    <3>1. calls[p] <= MaxLines
      BY <2>1 DEF PushPut, Ready, MayLog, MayEnd, PushDue
    <3>2. Item(p) \in Items
      BY SMTT(40), <3>1 DEF Item, Items
    <3>3. accepted' \in Seq(Items)
      BY <2>1, <3>2, AppendProperties DEF PushPut
    <3>4. back' \in Slots /\ back' = (front + size') % MaxSize
      <4>1. /\ front \in Slots /\ back \in Slots /\ size \in 0 .. MaxSize
            /\ size < MaxSize /\ size' = size + 1 /\ back' = (back + 1) % MaxSize
            /\ back = (front + size) % MaxSize
        BY <2>1 DEF PushPut, BackFollows
      <4>2. back = Turn(front + size)
        BY <4>1, Round, Zenon
      <4>3. back' = Turn(back + 1)
        BY <4>1, Small, Round, Zenon
      <4>4. size' \in 0 .. MaxSize
        BY <4>1
      <4>5. (front + size') % MaxSize = Turn(front + size')
        BY <4>1, <4>4, Round, Zenon
      <4> QED BY <4>1, <4>2, <4>3, <4>5 DEF Slots, Turn
    <3>5. array' \in [Slots -> Items] /\ size' \in 0 .. MaxSize
      BY <2>1, <3>2 DEF PushPut
    <3>6. calls' \in [Pushers -> 0 .. MaxLines + 1]
      BY <2>1, <3>1 DEF PushPut
    <3>7. BackFollows'
      BY <2>1, <3>4 DEF PushPut, BackFollows
    <3>8. PushDue'
      BY <2>1 DEF PushPut, PushDue
    <3> QED BY <2>1, <3>3, <3>4, <3>5, <3>6, <3>7, <3>8 DEF PushPut
  <2>2. CASE PopTake
    <3>1. front' \in Slots /\ back = (front' + size') % MaxSize
      <4>1. /\ front \in Slots /\ size \in 0 .. MaxSize
            /\ size > 0 /\ size' = size - 1 /\ front' = (front + 1) % MaxSize
            /\ back = (front + size) % MaxSize
        BY <2>2 DEF PopTake, BackFollows
      <4>2. back = Turn(front + size)
        BY <4>1, Round, Zenon
      <4>3. front' = Turn(front + 1)
        BY <4>1, Small, Round, Zenon
      <4>4. size' \in 0 .. MaxSize /\ front' \in Slots
        BY <4>1, <4>3 DEF Turn, Slots
      <4>5. (front' + size') % MaxSize = Turn(front' + size')
        BY <4>4, Round, Zenon
      <4>6. Turn(front' + size') = Turn(front + size)
        <5>1. /\ front \in Nat /\ front < MaxSize
              /\ size \in Nat /\ size' = size - 1 /\ size > 0 /\ size <= MaxSize
              /\ front' = IF front + 1 < MaxSize THEN front + 1 ELSE 0
          BY <4>1, <4>3 DEF Slots, Turn
        <5>2. CASE front + 1 < MaxSize
          <6>1. front' + size' = front + size
            BY <5>1, <5>2
          <6> QED BY <6>1
        <5>3. CASE ~(front + 1 < MaxSize)
          <6>1. front' + size' = size - 1 /\ front + size = MaxSize + (size - 1)
            BY <5>1, <5>3
          <6> QED BY <5>1, <6>1 DEF Turn
        <5> QED BY <5>2, <5>3
      <4> QED BY <4>2, <4>4, <4>5, <4>6
    <3>2. array[front] \in Items
      OBVIOUS
    <3>3. taken' \in Seq(Items)
      BY <2>2, <3>2, AppendProperties DEF PopTake
    <3>4. size' \in 0 .. MaxSize
      BY <2>2 DEF PopTake
    <3> QED BY <2>2, <3>1, <3>2, <3>3, <3>4 DEF PopTake, BackFollows, PushDue
  <2>3. ASSUME NEW p \in Pushers, PushWait(p) PROVE RingInv'
    <3>1. calls[p] <= MaxLines
      BY <2>3 DEF PushWait, Ready, MayLog, MayEnd, PushDue
    <3> QED BY <2>3, <3>1 DEF PushWait, queueVars, BackFollows, PushDue
  <2>4. ASSUME NEW p \in Pushers, PushSpurious(p) \/ PushNotify(p) PROVE RingInv'
    BY <2>4 DEF PushSpurious, PushNotify, queueVars, BackFollows, PushDue
  <2>5. CASE PopNotify
    <3>1. CASE UNCHANGED pc
      BY <2>5, <3>1 DEF PopNotify, queueVars, BackFollows, PushDue
    <3>2. CASE \E p \in At("wait") : pc' = [pc EXCEPT ![p] = "lock"]
      BY <2>5, <3>2 DEF PopNotify, At, queueVars, BackFollows, PushDue
    <3> QED BY <2>5, <3>1, <3>2 DEF PopNotify
  <2>6. CASE PopWait \/ PopSpurious \/ WriteLine \/ WriterEnds
    BY <2>6 DEF PopWait, PopSpurious, WriteLine, WriterEnds, queueVars,
                BackFollows, PushDue
  <2>7. CASE Close \/ Midnight \/ UNCHANGED vars
    BY <2>7 DEF Close, Midnight, vars, queueVars, BackFollows, PushDue
  <2> QED
    BY <2>1, <2>2, <2>3, <2>4, <2>5, <2>6, <2>7 DEF Next, Push, Writer
<1> QED BY <1>1, <1>2, PTL DEF Safe

-----------------------------------------------------------------------------
\* The slots of a ring, and what it holds.
LEMMA RingIsSeq ==
  \A arr \in [Slots -> Items], f \in Slots, n \in 0 .. MaxSize :
    /\ RingOf(arr, f, n) \in Seq(Items) /\ Len(RingOf(arr, f, n)) = n
    /\ \A i \in 1 .. n : RingOf(arr, f, n)[i] = arr[Turn(f + (i - 1))]
<1> SUFFICES ASSUME NEW arr \in [Slots -> Items], NEW f \in Slots,
                    NEW n \in 0 .. MaxSize
             PROVE  /\ RingOf(arr, f, n) \in Seq(Items) /\ Len(RingOf(arr, f, n)) = n
                    /\ \A i \in 1 .. n :
                         RingOf(arr, f, n)[i] = arr[Turn(f + (i - 1))]
  OBVIOUS
<1>1. ASSUME NEW i \in 1 .. n
      PROVE  /\ (f + (i - 1)) % MaxSize = Turn(f + (i - 1))
             /\ Turn(f + (i - 1)) \in Slots
  <2>1. i - 1 \in 0 .. MaxSize
    OBVIOUS
  <2>2. (f + (i - 1)) % MaxSize = Turn(f + (i - 1))
    BY <2>1, Round, Zenon
  <2> QED BY <2>1, <2>2 DEF Turn, Slots
<1>2. \A i \in 1 .. n : RingOf(arr, f, n)[i] = arr[Turn(f + (i - 1))]
  BY <1>1 DEF RingOf
<1>3. \A i \in 1 .. n : RingOf(arr, f, n)[i] \in Items
  BY <1>1, <1>2
<1>4. RingOf(arr, f, n) \in [1 .. n -> Items]
  BY <1>3 DEF RingOf
<1> QED BY <1>2, <1>4

\* A push appends its item to the ring.
LEMMA RingOfPush ==
  ASSUME RingInv, RingInv', NEW p \in Pushers, PushPut(p)
  PROVE  Item(p) \in Items /\ Ring' = Append(Ring, Item(p))
<1>1. Item(p) \in Items
  BY DEF PushPut, Ready, MayLog, MayEnd, PushDue, Item, Items, RingInv, QueueTypeOK
<1>2. /\ Ring \in Seq(Items) /\ Len(Ring) = size
      /\ Ring' \in Seq(Items) /\ Len(Ring') = size'
      /\ \A i \in 1 .. size : Ring[i] = array[Turn(front + (i - 1))]
      /\ \A i \in 1 .. size' : Ring'[i] = array'[Turn(front' + (i - 1))]
  <2>1. /\ array \in [Slots -> Items] /\ front \in Slots /\ size \in 0 .. MaxSize
        /\ array' \in [Slots -> Items] /\ front' \in Slots /\ size' \in 0 .. MaxSize
    BY DEF RingInv, QueueTypeOK
  <2> QED BY <2>1, RingIsSeq DEF Ring
<1>3. /\ front \in Slots /\ size \in 0 .. MaxSize /\ size < MaxSize
      /\ front' = front /\ size' = size + 1
      /\ back \in Slots /\ array \in [Slots -> Items]
      /\ array' = [array EXCEPT ![back] = Item(p)]
      /\ back = (front + size) % MaxSize
  BY DEF PushPut, RingInv, QueueTypeOK, BackFollows
<1>4. back = Turn(front + size)
  BY <1>3, Round, Zenon
<1>5. /\ Append(Ring, Item(p)) \in Seq(Items)
      /\ Len(Append(Ring, Item(p))) = size + 1
      /\ \A i \in 1 .. size : Append(Ring, Item(p))[i] = Ring[i]
      /\ Append(Ring, Item(p))[size + 1] = Item(p)
  BY <1>1, <1>2, AppendProperties
<1>6. \A i \in 1 .. size : Ring'[i] = Ring[i]
  <2> SUFFICES ASSUME NEW i \in 1 .. size PROVE Ring'[i] = Ring[i]
    OBVIOUS
  <2>1. Turn(front + (i - 1)) # back /\ Turn(front + (i - 1)) \in Slots
    BY <1>3, <1>4 DEF Turn, Slots
  <2>2. Ring'[i] = array'[Turn(front + (i - 1))]
    BY <1>2, <1>3
  <2> QED BY <1>2, <1>3, <2>1, <2>2
<1>7. Ring'[size + 1] = Item(p)
  <2>1. Ring'[size + 1] = array'[Turn(front + ((size + 1) - 1))]
    BY <1>2, <1>3
  <2>2. Turn(front + ((size + 1) - 1)) = back
    BY <1>3, <1>4
  <2> QED BY <1>3, <2>1, <2>2
<1>8. \A i \in 1 .. Len(Ring') : Ring'[i] = Append(Ring, Item(p))[i]
  BY <1>2, <1>3, <1>5, <1>6, <1>7
<1>9. Ring' = Append(Ring, Item(p))
  BY <1>2, <1>3, <1>5, <1>8, SeqEqual
<1> QED BY <1>1, <1>9

\* A pop takes the first item off the ring.
LEMMA RingOfPop ==
  ASSUME RingInv, RingInv', PopTake
  PROVE  Ring # <<>> /\ array[front] = Head(Ring) /\ Ring' = Tail(Ring)
<1>1. /\ Ring \in Seq(Items) /\ Len(Ring) = size
      /\ Ring' \in Seq(Items) /\ Len(Ring') = size'
      /\ \A i \in 1 .. size : Ring[i] = array[Turn(front + (i - 1))]
      /\ \A i \in 1 .. size' : Ring'[i] = array'[Turn(front' + (i - 1))]
  <2>1. /\ array \in [Slots -> Items] /\ front \in Slots /\ size \in 0 .. MaxSize
        /\ array' \in [Slots -> Items] /\ front' \in Slots /\ size' \in 0 .. MaxSize
    BY DEF RingInv, QueueTypeOK
  <2> QED BY <2>1, RingIsSeq DEF Ring
<1>2. /\ front \in Slots /\ size \in 0 .. MaxSize /\ size > 0
      /\ front' = (front + 1) % MaxSize /\ size' = size - 1 /\ array' = array
  BY DEF PopTake, RingInv, QueueTypeOK
<1>3. front' = Turn(front + 1)
  BY <1>2, Small, Round, Zenon
<1>4. Ring # <<>>
  BY <1>1, <1>2, EmptySeq
<1>5. array[front] = Head(Ring)
  <2>1. Ring[1] = array[Turn(front + (1 - 1))]
    BY <1>1, <1>2
  <2>2. Turn(front + (1 - 1)) = front
    BY <1>2 DEF Turn, Slots
  <2>3. Head(Ring) = Ring[1]
    BY <1>1, <1>4, LenProperties
  <2> QED BY <2>1, <2>2, <2>3
<1>6. /\ Tail(Ring) \in Seq(Items) /\ Len(Tail(Ring)) = size - 1
      /\ \A i \in 1 .. size - 1 : Tail(Ring)[i] = Ring[i + 1]
  BY <1>1, <1>4, HeadTailProperties
<1>7. \A i \in 1 .. Len(Ring') : Ring'[i] = Tail(Ring)[i]
  <2> SUFFICES ASSUME NEW i \in 1 .. size - 1 PROVE Ring'[i] = Tail(Ring)[i]
    BY <1>1, <1>2
  <2>1. Ring'[i] = array[Turn(front' + (i - 1))]
    BY <1>1, <1>2
  <2>2. Tail(Ring)[i] = array[Turn(front + ((i + 1) - 1))]
    BY SMTT(40), <1>1, <1>2, <1>6
  <2>3. Turn(front' + (i - 1)) = Turn(front + ((i + 1) - 1))
    BY <1>2, <1>3 DEF Turn, Slots
  <2> QED BY <2>1, <2>2, <2>3
<1>8. Ring' = Tail(Ring)
  BY <1>1, <1>2, <1>6, <1>7, SeqEqual
<1> QED BY <1>4, <1>5, <1>8

-----------------------------------------------------------------------------
\* Appending to the second of two segments appends to the whole.
LEMMA AppendOfConcat ==
  \A s \in Seq(Items), t \in Seq(Items), e \in Items :
    Append(s \o t, e) = s \o Append(t, e)
<1> SUFFICES ASSUME NEW s \in Seq(Items), NEW t \in Seq(Items), NEW e \in Items
             PROVE  Append(s \o t, e) = s \o Append(t, e)
  OBVIOUS
<1>1. s \o t \in Seq(Items) /\ <<e>> \in Seq(Items)
  BY ConcatProperties
<1>2. Append(s \o t, e) = (s \o t) \o <<e>>
  BY <1>1, AppendIsConcat
<1>3. Append(t, e) = t \o <<e>>
  BY AppendIsConcat
<1>4. (s \o t) \o <<e>> = s \o (t \o <<e>>)
  BY <1>1, ConcatAssociative
<1> QED BY <1>2, <1>3, <1>4

\* Moving the head of t to the end of s keeps the whole.
LEMMA MoveHead ==
  \A s \in Seq(Items), t \in Seq(Items) :
    t # <<>> => Append(s, Head(t)) \o Tail(t) = s \o t
<1> SUFFICES ASSUME NEW s \in Seq(Items), NEW t \in Seq(Items), t # <<>>
             PROVE  Append(s, Head(t)) \o Tail(t) = s \o t
  OBVIOUS
<1>1. Append(s, Head(t)) = s \o <<Head(t)>>
  BY AppendIsConcat, HeadTailProperties
<1>2. t = <<Head(t)>> \o Tail(t)
  BY HeadTailProperties, HeadTailAppend
<1>3. (s \o <<Head(t)>>) \o Tail(t) = s \o (<<Head(t)>> \o Tail(t))
  BY HeadTailProperties, ConcatAssociative, <<Head(t)>> \in Seq(Items)
<1> QED BY <1>1, <1>2, <1>3

\* The element after the end of s in s \o t is the head of t.
LEMMA NextIsHead ==
  \A s \in Seq(Items), t \in Seq(Items) :
    t # <<>> => /\ Len(s) < Len(s \o t)
                /\ (s \o t)[Len(s) + 1] = Head(t)
<1> SUFFICES ASSUME NEW s \in Seq(Items), NEW t \in Seq(Items), t # <<>>
             PROVE  /\ Len(s) < Len(s \o t)
                    /\ (s \o t)[Len(s) + 1] = Head(t)
  OBVIOUS
<1>1. Len(t) > 0
  BY EmptySeq, LenProperties
<1> QED BY <1>1, ConcatProperties, LenProperties

\* The steps that touch neither the ring nor the history of the queue.
LEMMA OtherSteps ==
  ASSUME [Next]_vars, ~(\E p \in Pushers : PushPut(p)), ~PopTake
  PROVE  UNCHANGED <<queueVars, accepted, taken>>
<1>1. ASSUME NEW p \in Pushers, PushWait(p) \/ PushNotify(p) \/ PushSpurious(p)
      PROVE  UNCHANGED <<queueVars, accepted, taken>>
  BY <1>1 DEF PushWait, PushNotify, PushSpurious
<1>2. ASSUME PopWait \/ PopNotify \/ PopSpurious \/ WriteLine \/ WriterEnds
      PROVE  UNCHANGED <<queueVars, accepted, taken>>
  BY <1>2 DEF PopWait, PopNotify, PopSpurious, WriteLine, WriterEnds
<1>3. ASSUME Close \/ Midnight \/ UNCHANGED vars
      PROVE  UNCHANGED <<queueVars, accepted, taken>>
  BY <1>3 DEF Close, Midnight, vars
<1> QED BY <1>1, <1>2, <1>3 DEF Next, Push, Writer

\* BlockQueue hands every item from push to pop, once and in order.
THEOREM OrderKept == Safe => []TakenInOrder
<1>1. Init => TakenInOrder
  <2> SUFFICES ASSUME Init PROVE TakenInOrder
    OBVIOUS
  <2>1. Ring = <<>>
    BY DEF Init, Ring, RingOf
  <2> QED BY <2>1, EmptySeq, ConcatEmptySeq DEF Init, TakenInOrder
<1>2. RingInv /\ RingInv' /\ TakenInOrder /\ [Next]_vars => TakenInOrder'
  <2> SUFFICES ASSUME RingInv, RingInv', TakenInOrder, [Next]_vars
               PROVE  TakenInOrder'
    OBVIOUS
  <2>1. Ring \in Seq(Items) /\ taken \in Seq(Items)
    BY RingIsSeq DEF RingInv, QueueTypeOK, Ring
  <2>2. ASSUME NEW p \in Pushers, PushPut(p) PROVE TakenInOrder'
    <3>1. Item(p) \in Items /\ Ring' = Append(Ring, Item(p))
      BY <2>2, RingOfPush
    <3>2. Append(taken \o Ring, Item(p)) = taken \o Append(Ring, Item(p))
      BY <2>1, <3>1, AppendOfConcat, Zenon
    <3>3. accepted' = Append(accepted, Item(p)) /\ taken' = taken
      BY <2>2 DEF PushPut
    <3> QED BY <3>1, <3>2, <3>3 DEF TakenInOrder
  <2>3. CASE PopTake
    <3>1. Ring # <<>> /\ array[front] = Head(Ring) /\ Ring' = Tail(Ring)
      BY <2>3, RingOfPop
    <3>2. Append(taken, Head(Ring)) \o Tail(Ring) = taken \o Ring
      BY <2>1, <3>1, MoveHead, Zenon
    <3>3. accepted' = accepted /\ taken' = Append(taken, array[front])
      BY <2>3 DEF PopTake
    <3> QED BY <3>1, <3>2, <3>3 DEF TakenInOrder
  <2>4. CASE UNCHANGED <<queueVars, accepted, taken>>
    BY <2>4 DEF TakenInOrder, Ring, queueVars
  <2> QED BY <2>2, <2>3, <2>4, OtherSteps
<1> QED BY <1>1, <1>2, RingInductive, PTL DEF Safe

\* BlockQueue with its one reader implements the abstract queue: a push is a
\* Put, and the pop of the slot at m_front the Get of the oldest item.
THEOREM RingIsFifo == Safe => Abstract!Safe
<1>1. Init => Abstract!Init
  BY DEF Init, Abstract!Init
<1>2. RingInv /\ RingInv' /\ TakenInOrder /\ [Next]_vars
        => [Abstract!Next]_Abstract!fifoVars
  <2> SUFFICES ASSUME RingInv, RingInv', TakenInOrder, [Next]_vars
               PROVE  Abstract!Next \/ UNCHANGED <<accepted, taken>>
    BY DEF Abstract!fifoVars
  <2>1. Ring \in Seq(Items) /\ taken \in Seq(Items)
    BY RingIsSeq DEF RingInv, QueueTypeOK, Ring
  <2>2. ASSUME NEW p \in Pushers, PushPut(p) PROVE Abstract!Next
    <3>1. Item(p) \in Items
      BY <2>2, RingOfPush
    <3>2. Abstract!Put(Item(p))
      BY <2>2 DEF PushPut, Abstract!Put
    <3> QED BY <3>1, <3>2 DEF Abstract!Next
  <2>3. CASE PopTake
    <3>1. Ring # <<>> /\ array[front] = Head(Ring)
      BY <2>3, RingOfPop
    <3>2. /\ Len(taken) < Len(taken \o Ring)
          /\ (taken \o Ring)[Len(taken) + 1] = Head(Ring)
      BY <2>1, <3>1, NextIsHead, Zenon
    <3>3. taken' = Append(taken, array[front]) /\ accepted' = accepted
      BY <2>3 DEF PopTake
    <3>4. Abstract!Get
      BY <3>1, <3>2, <3>3 DEF Abstract!Get, TakenInOrder
    <3> QED BY <3>4 DEF Abstract!Next
  <2>4. CASE UNCHANGED <<queueVars, accepted, taken>>
    BY <2>4
  <2> QED BY <2>2, <2>3, <2>4, OtherSteps
<1> QED BY <1>1, <1>2, RingInductive, OrderKept, PTL DEF Safe, Abstract!Safe

-----------------------------------------------------------------------------
Locs == {"idle", "lock", "wait", "pushed"}

\* The threads at a place in push are finitely many.
LEMMA Counted ==
  \A l \in Locs : IsFiniteSet(At(l)) /\ Cardinality(At(l)) \in Nat
<1>1. IsFiniteSet(Pushers)
  BY FS_AddElement DEF Pushers
<1>2. ASSUME NEW l \in Locs PROVE IsFiniteSet(At(l))
  BY <1>1, At(l) \in SUBSET Pushers, FS_Subset DEF At
<1> QED BY <1>2, FS_CardinalityType

\* A thread that moves from one place to another takes one from the count of
\* the first and adds one to that of the second.
LEMMA PusherMoves ==
  ASSUME QueueTypeOK, NEW p \in Pushers, NEW l \in Locs, NEW m \in Locs, l # m,
         pc[p] = l, pc' = [pc EXCEPT ![p] = m]
  PROVE  /\ Cardinality(At(l)') = Cardinality(At(l)) - 1
         /\ Cardinality(At(m)') = Cardinality(At(m)) + 1
<1>1. At(l)' = At(l) \ {p} /\ p \in At(l)
  BY DEF At, QueueTypeOK
<1>2. At(m)' = At(m) \cup {p} /\ p \notin At(m)
  BY DEF At, QueueTypeOK
<1>3. Cardinality(At(l)') = Cardinality(At(l)) - 1
  BY ZenonT(40), <1>1, Counted, FS_RemoveElement
<1>4. Cardinality(At(m)') = Cardinality(At(m)) + 1
  BY <1>2, Counted, FS_AddElement
<1> QED BY <1>3, <1>4

\* The move leaves the threads at every other place.
LEMMA OthersStay ==
  ASSUME QueueTypeOK, NEW p \in Pushers, NEW m \in Locs, NEW k \in Locs,
         pc[p] # k, m # k, pc' = [pc EXCEPT ![p] = m]
  PROVE  At(k)' = At(k)
  BY DEF At, QueueTypeOK

\* The writer's next step is the notification of a free slot.
FreeComing == IF wpc = "taken" THEN 1 ELSE 0

\* Every push brings the writer a notification before the writer can sleep
\* over its item, and every slot the writer frees brings a sleeping thread one
\* before anybody can sleep on it.
THEOREM NoNotificationLost == Safe => []NoSleeperNeeded
<1>1. Init => NoSleeperNeeded
  BY DEF Init, NoSleeperNeeded, At
<1>2. RingInv /\ NoSleeperNeeded /\ [Next]_vars => NoSleeperNeeded'
  <2> SUFFICES ASSUME RingInv, NoSleeperNeeded, [Next]_vars
               PROVE  NoSleeperNeeded'
    OBVIOUS
  <2>0. /\ QueueTypeOK /\ size \in Nat /\ size <= MaxSize
        /\ "idle" \in Locs /\ "lock" \in Locs /\ "wait" \in Locs /\ "pushed" \in Locs
        /\ Cardinality(At("lock")) \in Nat /\ Cardinality(At("pushed")) \in Nat
        /\ FreeComing \in {0, 1}
    BY Counted DEF RingInv, QueueTypeOK, Locs, FreeComing
  <2>00. /\ wpc = "wait" => size <= Cardinality(At("pushed"))
         /\ At("wait") # {} => MaxSize - size <= Cardinality(At("lock")) + FreeComing
    BY DEF NoSleeperNeeded, FreeComing
  <2>a. ASSUME wpc' = "wait" => size' <= Cardinality(At("pushed")'),
               At("wait")' # {} =>
                 MaxSize - size' <= Cardinality(At("lock")') + FreeComing'
        PROVE  NoSleeperNeeded'
    BY <2>a DEF NoSleeperNeeded, FreeComing
  <2>1. ASSUME NEW p \in Pushers, PushPut(p) PROVE NoSleeperNeeded'
    <3>1. /\ size' = size + 1 /\ wpc' = wpc /\ FreeComing' = FreeComing
          /\ pc[p] \in {"idle", "lock"} /\ pc' = [pc EXCEPT ![p] = "pushed"]
      BY <2>1 DEF PushPut, Ready, FreeComing
    <3>2. /\ Cardinality(At("pushed")') = Cardinality(At("pushed")) + 1
          /\ At("wait")' = At("wait")
          /\ Cardinality(At("lock")') \in
               {Cardinality(At("lock")), Cardinality(At("lock")) - 1}
      <4>1. CASE pc[p] = "idle"
        BY <2>0, <3>1, <4>1, PusherMoves, OthersStay
      <4>2. CASE pc[p] = "lock"
        BY <2>0, <3>1, <4>2, PusherMoves, OthersStay
      <4> QED BY <3>1, <4>1, <4>2
    <3> QED BY <2>0, <2>00, <2>a, <3>1, <3>2
  <2>2. ASSUME NEW p \in Pushers, PushWait(p) PROVE NoSleeperNeeded'
    <3>1. /\ size' = size /\ size = MaxSize /\ wpc' = wpc
          /\ pc[p] \in {"idle", "lock"} /\ pc' = [pc EXCEPT ![p] = "wait"]
          /\ FreeComing' = FreeComing
      BY <2>2 DEF PushWait, Ready, queueVars, FreeComing
    <3>2. At("pushed")' = At("pushed")
      BY <2>0, <3>1, PusherMoves, OthersStay
    <3>3. /\ Cardinality(At("lock")') \in
               {Cardinality(At("lock")), Cardinality(At("lock")) - 1}
          /\ Cardinality(At("lock")') >= 0
      <4>1. CASE pc[p] = "idle"
        <5>1. At("lock")' = At("lock")
          BY <2>0, <3>1, <4>1, OthersStay
        <5> QED BY <2>0, <5>1
      <4>2. CASE pc[p] = "lock"
        <5>1. Cardinality(At("lock")') = Cardinality(At("lock")) - 1
          BY <2>0, <3>1, <4>2, PusherMoves, OthersStay
        <5>2. At("lock") # {} /\ IsFiniteSet(At("lock"))
          BY <2>0, <4>2, Counted DEF At
        <5>3. Cardinality(At("lock")) # 0
          BY <5>2, FS_EmptySet
        <5> QED BY <2>0, <5>1, <5>3
      <4> QED BY <2>0, <3>1, <4>1, <4>2
    <3> QED BY <2>0, <2>00, <2>a, <3>1, <3>2, <3>3
  <2>3. ASSUME NEW p \in Pushers, PushSpurious(p) PROVE NoSleeperNeeded'
    <3>1. /\ size' = size /\ wpc' = wpc /\ FreeComing' = FreeComing
          /\ pc[p] = "wait" /\ pc' = [pc EXCEPT ![p] = "lock"] /\ At("wait") # {}
      BY <2>3 DEF PushSpurious, queueVars, FreeComing, At
    <3>2. /\ At("pushed")' = At("pushed")
          /\ Cardinality(At("lock")') = Cardinality(At("lock")) + 1
      BY <2>0, <3>1, PusherMoves, OthersStay
    <3> QED BY <2>0, <2>00, <2>a, <3>1, <3>2
  <2>4. ASSUME NEW p \in Pushers, PushNotify(p) PROVE NoSleeperNeeded'
    <3>1. /\ size' = size /\ wpc' # "wait" /\ FreeComing' = FreeComing
          /\ pc[p] = "pushed" /\ pc' = [pc EXCEPT ![p] = "idle"]
      BY <2>4 DEF PushNotify, queueVars, FreeComing
    <3>2. At("lock")' = At("lock") /\ At("wait")' = At("wait")
      BY <2>0, <3>1, PusherMoves, OthersStay
    <3> QED BY <2>0, <2>00, <2>a, <3>1, <3>2
  <2>5. CASE PopTake
    <3>1. /\ size' = size - 1 /\ FreeComing' = 1 /\ FreeComing = 0
          /\ wpc' # "wait" /\ pc' = pc
      BY <2>5 DEF PopTake, FreeComing
    <3>2. At("lock")' = At("lock") /\ At("wait")' = At("wait")
      BY <3>1 DEF At
    <3> QED BY <2>0, <2>00, <2>a, <3>1, <3>2
  <2>6. CASE PopNotify
    <3>1. /\ size' = size /\ FreeComing' = 0 /\ FreeComing = 1 /\ wpc' # "wait"
      BY <2>6 DEF PopNotify, FreeComing, queueVars
    <3>2. CASE At("wait") = {} /\ UNCHANGED pc
      <4>1. At("wait")' = {}
        BY <3>2 DEF At
      <4> QED BY <2>a, <3>1, <4>1
    <3>3. CASE \E p \in At("wait") : pc' = [pc EXCEPT ![p] = "lock"]
      <4>1. PICK p \in At("wait") : pc' = [pc EXCEPT ![p] = "lock"]
        BY <3>3
      <4>2. p \in Pushers /\ pc[p] = "wait" /\ At("wait") # {}
        BY <4>1 DEF At
      <4>3. Cardinality(At("lock")') = Cardinality(At("lock")) + 1
        BY <2>0, <4>1, <4>2, PusherMoves, OthersStay
      <4> QED BY <2>0, <2>00, <2>a, <3>1, <4>2, <4>3
    <3> QED BY <2>6, <3>2, <3>3 DEF PopNotify
  <2>7. CASE PopWait
    <3>1. size = 0 /\ size' = size /\ FreeComing' = FreeComing /\ pc' = pc
      BY <2>7 DEF PopWait, queueVars, FreeComing
    <3>2. /\ At("lock")' = At("lock") /\ At("wait")' = At("wait")
          /\ At("pushed")' = At("pushed")
      BY <3>1 DEF At
    <3> QED BY <2>0, <2>00, <2>a, <3>1, <3>2
  <2>8. CASE PopSpurious \/ WriteLine \/ WriterEnds
    <3>1. size' = size /\ wpc' # "wait" /\ FreeComing' = FreeComing /\ pc' = pc
      BY <2>8 DEF PopSpurious, WriteLine, WriterEnds, queueVars, FreeComing
    <3>2. At("lock")' = At("lock") /\ At("wait")' = At("wait")
      BY <3>1 DEF At
    <3> QED BY <2>0, <2>00, <2>a, <3>1, <3>2
  <2>9. CASE Close \/ Midnight \/ UNCHANGED vars
    <3>1. size' = size /\ wpc' = wpc /\ FreeComing' = FreeComing /\ pc' = pc
      BY <2>9 DEF Close, Midnight, vars, queueVars, FreeComing
    <3>2. /\ At("lock")' = At("lock") /\ At("wait")' = At("wait")
          /\ At("pushed")' = At("pushed")
      BY <3>1 DEF At
    <3> QED BY <2>0, <2>00, <2>a, <3>1, <3>2
  <2> QED
    BY <2>1, <2>2, <2>3, <2>4, <2>5, <2>6, <2>7, <2>8, <2>9 DEF Next, Push, Writer
<1> QED BY <1>1, <1>2, RingInductive, PTL DEF Safe

-----------------------------------------------------------------------------
(* Who pushes what. *)

\* Each logger has a line left when it is on its way to push, and ~Log pushes
\* the end once, when the others have stopped.
ExitLast ==
  /\ \A p \in Loggers : pc[p] \in {"lock", "wait"} => calls[p] < MaxLines
  /\ pc[Exit] \in {"lock", "wait"} => calls[Exit] = 0
  /\ pc[Exit] # "idle" \/ calls[Exit] # 0 => \A p \in Loggers : pc[p] = "idle"

Lines == [by : Loggers, n : 1 .. MaxLines]

\* No item is pushed twice: the items of a thread are numbered as it pushes them.
Once ==
  /\ \A i, j \in 1 .. Len(accepted) : accepted[i] = accepted[j] => i = j
  /\ \A i \in 1 .. Len(accepted) :
       accepted[i] \in Lines \cup {End} /\ accepted[i].n <= calls[accepted[i].by]

\* The writer ends with the end in its hand, and nothing is pushed behind it.
WriterEnded == wpc = "exited" => single_log = End /\ size = 0 /\ calls[Exit] # 0

-----------------------------------------------------------------------------
(* The files. *)

After(h, f) == h[1] > f[1] \/ (h[1] = f[1] /\ h[2] > f[2])

\* The open file is of the day that m_today tells, has the suffix that the count
\* has reached, and is the last one with lines in it; of these there are no more
\* than were counted since the file was opened.
OpenFile ==
  IF name = Closed THEN wpc = "exited"
  ELSE /\ name \in Files
       /\ name[1] <= date /\ today = Mday(name[1])
       /\ name[2] <= count \div SplitLines
       /\ \A h \in Files : After(h, name) => disk[h] = <<>>
       /\ Len(disk[name]) <= (count % SplitLines) + 1

Entries == [line : Items, on : 0 .. MaxDate]

Written == {Logged[i] : i \in 1 .. Len(Logged)}

\* The lines counted are no more than are in the files, which are all different.
CountFits == Written \subseteq Lines /\ count <= Cardinality(Written)

\* No file has more lines than it may.
FilesShort == \A f \in Files : Len(disk[f]) <= SplitLines

\* Every line is in a file of the day on which it was written.
FilesOfDay == \A f \in Files : \A i \in 1 .. Len(disk[f]) : disk[f][i].on = f[1]

-----------------------------------------------------------------------------
(* Induction over a set of numbers, and FlattenSeq. *)

Less == {p \in Nat \X Nat : p[1] < p[2]}

LEMMA SetInduction ==
  ASSUME NEW S, 0 \in S, \A n \in Nat : n \in S => n + 1 \in S
  PROVE  Nat \subseteq S
<1> SUFFICES ASSUME Nat \ S # {} PROVE FALSE
  OBVIOUS
<1>1. IsWellFoundedOn(Less, Nat)
  BY NatLessThanWellFounded DEF Less, OpToRel
<1>2. PICK x \in Nat \ S : \A y \in Nat \ S : ~ <<y, x>> \in Less
  BY <1>1, WFMin
<1>3. x # 0 /\ x - 1 \in Nat
  OBVIOUS
<1>4. <<x - 1, x>> \in Less
  BY <1>3 DEF Less
<1>5. x - 1 \in S
  BY <1>2, <1>3, <1>4
<1>6. (x - 1) + 1 = x
  OBVIOUS
<1> QED BY <1>3, <1>5, <1>6

\* The sequences of s up to each position, one behind the other.
Flattens(g, s) ==
  g = [i \in 1 .. Len(s) |-> IF i = 1 THEN s[i] ELSE g[i - 1] \o s[i]]

LengthIs(s, n) == Len(s) = n

FlattensTo(g, s, n) ==
  \A i \in 1 .. n : g[i] = IF i = 1 THEN s[i] ELSE g[i - 1] \o s[i]

LEMMA FlattenExists ==
  ASSUME NEW T, NEW s \in Seq(Seq(T)), NEW n \in Nat, n <= Len(s)
  PROVE  \E g \in [1 .. n -> Seq(T)] : FlattensTo(g, s, n)
<1> DEFINE P(m) == \E g \in [1 .. m -> Seq(T)] : FlattensTo(g, s, m)
           S == {m \in Nat : m <= Len(s) => P(m)}
<1>1. 0 \in S
  <2>1. [i \in 1 .. 0 |-> <<>>] \in [1 .. 0 -> Seq(T)]
    OBVIOUS
  <2>2. FlattensTo([i \in 1 .. 0 |-> <<>>], s, 0)
    BY DEF FlattensTo
  <2> QED BY <2>1, <2>2
<1>2. ASSUME NEW m \in Nat, m \in S, m + 1 <= Len(s)
      PROVE  P(m + 1)
  <2>1. Len(s) \in Nat /\ m <= Len(s)
    BY <1>2
  <2>2. PICK g \in [1 .. m -> Seq(T)] : FlattensTo(g, s, m)
    BY <1>2, <2>1
  <2>3. \A i \in 1 .. Len(s) : s[i] \in Seq(T)
    BY ElementOfSeq
  <2> DEFINE next == IF m = 0 THEN s[1] ELSE g[m] \o s[m + 1]
             h == [i \in 1 .. m + 1 |-> IF i = m + 1 THEN next ELSE g[i]]
  <2>4. next \in Seq(T)
    <3>1. CASE m = 0
      BY <1>2, <2>1, <2>3, <3>1
    <3>2. CASE m # 0
      <4>1. g[m] \in Seq(T) /\ s[m + 1] \in Seq(T)
        BY <1>2, <2>1, <2>3, <3>2
      <4> QED BY <3>2, <4>1, ConcatProperties
    <3> QED BY <3>1, <3>2
  <2>5. h \in [1 .. m + 1 -> Seq(T)]
    <3> HIDE DEF next
    <3> QED BY <2>4
  <2>6. FlattensTo(h, s, m + 1)
    <3> SUFFICES ASSUME NEW i \in 1 .. m + 1
                 PROVE  h[i] = IF i = 1 THEN s[i] ELSE h[i - 1] \o s[i]
      BY DEF FlattensTo
    <3>1. CASE i = m + 1
      BY <3>1
    <3>2. CASE i # m + 1
      <4>1. i \in 1 .. m /\ h[i] = g[i]
        BY <3>2
      <4>2. i # 1 => h[i - 1] = g[i - 1]
        BY <4>1
      <4> QED BY <2>2, <4>1, <4>2 DEF FlattensTo
    <3> QED BY <3>1, <3>2
  <2> QED BY <2>5, <2>6
<1>3. \A m \in Nat : m \in S => m + 1 \in S
  BY <1>2
<1>4. Nat \subseteq S
  <2> HIDE DEF S
  <2> QED BY <1>1, <1>3, SetInduction
<1> QED BY <1>4

LEMMA FlattensFirst ==
  ASSUME NEW g, NEW s, NEW n \in Nat, n # 0, FlattensTo(g, s, n)
  PROVE  g[1] = s[1]
<1>1. 1 \in 1 .. n
  OBVIOUS
<1> QED BY <1>1 DEF FlattensTo

\* What holds at the first position, and at each behind one where it holds.
LEMMA UpTo ==
  ASSUME NEW n \in Nat, NEW S, n # 0 => 1 \in S,
         \A i \in 1 .. n : i # 1 /\ i - 1 \in S => i \in S
  PROVE  1 .. n \subseteq S
<1> DEFINE Q == {m \in Nat : m + 1 <= n => m + 1 \in S}
<1>1. 0 \in Q
  OBVIOUS
<1>2. \A m \in Nat : m \in Q => m + 1 \in Q
  <2> SUFFICES ASSUME NEW m \in Nat, m \in Q, (m + 1) + 1 <= n
               PROVE  (m + 1) + 1 \in S
    OBVIOUS
  <2>1. PICK i \in Nat : i = (m + 1) + 1
    OBVIOUS
  <2>2. i \in 1 .. n /\ i # 1 /\ i - 1 = m + 1 /\ m + 1 <= n
    BY <2>1
  <2> QED BY <2>1, <2>2
<1>3. Nat \subseteq Q
  <2> HIDE DEF Q
  <2> QED BY <1>1, <1>2, SetInduction
<1> SUFFICES ASSUME NEW i \in 1 .. n PROVE i \in S
  OBVIOUS
<1>4. i - 1 \in Nat /\ (i - 1) + 1 = i /\ i <= n
  OBVIOUS
<1>5. i - 1 \in Q
  BY <1>3, <1>4
<1> QED BY <1>4, <1>5

\* FlattenSeq is the last of them.
LEMMA FlattenLast ==
  ASSUME NEW T, NEW s \in Seq(Seq(T)), NEW n \in Nat, LengthIs(s, n), n # 0
  PROVE  \E g \in [1 .. n -> Seq(T)] : FlattensTo(g, s, n) /\ FlattenSeq(s) = g[n]
<1> DEFINE g == CHOOSE f : Flattens(f, s)
<1>1. PICK f \in [1 .. n -> Seq(T)] : FlattensTo(f, s, n)
  BY FlattenExists DEF LengthIs
<1>2. Flattens(f, s)
  BY <1>1 DEF Flattens, FlattensTo, LengthIs
<1>3. Flattens(g, s)
  BY <1>2
<1>4. FlattenSeq(s) = g[n]
  BY DEF FlattenSeq, Flattens, LengthIs
<1> HIDE DEF g
<1>5. FlattensTo(g, s, n)
  BY <1>3 DEF Flattens, FlattensTo, LengthIs
<1> DEFINE S == {i \in 1 .. n : g[i] = f[i]}
<1>6. 1 \in S
  BY <1>1, <1>5, FlattensFirst
<1>7. \A i \in 1 .. n : i # 1 /\ i - 1 \in S => i \in S
  <2> SUFFICES ASSUME NEW i \in 1 .. n, i # 1, g[i - 1] = f[i - 1]
               PROVE  g[i] = f[i]
    OBVIOUS
  <2>1. g[i] = g[i - 1] \o s[i]
    BY <1>5 DEF FlattensTo
  <2>2. f[i] = f[i - 1] \o s[i]
    BY <1>1 DEF FlattensTo
  <2> QED BY <2>1, <2>2
<1>8. 1 .. n \subseteq S
  <2> HIDE DEF S
  <2> QED BY <1>6, <1>7, UpTo
<1>9. n \in 1 .. n
  OBVIOUS
<1>10. g[n] = f[n]
  BY <1>8, <1>9
<1> QED BY <1>1, <1>4, <1>10

LEMMA FlattenType ==
  ASSUME NEW T, NEW s \in Seq(Seq(T)), Len(s) # 0
  PROVE  FlattenSeq(s) \in Seq(T)
<1>1. PICK n \in Nat : LengthIs(s, n) /\ n # 0
  BY DEF LengthIs
<1>2. PICK g \in [1 .. n -> Seq(T)] : FlattenSeq(s) = g[n]
  BY <1>1, FlattenLast
<1>3. n \in 1 .. n
  BY <1>1
<1> QED BY <1>2, <1>3

LEMMA AppendLast ==
  \A T : \A s, t \in Seq(T), e \in T : s \o Append(t, e) = Append(s \o t, e)
<1> SUFFICES ASSUME NEW T, NEW s \in Seq(T), NEW t \in Seq(T), NEW e \in T
             PROVE  s \o Append(t, e) = Append(s \o t, e)
  OBVIOUS
<1>1. s \o t \in Seq(T) /\ <<e>> \in Seq(T)
  BY ConcatProperties
<1>2. Append(s \o t, e) = (s \o t) \o <<e>>
  BY <1>1, AppendIsConcat
<1>3. Append(t, e) = t \o <<e>>
  BY AppendIsConcat
<1>4. (s \o t) \o <<e>> = s \o (t \o <<e>>)
  BY <1>1, ConcatAssociative
<1> QED BY <1>2, <1>3, <1>4

\* t is s with e appended to its k-th sequence, and the ones behind it are empty.
Grows(s, t, n, k, e) ==
  /\ t[k] = Append(s[k], e)
  /\ \A i \in 1 .. n : i # k => t[i] = s[i]
  /\ \A i \in 1 .. n : i > k => s[i] = <<>>

\* What is appended to one of the sequences, with none but empty ones behind it,
\* is appended to the whole.
LEMMA FlattenAppend ==
  ASSUME NEW T, NEW s \in Seq(Seq(T)), NEW t \in Seq(Seq(T)), NEW e \in T,
         NEW n \in Nat, LengthIs(s, n), LengthIs(t, n), NEW k \in 1 .. n,
         Grows(s, t, n, k, e)
  PROVE  FlattenSeq(t) = Append(FlattenSeq(s), e)
<1>0. n # 0
  OBVIOUS
<1>1. PICK g \in [1 .. n -> Seq(T)] : FlattensTo(g, s, n) /\ FlattenSeq(s) = g[n]
  BY <1>0, FlattenLast
<1>2. PICK h \in [1 .. n -> Seq(T)] : FlattensTo(h, t, n) /\ FlattenSeq(t) = h[n]
  BY <1>0, FlattenLast
<1> DEFINE P(i) == h[i] = IF i < k THEN g[i] ELSE Append(g[i], e)
           S == {i \in 1 .. n : P(i)}
<1>3. \A i \in 1 .. n : s[i] \in Seq(T)
  BY ElementOfSeq DEF LengthIs
<1>4. 1 \in S
  <2>1. g[1] = s[1]
    BY <1>0, <1>1, FlattensFirst
  <2>2. h[1] = t[1]
    BY <1>0, <1>2, FlattensFirst
  <2>3. 1 \in 1 .. n
    BY <1>0
  <2>4. CASE k = 1
    <3>1. ~ 1 < k /\ t[1] = Append(s[1], e)
      BY <2>4 DEF Grows
    <3> QED BY <2>1, <2>2, <2>3, <3>1
  <2>5. CASE k # 1
    <3>1. 1 < k /\ t[1] = s[1]
      BY <2>3, <2>5 DEF Grows
    <3> QED BY <2>1, <2>2, <2>3, <3>1
  <2> QED BY <2>4, <2>5
<1>5. ASSUME NEW i \in 1 .. n, i # 1, i - 1 \in 1 .. n, P(i - 1)
      PROVE  P(i)
  <2>1. g[i] = g[i - 1] \o s[i]
    BY <1>1, <1>5 DEF FlattensTo
  <2>2. h[i] = h[i - 1] \o t[i]
    BY <1>2, <1>5 DEF FlattensTo
  <2>3. g[i - 1] \in Seq(T) /\ s[i] \in Seq(T)
    BY <1>3, <1>5
  <2>4. CASE i < k
    <3>0. i - 1 < k /\ i # k
      BY <2>4
    <3>1. i - 1 < k /\ t[i] = s[i]
      BY <3>0, Zenon DEF Grows
    <3> QED BY <1>5, <2>1, <2>2, <2>4, <3>1
  <2>5. CASE i = k
    <3>0. i - 1 < k /\ ~ i < k
      BY <2>5
    <3>1. i - 1 < k /\ ~ i < k /\ t[i] = Append(s[i], e)
      BY <2>5, <3>0, Zenon DEF Grows
    <3>2. h[i] = g[i - 1] \o Append(s[i], e)
      BY <1>5, <2>2, <3>1
    <3>a. PICK a \in Seq(T), b \in Seq(T) : a = g[i - 1] /\ b = s[i]
      BY <2>3
    <3>b. \A u \in Seq(T), v \in Seq(T), x \in T : u \o Append(v, x) = Append(u \o v, x)
      BY SMTT(40), AppendLast
    <3>c. a \o Append(b, e) = Append(a \o b, e)
      BY <3>b, Zenon
    <3>3. g[i - 1] \o Append(s[i], e) = Append(g[i - 1] \o s[i], e)
      BY <3>a, <3>c
    <3>4. h[i] = Append(g[i], e)
      BY <2>1, <3>2, <3>3, Zenon
    <3> QED BY <3>1, <3>4
  <2>6. CASE i > k
    <3>0. ~ i - 1 < k /\ ~ i < k /\ i # k
      BY <2>6
    <3>1. ~ i - 1 < k /\ ~ i < k /\ t[i] = <<>> /\ s[i] = <<>>
      BY <2>6, <3>0, Zenon DEF Grows
    <3>2. h[i] = Append(g[i - 1], e) \o <<>> /\ g[i] = g[i - 1] \o <<>>
      BY <1>5, <2>1, <2>2, <3>1
    <3>3. Append(g[i - 1], e) \in Seq(T)
      BY <2>3, AppendProperties
    <3>4. h[i] = Append(g[i - 1], e) /\ g[i] = g[i - 1]
      BY <2>3, <3>2, <3>3, ConcatEmptySeq
    <3> QED BY <3>1, <3>4
  <2>7. i < k \/ i = k \/ i > k
    OBVIOUS
  <2> QED BY <2>4, <2>5, <2>6, <2>7
<1>6. 1 .. n \subseteq S
  <2>1. \A i \in 1 .. n : i # 1 /\ i - 1 \in S => i \in S
    BY <1>5
  <2> HIDE DEF S
  <2> QED BY <1>4, <2>1, UpTo
<1>7. n \in 1 .. n /\ ~ n < k
  BY <1>0
<1>8. P(n)
  BY <1>6, <1>7
<1> QED BY <1>1, <1>2, <1>7, <1>8

LEMMA FlattenEmpty ==
  ASSUME NEW T, NEW s \in Seq(Seq(T)), NEW n \in Nat, LengthIs(s, n), n # 0,
         \A i \in 1 .. n : s[i] = <<>>
  PROVE  FlattenSeq(s) = <<>>
<1>1. PICK g \in [1 .. n -> Seq(T)] : FlattensTo(g, s, n) /\ FlattenSeq(s) = g[n]
  BY FlattenLast
<1> DEFINE S == {i \in 1 .. n : g[i] = <<>>}
<1>2. 1 \in 1 .. n /\ n \in 1 .. n
  OBVIOUS
<1>3. 1 \in S
  <2>1. g[1] = s[1]
    BY <1>1, FlattensFirst
  <2> QED BY <1>2, <2>1
<1>4. \A i \in 1 .. n : i # 1 /\ i - 1 \in S => i \in S
  <2> SUFFICES ASSUME NEW i \in 1 .. n, i # 1, g[i - 1] = <<>>
               PROVE  g[i] = <<>>
    OBVIOUS
  <2>1. g[i] = g[i - 1] \o s[i]
    BY <1>1 DEF FlattensTo
  <2>2. g[i] = <<>> \o <<>>
    BY <2>1
  <2> QED BY <2>2, ConcatEmptySeq, EmptySeq
<1>5. 1 .. n \subseteq S
  <2> HIDE DEF S
  <2> QED BY <1>3, <1>4, UpTo
<1> QED BY <1>1, <1>2, <1>5

-----------------------------------------------------------------------------
(* The log as one sequence. *)

Disks == [Files -> Seq(Entries)]

LEMMA SuffixNat == MaxSuffix \in Nat
  BY FS_CardinalityType DEF MaxSuffix

LEMMA FileParts ==
  ASSUME NEW f \in Files
  PROVE  f[1] \in 0 .. MaxDate /\ f[2] \in 0 .. MaxSuffix /\ f = <<f[1], f[2]>>
  BY DEF Files

LEMMA ClosedNoFile == Closed \notin Files
  BY DEF Closed, Files

\* The lines of a file and the log, with what is on the disk as a parameter.
LinesIn(dk, f) == [i \in DOMAIN dk[f] |-> dk[f][i].line]
Day(dk, d) == [k \in 1 .. MaxSuffix + 1 |-> LinesIn(dk, <<d - 1, k - 1>>)]
Days(dk) == [d \in 1 .. MaxDate + 1 |-> FlattenSeq(Day(dk, d))]

LEMMA LoggedIs == Logged = FlattenSeq(Days(disk))
  BY DEF Logged, Days, Day, LinesOf, LinesIn

LEMMA LinesType ==
  ASSUME NEW dk \in Disks, NEW f \in Files
  PROVE  LinesIn(dk, f) \in Seq(Items) /\ Len(LinesIn(dk, f)) = Len(dk[f])
<1>1. dk[f] \in Seq(Entries)
  BY DEF Disks
<1>2. \A i \in 1 .. Len(dk[f]) : dk[f][i].line \in Items
  <2> SUFFICES ASSUME NEW i \in 1 .. Len(dk[f]) PROVE dk[f][i].line \in Items
    OBVIOUS
  <2>1. dk[f][i] \in Entries
    BY <1>1, ElementOfSeq
  <2> QED BY <2>1 DEF Entries
<1>3. DOMAIN dk[f] = 1 .. Len(dk[f]) /\ Len(dk[f]) \in Nat
  BY <1>1, LenProperties
<1> DEFINE q == [i \in 1 .. Len(dk[f]) |-> dk[f][i].line]
<1>4. LinesIn(dk, f) = q
  BY <1>3 DEF LinesIn
<1>5. q \in Seq(Items)
  BY <1>2, <1>3, IsASeq
<1>6. Len(q) = Len(dk[f])
  BY <1>3, <1>5, LenProperties
<1> QED BY <1>4, <1>5, <1>6

LEMMA FileOf ==
  ASSUME NEW d \in 1 .. MaxDate + 1, NEW k \in 1 .. MaxSuffix + 1
  PROVE  <<d - 1, k - 1>> \in Files
  BY SuffixNat DEF Files

LEMMA DayType ==
  ASSUME NEW dk \in Disks, NEW d \in 1 .. MaxDate + 1
  PROVE  /\ Day(dk, d) \in Seq(Seq(Items)) /\ LengthIs(Day(dk, d), MaxSuffix + 1)
         /\ MaxSuffix + 1 \in Nat /\ MaxSuffix + 1 # 0
         /\ FlattenSeq(Day(dk, d)) \in Seq(Items)
<1>1. MaxSuffix + 1 \in Nat /\ MaxSuffix + 1 # 0
  BY SuffixNat
<1>2. \A k \in 1 .. MaxSuffix + 1 : LinesIn(dk, <<d - 1, k - 1>>) \in Seq(Items)
  BY FileOf, LinesType
<1>3. Day(dk, d) \in Seq(Seq(Items))
  <2>1. PICK m \in Nat : m = MaxSuffix + 1
    BY <1>1
  <2> DEFINE line(k) == LinesIn(dk, <<d - 1, k - 1>>)
  <2>2. \A k \in 1 .. m : line(k) \in Seq(Items)
    BY <1>2, <2>1
  <2>3. Day(dk, d) = [k \in 1 .. m |-> line(k)]
    BY <2>1 DEF Day
  <2> HIDE DEF line
  <2>4. [k \in 1 .. m |-> line(k)] \in Seq(Seq(Items))
    BY <2>2, IsASeq
  <2> QED BY <2>3, <2>4
<1>4. Len(Day(dk, d)) = MaxSuffix + 1
  BY <1>1, <1>3, LenProperties DEF Day
<1>5. FlattenSeq(Day(dk, d)) \in Seq(Items)
  BY <1>1, <1>3, <1>4, FlattenType
<1> QED BY <1>1, <1>3, <1>4, <1>5 DEF LengthIs

LEMMA DaysType ==
  ASSUME NEW dk \in Disks
  PROVE  /\ Days(dk) \in Seq(Seq(Items)) /\ LengthIs(Days(dk), MaxDate + 1)
         /\ MaxDate + 1 \in Nat /\ MaxDate + 1 # 0
         /\ FlattenSeq(Days(dk)) \in Seq(Items)
<1>1. MaxDate + 1 \in Nat /\ MaxDate + 1 # 0
  OBVIOUS
<1>2. \A d \in 1 .. MaxDate + 1 : FlattenSeq(Day(dk, d)) \in Seq(Items)
  BY DayType
<1>3. Days(dk) \in Seq(Seq(Items))
  BY <1>1, <1>2, IsASeq DEF Days
<1>4. Len(Days(dk)) = MaxDate + 1
  BY <1>1, <1>3, LenProperties DEF Days
<1>5. FlattenSeq(Days(dk)) \in Seq(Items)
  BY <1>1, <1>3, <1>4, FlattenType
<1> QED BY <1>1, <1>3, <1>4, <1>5 DEF LengthIs

LEMMA LoggedEmpty ==
  ASSUME NEW dk \in Disks, \A f \in Files : dk[f] = <<>>
  PROVE  FlattenSeq(Days(dk)) = <<>>
<1>1. \A d \in 1 .. MaxDate + 1 : FlattenSeq(Day(dk, d)) = <<>>
  <2> SUFFICES ASSUME NEW d \in 1 .. MaxDate + 1 PROVE FlattenSeq(Day(dk, d)) = <<>>
    OBVIOUS
  <2>1. \A k \in 1 .. MaxSuffix + 1 : Day(dk, d)[k] = <<>>
    <3> SUFFICES ASSUME NEW k \in 1 .. MaxSuffix + 1 PROVE Day(dk, d)[k] = <<>>
      OBVIOUS
    <3>1. dk[<<d - 1, k - 1>>] = <<>>
      BY FileOf
    <3>2. LinesIn(dk, <<d - 1, k - 1>>) = <<>>
      BY <3>1 DEF LinesIn
    <3> QED BY <3>2 DEF Day
  <2> QED BY <2>1, DayType, FlattenEmpty
<1>2. \A d \in 1 .. MaxDate + 1 : Days(dk)[d] = <<>>
  BY <1>1 DEF Days
<1> QED BY <1>2, DaysType, FlattenEmpty

\* dl is dk with x appended to file f.
Added(dk, dl, f, x) == dl = [dk EXCEPT ![f] = Append(@, x)]

LEMMA LinesGrow ==
  ASSUME NEW dk \in Disks, NEW dl \in Disks, NEW f \in Files, NEW x \in Entries,
         Added(dk, dl, f, x)
  PROVE  /\ LinesIn(dl, f) = Append(LinesIn(dk, f), x.line)
         /\ \A h \in Files : h # f => LinesIn(dl, h) = LinesIn(dk, h)
<1>1. dl[f] = Append(dk[f], x) /\ dk[f] \in Seq(Entries) /\ x.line \in Items
  BY DEF Disks, Entries, Added
<1>2. PICK n \in Nat : n = Len(dk[f])
  BY <1>1, LenProperties
<1>3. /\ Len(dl[f]) = n + 1 /\ dl[f][n + 1] = x /\ dl[f] \in Seq(Entries)
      /\ \A i \in 1 .. n : dl[f][i] = dk[f][i]
  BY <1>1, <1>2, AppendProperties
<1>4. LinesIn(dk, f) = [i \in 1 .. n |-> dk[f][i].line] /\ LinesIn(dk, f) \in Seq(Items)
  BY <1>1, <1>2, LinesType, LenProperties DEF LinesIn
<1>5. LinesIn(dl, f) = [i \in 1 .. n + 1 |-> dl[f][i].line]
  <2>1. DOMAIN dl[f] = 1 .. n + 1
    BY <1>3, LenProperties
  <2> QED BY <2>1 DEF LinesIn
<1>6. Len(LinesIn(dk, f)) = n
  BY <1>2, LinesType
<1> DEFINE q == Append(LinesIn(dk, f), x.line)
<1>7. /\ q \in Seq(Items) /\ Len(q) = n + 1 /\ q[n + 1] = x.line
      /\ \A i \in 1 .. n : q[i] = LinesIn(dk, f)[i]
  BY <1>1, <1>4, <1>6, AppendProperties
<1> HIDE DEF q
<1>8. q = [i \in 1 .. n + 1 |-> q[i]]
  BY <1>7, LenProperties
<1>9. \A i \in 1 .. n + 1 : q[i] = dl[f][i].line
  <2> SUFFICES ASSUME NEW i \in 1 .. n + 1 PROVE q[i] = dl[f][i].line
    OBVIOUS
  <2>1. CASE i = n + 1
    BY <1>3, <1>7, <2>1
  <2>2. CASE i \in 1 .. n
    BY <1>3, <1>4, <1>7, <2>2
  <2>3. i = n + 1 \/ i \in 1 .. n
    OBVIOUS
  <2> QED BY <2>1, <2>2, <2>3
<1>10. LinesIn(dl, f) = q
  BY <1>5, <1>8, <1>9
<1>11. \A h \in Files : h # f => LinesIn(dl, h) = LinesIn(dk, h)
  BY DEF LinesIn, Disks, Added
<1> QED BY <1>10, <1>11 DEF q

\* A line that is appended to a file with none but empty ones behind it is appended
\* to the log.
LEMMA LogGrows ==
  ASSUME NEW dk \in Disks, NEW dl \in Disks, NEW f \in Files, NEW x \in Entries,
         Added(dk, dl, f, x), \A h \in Files : After(h, f) => dk[h] = <<>>
  PROVE  FlattenSeq(Days(dl)) = Append(FlattenSeq(Days(dk)), x.line)
<1>0. PICK e \in Items : e = x.line
  BY DEF Entries
<1>1. /\ LinesIn(dl, f) = Append(LinesIn(dk, f), e)
      /\ \A h \in Files : h # f => LinesIn(dl, h) = LinesIn(dk, h)
  BY <1>0, LinesGrow
<1>2. \A h \in Files : After(h, f) => LinesIn(dk, h) = <<>>
  BY DEF LinesIn
<1>3. PICK d \in 1 .. MaxDate + 1, k \in 1 .. MaxSuffix + 1 : f = <<d - 1, k - 1>>
  <2>1. /\ f[1] + 1 \in 1 .. MaxDate + 1 /\ f[2] + 1 \in 1 .. MaxSuffix + 1
        /\ (f[1] + 1) - 1 = f[1] /\ (f[2] + 1) - 1 = f[2]
    BY SMTT(40), FileParts, SuffixNat
  <2> QED BY <2>1, FileParts
<1>4. FlattenSeq(Day(dl, d)) = Append(FlattenSeq(Day(dk, d)), e)
  <2>1. Grows(Day(dk, d), Day(dl, d), MaxSuffix + 1, k, e)
    <3>1. Day(dl, d)[k] = Append(Day(dk, d)[k], e)
      BY <1>1, <1>3 DEF Day
    <3>2. ASSUME NEW i \in 1 .. MaxSuffix + 1, i # k
          PROVE  Day(dl, d)[i] = Day(dk, d)[i]
      <4>1. <<d - 1, i - 1>> # f /\ <<d - 1, i - 1>> \in Files
        BY <1>3, <3>2, SuffixNat, FileOf
      <4>2. LinesIn(dl, <<d - 1, i - 1>>) = LinesIn(dk, <<d - 1, i - 1>>)
        BY <1>1, <4>1
      <4> QED BY <4>2 DEF Day
    <3>3. ASSUME NEW i \in 1 .. MaxSuffix + 1, i > k
          PROVE  Day(dk, d)[i] = <<>>
      <4>1. After(<<d - 1, i - 1>>, f) /\ <<d - 1, i - 1>> \in Files
        BY <1>3, <3>3, SuffixNat, FileOf DEF After
      <4> QED BY <1>2, <4>1 DEF Day
    <3> QED BY <3>1, <3>2, <3>3 DEF Grows
  <2> QED BY <2>1, DayType, FlattenAppend
<1>5. Grows(Days(dk), Days(dl), MaxDate + 1, d, e)
  <2>1. Days(dl)[d] = Append(Days(dk)[d], e)
    BY <1>4 DEF Days
  <2>2. ASSUME NEW i \in 1 .. MaxDate + 1, i # d
        PROVE  Days(dl)[i] = Days(dk)[i]
    <3>1. ASSUME NEW j \in 1 .. MaxSuffix + 1
          PROVE  LinesIn(dl, <<i - 1, j - 1>>) = LinesIn(dk, <<i - 1, j - 1>>)
      <4>1. <<i - 1, j - 1>> # f /\ <<i - 1, j - 1>> \in Files
        BY <1>3, <2>2, SuffixNat, FileOf
      <4> QED BY <1>1, <4>1
    <3>2. Day(dl, i) = Day(dk, i)
      BY <3>1 DEF Day
    <3> QED BY <3>2 DEF Days
  <2>3. ASSUME NEW i \in 1 .. MaxDate + 1, i > d
        PROVE  Days(dk)[i] = <<>>
    <3>1. \A j \in 1 .. MaxSuffix + 1 : Day(dk, i)[j] = <<>>
      <4> SUFFICES ASSUME NEW j \in 1 .. MaxSuffix + 1 PROVE Day(dk, i)[j] = <<>>
        OBVIOUS
      <4>1. After(<<i - 1, j - 1>>, f) /\ <<i - 1, j - 1>> \in Files
        BY <1>3, <2>3, SuffixNat, FileOf DEF After
      <4> QED BY <1>2, <4>1 DEF Day
    <3>2. FlattenSeq(Day(dk, i)) = <<>>
      BY <3>1, DayType, FlattenEmpty
    <3> QED BY <3>2 DEF Days
  <2> QED BY <2>1, <2>2, <2>3 DEF Grows
<1>6. FlattenSeq(Days(dl)) = Append(FlattenSeq(Days(dk)), e)
  BY <1>5, DaysType, FlattenAppend
<1> QED BY <1>0, <1>6

-----------------------------------------------------------------------------
(* Who pushes what, proved. *)

\* What the writer has in its hand is what it took last.
HandIs ==
  wpc \in {"taken", "write", "exited"} =>
    taken # <<>> /\ single_log = taken[Len(taken)]

Pushed == ExitLast /\ Once /\ WriterEnded /\ HandIs

LEMMA EndParts == End.by = Exit /\ End.n = 1 /\ End \in Items
  BY DEF End, Items, Pushers

\* Nothing is pushed once ~Log has pushed the end.
LEMMA PushBefore ==
  ASSUME RingInv, ExitLast, NEW p \in Pushers, Ready(p)
  PROVE  /\ calls[Exit] = 0
         /\ p = Exit => \A q \in Loggers : pc[q] = "idle"
         /\ p # Exit => p \in Loggers /\ calls[p] < MaxLines /\ pc[Exit] = "idle"
<1>1. CASE p = Exit
  BY <1>1 DEF Ready, MayLog, MayEnd, ExitLast
<1>2. CASE p # Exit
  <2>1. p \in Loggers
    BY <1>2 DEF Pushers
  <2>2. CASE pc[p] = "lock"
    BY <1>2, <2>1, <2>2 DEF ExitLast
  <2>3. CASE pc[p] # "lock"
    BY <1>2, <2>1, <2>3 DEF Ready, MayLog, MayEnd
  <2> QED BY <1>2, <2>1, <2>2, <2>3
<1> QED BY <1>1, <1>2

LEMMA ItemNew ==
  ASSUME RingInv, Once, NEW p \in Pushers, PushPut(p), ExitLast
  PROVE  Once'
<1>1. /\ accepted \in Seq(Items) /\ Item(p) \in Lines \cup {End} /\ Item(p) \in Items
      /\ Item(p).by = p /\ Item(p).n = calls[p] + 1
  <2>1. calls \in [Pushers -> 0 .. MaxLines + 1] /\ accepted \in Seq(Items)
    BY DEF RingInv, QueueTypeOK
  <2>2. CASE p = Exit
    <3>1. Item(p) = End
      BY <2>2, PushBefore DEF PushPut, Item, End
    <3> QED BY <2>1, <3>1, EndParts DEF Item
  <2>3. CASE p # Exit
    <3>1. p \in Loggers /\ calls[p] \in 0 .. MaxLines + 1 /\ calls[p] < MaxLines
      BY <2>1, <2>3, PushBefore DEF PushPut
    <3> QED BY <2>1, <3>1 DEF Item, Lines, Items
  <2> QED BY <2>2, <2>3
<1>2. PICK n \in Nat : n = Len(accepted)
  BY <1>1, LenProperties
<1>3. /\ Len(accepted') = n + 1 /\ accepted'[n + 1] = Item(p)
      /\ \A i \in 1 .. n : accepted'[i] = accepted[i]
  BY <1>1, <1>2, AppendProperties DEF PushPut
<1>4. /\ calls'[p] = calls[p] + 1 /\ \A q \in Pushers : q # p => calls'[q] = calls[q]
      /\ \A q \in Pushers : calls[q] \in Nat
  BY DEF PushPut, RingInv, QueueTypeOK
<1>5. \A i \in 1 .. n :
        /\ accepted[i] \in Lines \cup {End} /\ accepted[i].by \in Pushers
        /\ accepted[i].n \in Nat /\ accepted[i].n <= calls[accepted[i].by]
  <2> SUFFICES ASSUME NEW i \in 1 .. n
               PROVE  /\ accepted[i] \in Lines \cup {End} /\ accepted[i].by \in Pushers
                      /\ accepted[i].n \in Nat /\ accepted[i].n <= calls[accepted[i].by]
    OBVIOUS
  <2>1. accepted[i] \in Items
    BY <1>1, <1>2, ElementOfSeq
  <2> QED BY <1>2, <2>1 DEF Items, Once
<1>6. \A i \in 1 .. n : accepted[i] # Item(p)
  <2> SUFFICES ASSUME NEW i \in 1 .. n, accepted[i] = Item(p) PROVE FALSE
    OBVIOUS
  <2>1. calls[p] + 1 <= calls[p]
    BY <1>1, <1>5
  <2> QED BY <1>4, <2>1
<1>7. ASSUME NEW i \in 1 .. n + 1
      PROVE  /\ accepted'[i] \in Lines \cup {End}
             /\ accepted'[i].n <= calls'[accepted'[i].by]
  <2>1. CASE i = n + 1
    <3>1. calls[p] + 1 <= calls'[p]
      BY <1>4
    <3> QED BY <1>1, <1>3, <2>1, <3>1
  <2>2. CASE i \in 1 .. n
    <3>1. \A q \in Pushers : calls[q] <= calls'[q] /\ calls[q] \in Nat /\ calls'[q] \in Nat
      BY <1>4
    <3>2. accepted[i].n <= calls'[accepted[i].by]
      <4>1. PICK q \in Pushers : q = accepted[i].by
        BY <1>5, <2>2
      <4>2. PICK m \in Nat : m = accepted[i].n
        BY <1>5, <2>2
      <4>3. m <= calls[q]
        BY <1>5, <2>2, <4>1, <4>2
      <4>4. m <= calls'[q]
        BY <3>1, <4>3
      <4> QED BY <4>1, <4>2, <4>4
    <3> QED BY <1>3, <1>5, <2>2, <3>2
  <2>3. i = n + 1 \/ i \in 1 .. n
    OBVIOUS
  <2> QED BY <2>1, <2>2, <2>3
<1>8. ASSUME NEW i \in 1 .. n + 1, NEW j \in 1 .. n + 1, accepted'[i] = accepted'[j]
      PROVE  i = j
  <2>1. (i = n + 1 \/ i \in 1 .. n) /\ (j = n + 1 \/ j \in 1 .. n)
    OBVIOUS
  <2>2. CASE i \in 1 .. n /\ j \in 1 .. n
    BY <1>2, <1>3, <1>8, <2>2 DEF Once
  <2>3. CASE i = n + 1 /\ j \in 1 .. n
    BY <1>3, <1>6, <1>8, <2>3
  <2>4. CASE j = n + 1 /\ i \in 1 .. n
    BY <1>3, <1>6, <1>8, <2>4
  <2> QED BY <2>1, <2>2, <2>3, <2>4
<1> QED BY <1>3, <1>7, <1>8 DEF Once

LEMMA PushedPut ==
  ASSUME RingInv, Pushed, NEW p \in Pushers, PushPut(p)
  PROVE  Pushed'
<1>1. Once'
  BY ItemNew DEF Pushed
<1>2. /\ Ready(p) /\ ExitLast /\ UNCHANGED <<wpc, single_log, taken>>
      /\ pc' = [pc EXCEPT ![p] = "pushed"] /\ calls' = [calls EXCEPT ![p] = @ + 1]
  BY DEF PushPut, Pushed
<1>3. HandIs'
  BY <1>2 DEF HandIs, Pushed
<1>4. calls[Exit] = 0
  BY <1>2, PushBefore
<1>5. WriterEnded'
  BY <1>2, <1>4 DEF WriterEnded, Pushed
<1>6. ExitLast'
  <2>1. Exit \in Pushers /\ Loggers \subseteq Pushers /\ Exit \notin Loggers
        /\ pc \in [Pushers -> {"idle", "lock", "wait", "pushed"}]
        /\ calls \in [Pushers -> 0 .. MaxLines + 1]
    BY DEF Pushers, RingInv, QueueTypeOK
  <2>2. CASE p = Exit
    <3>1. \A q \in Loggers : pc[q] = "idle"
      BY <1>2, <2>2, PushBefore
    <3> QED BY <1>2, <2>1, <2>2, <3>1 DEF ExitLast
  <2>3. CASE p # Exit
    <3>1. p \in Loggers /\ pc[Exit] = "idle"
      BY <1>2, <2>3, PushBefore
    <3>2. pc'[Exit] = "idle" /\ calls'[Exit] = 0
      BY <1>2, <1>4, <2>1, <2>3, <3>1
    <3> QED BY <1>2, <2>1, <3>1, <3>2 DEF ExitLast
  <2> QED BY <2>2, <2>3
<1> QED BY <1>1, <1>3, <1>5, <1>6 DEF Pushed

\* A step of a thread that pushes nothing.
LEMMA PushedMove ==
  ASSUME RingInv, Pushed, NEW p \in Pushers,
         PushWait(p) \/ PushSpurious(p) \/ PushNotify(p)
  PROVE  Pushed'
<1>1. UNCHANGED <<queueVars, calls, single_log, accepted, taken>>
  BY DEF PushWait, PushSpurious, PushNotify
<1>2. Once'
  BY <1>1 DEF Once, Pushed
<1>3. wpc' = wpc \/ (wpc = "wait" /\ wpc' = "lock")
  BY DEF PushWait, PushSpurious, PushNotify
<1>4. HandIs' /\ WriterEnded'
  BY <1>1, <1>3 DEF HandIs, WriterEnded, Pushed, queueVars
<1>5. ExitLast'
  <2>1. /\ Exit \in Pushers /\ Loggers \subseteq Pushers /\ Exit \notin Loggers
        /\ pc \in [Pushers -> {"idle", "lock", "wait", "pushed"}] /\ ExitLast
    BY DEF Pushers, RingInv, QueueTypeOK, Pushed
  <2>2. CASE PushWait(p)
    <3>1. pc' = [pc EXCEPT ![p] = "wait"] /\ Ready(p)
      BY <2>2 DEF PushWait
    <3>2. CASE p = Exit
      <4>1. (\A q \in Loggers : pc[q] = "idle") /\ calls[Exit] = 0
        BY <2>1, <3>1, <3>2, PushBefore
      <4> QED BY <1>1, <2>1, <3>1, <3>2, <4>1 DEF ExitLast
    <3>3. CASE p # Exit
      <4>1. p \in Loggers /\ pc[Exit] = "idle" /\ calls[Exit] = 0 /\ calls[p] < MaxLines
        BY <2>1, <3>1, <3>3, PushBefore
      <4>2. pc'[Exit] = "idle"
        BY <2>1, <3>1, <3>3, <4>1
      <4> QED BY <1>1, <2>1, <3>1, <4>1, <4>2 DEF ExitLast
    <3> QED BY <3>2, <3>3
  <2>3. CASE PushSpurious(p)
    <3>1. pc[p] = "wait" /\ pc' = [pc EXCEPT ![p] = "lock"]
      BY <2>3 DEF PushSpurious
    <3> QED BY <1>1, <2>1, <3>1 DEF ExitLast
  <2>4. CASE PushNotify(p)
    <3>1. pc[p] = "pushed" /\ pc' = [pc EXCEPT ![p] = "idle"]
      BY <2>4 DEF PushNotify
    <3> QED BY <1>1, <2>1, <3>1 DEF ExitLast
  <2> QED BY <2>2, <2>3, <2>4
<1> QED BY <1>2, <1>4, <1>5 DEF Pushed

LEMMA PushedWriter ==
  ASSUME RingInv, TakenInOrder, Pushed, Writer \/ PopSpurious \/ Close \/ Midnight
  PROVE  Pushed'
<1>1. UNCHANGED <<calls, accepted>>
  BY DEF Writer, PopWait, PopTake, PopNotify, WriteLine, WriterEnds, PopSpurious, Close,
         Midnight
<1>2. Once'
  BY <1>1 DEF Once, Pushed
<1>3. ExitLast'
  <2>1. CASE UNCHANGED pc
    BY <1>1, <2>1 DEF ExitLast, Pushed
  <2>2. CASE PopNotify /\ pc' # pc
    <3>1. PICK q \in Pushers : pc[q] = "wait" /\ pc' = [pc EXCEPT ![q] = "lock"]
      BY <2>2 DEF PopNotify, At
    <3>2. Exit \in Pushers /\ Loggers \subseteq Pushers
          /\ pc \in [Pushers -> {"idle", "lock", "wait", "pushed"}]
      BY DEF Pushers, RingInv, QueueTypeOK
    <3> QED BY <1>1, <3>1, <3>2 DEF ExitLast, Pushed
  <2> QED BY <2>1, <2>2 DEF Writer, PopWait, PopTake, PopNotify, WriteLine, WriterEnds,
             PopSpurious, Close, Midnight
<1>4. HandIs' /\ WriterEnded'
  <2>1. CASE PopTake
    <3>1. /\ taken \in Seq(Items) /\ array[front] \in Items
          /\ taken' = Append(taken, array[front]) /\ single_log' = array[front]
          /\ wpc' = "taken"
      BY <2>1 DEF PopTake, RingInv, QueueTypeOK
    <3>2. taken' # <<>> /\ taken'[Len(taken')] = single_log'
      BY <3>1, AppendProperties
    <3> QED BY <3>1, <3>2 DEF HandIs, WriterEnded
  <2>2. CASE WriterEnds
    <3>1. /\ wpc = "write" /\ single_log = End /\ size = 0
          /\ UNCHANGED <<single_log, size, taken>>
      BY <2>2 DEF WriterEnds, queueVars
    <3>2. taken # <<>> /\ taken[Len(taken)] = End /\ taken \in Seq(Items)
      BY <3>1 DEF HandIs, Pushed, RingInv, QueueTypeOK
    <3>3. PICK n \in Nat : n = Len(taken) /\ n # 0
      BY <3>2, EmptySeq, LenProperties
    <3>4. Ring \in Seq(Items)
      BY RingIsSeq DEF RingInv, QueueTypeOK, Ring
    <3>5. Len(accepted) \in Nat /\ n <= Len(accepted) /\ accepted[n] = End
      BY <3>2, <3>3, <3>4, ConcatProperties, LenProperties DEF TakenInOrder
    <3>6. n \in 1 .. Len(accepted)
      BY <3>3, <3>5
    <3>7. 1 <= calls[Exit]
      BY <3>5, <3>6, EndParts DEF Once, Pushed
    <3> QED BY <1>1, <3>1, <3>7 DEF HandIs, WriterEnded, Pushed
  <2>3. CASE PopNotify
    BY <2>3 DEF PopNotify, HandIs, WriterEnded, Pushed
  <2>4. CASE PopWait \/ WriteLine \/ PopSpurious
    BY <2>4 DEF PopWait, WriteLine, PopSpurious, HandIs, WriterEnded
  <2>5. CASE Close \/ Midnight
    BY <2>5 DEF Close, Midnight, HandIs, WriterEnded, Pushed, queueVars
  <2> QED BY <2>1, <2>2, <2>3, <2>4, <2>5 DEF Writer
<1> QED BY <1>2, <1>3, <1>4 DEF Pushed

LEMMA PushedHolds == Safe => []Pushed
<1>1. Init => Pushed
  BY DEF Init, Pushed, ExitLast, Once, WriterEnded, HandIs, Pushers
<1>2. RingInv /\ TakenInOrder /\ Pushed /\ [Next]_vars => Pushed'
  <2> SUFFICES ASSUME RingInv, TakenInOrder, Pushed, [Next]_vars PROVE Pushed'
    OBVIOUS
  <2>1. CASE \E p \in Pushers : Push(p) \/ PushSpurious(p)
    BY <2>1, PushedPut, PushedMove DEF Push
  <2>2. CASE Writer \/ PopSpurious \/ Close \/ Midnight
    BY <2>2, PushedWriter
  <2>3. CASE UNCHANGED vars
    BY <2>3 DEF vars, queueVars, Pushed, ExitLast, Once, WriterEnded, HandIs
  <2> QED BY <2>1, <2>2, <2>3 DEF Next
<1> QED BY <1>1, <1>2, RingInductive, OrderKept, PTL DEF Safe

-----------------------------------------------------------------------------
(* Which file the next line goes to. *)

LEMMA DivNat ==
  ASSUME NEW S \in Nat \ {0}, NEW c \in Nat
  PROVE  c \div S \in Nat /\ c % S \in 0 .. S - 1
  OBVIOUS

LEMMA DivLeq ==
  ASSUME NEW S \in Nat \ {0}, NEW c \in Nat
  PROVE  c \div S <= c
  OBVIOUS

LEMMA DivGrows ==
  ASSUME NEW S \in Nat \ {0}, NEW c \in Nat
  PROVE  (c + 1) \div S >= c \div S
  OBVIOUS

LEMMA DivSteps ==
  ASSUME NEW S \in Nat \ {0}, NEW c \in Nat, (c + 1) % S = 0
  PROVE  (c + 1) \div S > c \div S
  OBVIOUS

LEMMA DivStays ==
  ASSUME NEW S \in Nat \ {0}, NEW c \in Nat, NEW d \in Nat, d % S # 0, d = c + 1
  PROVE  d \div S = c \div S
  OBVIOUS

LEMMA ModIs ==
  ASSUME NEW S \in Nat \ {0}, NEW c \in Nat
  PROVE  c % S = c - S * (c \div S)
  OBVIOUS

LEMMA ModSteps ==
  ASSUME NEW S \in Nat \ {0}, NEW c \in Nat, (c + 1) % S # 0
  PROVE  (c + 1) % S = (c % S) + 1
<1>1. PICK d \in Nat : d = c + 1
  OBVIOUS
<1>2. d \div S = c \div S /\ c \div S \in Nat
  BY <1>1, DivStays, DivNat
<1>3. d % S = d - S * (d \div S) /\ c % S = c - S * (c \div S)
  BY <1>1, ModIs
<1>4. PICK m \in Nat : m = S * (c \div S)
  BY <1>2
<1>5. d % S = d - m /\ c % S = c - m
  BY <1>2, <1>3, <1>4
<1> QED BY <1>1, <1>5

LEMMA ZeroDiv ==
  ASSUME NEW S \in Nat \ {0}
  PROVE  0 \div S = 0 /\ 0 % S = 0
  OBVIOUS

\* The line in hand goes to the open file, with one more line counted in it than
\* before, or to a file behind every file that has lines.
LEMMA NextFile ==
  ASSUME OpenFile, name \in Files, date \in 0 .. MaxDate,
         count \in 0 .. MaxSuffix, count + 1 <= MaxSuffix
  PROVE  /\ Name \in Files /\ Count \in 0 .. MaxSuffix
         /\ Name[1] <= date /\ Mday(date) = Mday(Name[1])
         /\ Name[2] <= Count \div SplitLines
         /\ \/ Name = name /\ Count % SplitLines = (count % SplitLines) + 1
               /\ today = Mday(date)
            \/ After(Name, name) /\ Name[1] = date
<1>1. /\ name[1] \in 0 .. MaxDate /\ name[2] \in 0 .. MaxSuffix /\ MaxSuffix \in Nat
      /\ name[1] <= date /\ today = Mday(name[1]) /\ name[2] <= count \div SplitLines
  BY FileParts, SuffixNat, ClosedNoFile DEF OpenFile
<1>2. SplitLines \in Nat \ {0} /\ count \in Nat /\ count + 1 \in 0 .. MaxSuffix
  BY <1>1, SplitLinesAssumption
<1>3. CASE NewDay
  <2>1. Name = <<date, 0>> /\ Count = 0
    BY <1>3 DEF Name, Switches, Count
  <2>2. name[1] # date
    BY <1>1, <1>3 DEF NewDay
  <2>3. After(Name, name)
    BY <1>1, <2>1, <2>2 DEF After
  <2>4. Name \in Files
    BY <1>1, <2>1 DEF Files
  <2> QED BY <1>1, <1>2, <2>1, <2>3, <2>4, ZeroDiv
<1>4. CASE ~NewDay /\ (count + 1) % SplitLines = 0
  <2>1. Name = <<date, (count + 1) \div SplitLines>> /\ Count = count + 1
    BY <1>4 DEF Name, Switches, Count
  <2>2. /\ (count + 1) \div SplitLines > count \div SplitLines
        /\ (count + 1) \div SplitLines \in Nat /\ count \div SplitLines \in Nat
        /\ (count + 1) \div SplitLines <= count + 1
    <3>1. PICK c \in Nat : c = count
      BY <1>2
    <3>2. c + 1 \in Nat
      OBVIOUS
    <3>3. (c + 1) \div SplitLines > c \div SplitLines
      BY <1>2, <1>4, <3>1, DivSteps
    <3>4. (c + 1) \div SplitLines \in Nat /\ (c + 1) \div SplitLines <= c + 1
      BY <1>2, <3>2, DivNat, DivLeq
    <3>5. c \div SplitLines \in Nat
      BY <1>2, DivNat
    <3> QED BY <3>1, <3>3, <3>4, <3>5
  <2>3. PICK m \in Nat, n \in Nat : m = (count + 1) \div SplitLines /\ n = count \div SplitLines
    BY <2>2
  <2>4. After(Name, name)
    BY <1>1, <2>1, <2>2, <2>3 DEF After
  <2>5. Name \in Files
    BY <1>1, <1>2, <2>1, <2>2, <2>3 DEF Files
  <2> QED BY <1>2, <2>1, <2>2, <2>4, <2>5
<1>5. CASE ~NewDay /\ (count + 1) % SplitLines # 0
  <2>1. Name = name /\ Count = count + 1 /\ today = Mday(date)
    BY <1>5 DEF Name, Switches, Count, NewDay
  <2>2. (count + 1) % SplitLines = (count % SplitLines) + 1
    BY <1>2, <1>5, ModSteps
  <2>3. /\ (count + 1) \div SplitLines >= count \div SplitLines
        /\ (count + 1) \div SplitLines \in Nat /\ count \div SplitLines \in Nat
    <3>1. PICK c \in Nat : c = count
      BY <1>2
    <3>2. c + 1 \in Nat
      OBVIOUS
    <3>3. (c + 1) \div SplitLines >= c \div SplitLines
      BY <1>2, DivGrows
    <3>4. (c + 1) \div SplitLines \in Nat /\ c \div SplitLines \in Nat
      BY <1>2, <3>2, DivNat
    <3> QED BY <3>1, <3>3, <3>4
  <2>4. name[2] <= (count + 1) \div SplitLines
    BY <1>1, <2>3
  <2> QED BY <1>1, <1>2, <2>1, <2>2, <2>4
<1> QED BY <1>3, <1>4, <1>5

\* There are as many lines to log as there are suffixes.
LEMMA LinesCount == IsFiniteSet(Lines) /\ Cardinality(Lines) = MaxSuffix
<1>1. IsFiniteSet(1 .. MaxLines) /\ Cardinality(1 .. MaxLines) = MaxLines
  BY FS_Interval
<1>2. /\ IsFiniteSet(Loggers \X (1 .. MaxLines))
      /\ Cardinality(Loggers \X (1 .. MaxLines)) = Cardinality(Loggers) * MaxLines
  BY <1>1, FS_Product
<1> DEFINE P == Loggers \X (1 .. MaxLines)
           g == [x \in P |-> [by |-> x[1], n |-> x[2]]]
<1>3. g \in Bijection(P, Lines)
  <2>1. g \in [P -> Lines]
    BY DEF Lines
  <2>2. \A x, y \in P : g[x] = g[y] => x = y
    <3> SUFFICES ASSUME NEW x \in P, NEW y \in P, g[x] = g[y] PROVE x = y
      OBVIOUS
    <3>1. g[x].by = x[1] /\ g[y].by = y[1] /\ g[x].n = x[2] /\ g[y].n = y[2]
      OBVIOUS
    <3> QED BY <3>1
  <2>3. \A z \in Lines : \E x \in P : g[x] = z
    <3> SUFFICES ASSUME NEW z \in Lines PROVE \E x \in P : g[x] = z
      OBVIOUS
    <3>1. <<z.by, z.n>> \in P /\ z = [by |-> z.by, n |-> z.n]
      BY DEF Lines
    <3> QED BY <3>1
  <2> HIDE DEF g, P
  <2> QED BY <2>1, <2>2, <2>3 DEF Bijection, Injection, Surjection, IsInjective
<1>4. IsFiniteSet(Lines) /\ Cardinality(Lines) = Cardinality(P)
  BY <1>2, <1>3, FS_Bijection DEF ExistsBijection
<1>5. Cardinality(Loggers) \in Nat
  BY FS_CardinalityType
<1> QED BY <1>2, <1>4, <1>5 DEF MaxSuffix

-----------------------------------------------------------------------------
(* The files, proved. *)

FileTypeOK ==
  /\ count \in 0 .. MaxSuffix /\ today \in 0 .. MonthDays - 1
  /\ name \in Files \cup {Closed} /\ disk \in Disks /\ date \in 0 .. MaxDate

FileInv == FileTypeOK /\ OpenFile /\ FilesInOrder /\ CountFits /\ FilesShort

LEMMA LoggedType ==
  ASSUME disk \in Disks
  PROVE  Logged \in Seq(Items) /\ Len(Logged) \in Nat
BY DaysType, LoggedIs, LenProperties

\* The line in hand is in no file yet, and there is a suffix left to count it by.
LEMMA HandNew ==
  ASSUME RingInv, TakenInOrder, Pushed, FileInv, wpc = "write", single_log # End
  PROVE  /\ single_log \in Lines /\ single_log \notin Written
         /\ IsFiniteSet(Written) /\ count + 1 <= MaxSuffix
         /\ Cardinality(Written \cup {single_log}) = Cardinality(Written) + 1
         /\ Cardinality(Written) \in Nat
<1>1. /\ Logged \in Seq(Items) /\ single_log \in Items /\ accepted \in Seq(Items)
      /\ taken \in Seq(Items) /\ taken = Logged \o <<single_log>>
  BY LoggedType DEF FileInv, FileTypeOK, FilesInOrder, InHand, RingInv, QueueTypeOK
<1>2. PICK n \in Nat : n = Len(Logged)
  BY LoggedType DEF FileInv, FileTypeOK
<1>3. /\ Len(taken) = n + 1 /\ taken[n + 1] = single_log
      /\ \A i \in 1 .. n : taken[i] = Logged[i]
  <2>1. taken = Append(Logged, single_log)
    BY <1>1, AppendIsConcat
  <2> QED BY <1>1, <1>2, <2>1, AppendProperties
<1>4. Ring \in Seq(Items)
  BY RingIsSeq DEF RingInv, QueueTypeOK, Ring
<1>5. /\ Len(accepted) \in Nat /\ n + 1 <= Len(accepted)
      /\ \A i \in 1 .. n + 1 : accepted[i] = taken[i]
  BY <1>1, <1>3, <1>4, ConcatProperties, LenProperties DEF TakenInOrder
<1>6. single_log \in Lines
  <2>1. n + 1 \in 1 .. Len(accepted) /\ accepted[n + 1] = single_log
    BY <1>3, <1>5
  <2> QED BY <2>1 DEF Once, Pushed
<1>7. single_log \notin Written
  <2> SUFFICES ASSUME NEW i \in 1 .. n, Logged[i] = single_log PROVE FALSE
    BY <1>2 DEF Written
  <2>1. /\ i \in 1 .. Len(accepted) /\ n + 1 \in 1 .. Len(accepted)
        /\ accepted[i] = accepted[n + 1] /\ i # n + 1
    BY <1>3, <1>5
  <2> QED BY <2>1 DEF Once, Pushed
<1>8. /\ IsFiniteSet(Written) /\ Cardinality(Written) \in Nat
      /\ IsFiniteSet(Lines) /\ Cardinality(Lines) = MaxSuffix /\ MaxSuffix \in Nat
  BY LinesCount, SuffixNat, FS_Subset, FS_CardinalityType DEF FileInv, CountFits
<1>9. Cardinality(Written \cup {single_log}) = Cardinality(Written) + 1
  BY <1>7, <1>8, FS_AddElement
<1>10. Cardinality(Written \cup {single_log}) <= MaxSuffix
  <2>1. Written \cup {single_log} \in SUBSET Lines
    BY <1>6 DEF FileInv, CountFits
  <2> QED BY <1>8, <2>1, FS_Subset
<1>11. count \in Nat /\ count <= Cardinality(Written)
  BY <1>8 DEF FileInv, FileTypeOK, CountFits
<1> QED BY <1>6, <1>7, <1>8, <1>9, <1>10, <1>11

LEMMA LineWritten ==
  ASSUME RingInv, TakenInOrder, Pushed, FileInv, WriteLine
  PROVE  FileInv'
<1> DEFINE x == [line |-> single_log, on |-> date]
<1>1. /\ wpc = "write" /\ single_log # End /\ wpc' = "lock"
      /\ count' = Count /\ today' = Mday(date) /\ name' = Name
      /\ disk' = [disk EXCEPT ![Name] = Append(@, x)]
      /\ UNCHANGED <<date, taken, single_log>>
  BY DEF WriteLine
<1>2. /\ disk \in Disks /\ date \in 0 .. MaxDate /\ count \in 0 .. MaxSuffix
      /\ MaxSuffix \in Nat /\ single_log \in Items /\ x \in Entries
  BY SuffixNat DEF FileInv, FileTypeOK, RingInv, QueueTypeOK, Entries
<1>3. name \in Files /\ OpenFile /\ name # Closed
  BY <1>1, ClosedNoFile DEF FileInv, FileTypeOK, OpenFile
<1>4. count + 1 <= MaxSuffix
  BY <1>1, HandNew
<1>5. /\ Name \in Files /\ Count \in 0 .. MaxSuffix
      /\ Name[1] <= date /\ Mday(date) = Mday(Name[1])
      /\ Name[2] <= Count \div SplitLines
      /\ \/ Name = name /\ Count % SplitLines = (count % SplitLines) + 1
         \/ After(Name, name)
  BY <1>2, <1>3, <1>4, NextFile
<1>6. \A h \in Files : After(h, Name) => disk[h] = <<>>
  <2> SUFFICES ASSUME NEW h \in Files, After(h, Name) PROVE disk[h] = <<>>
    OBVIOUS
  <2>1. CASE Name = name
    BY <1>3, <2>1 DEF OpenFile
  <2>2. CASE After(Name, name)
    <3>1. After(h, name)
      BY <1>3, <1>5, <2>2, FileParts DEF After
    <3> QED BY <1>3, <3>1 DEF OpenFile
  <2> QED BY <1>5, <2>1, <2>2
<1> HIDE DEF x
<1>7. disk' \in Disks
  <2>1. disk[Name] \in Seq(Entries)
    BY <1>2, <1>5 DEF Disks
  <2>2. Append(disk[Name], x) \in Seq(Entries)
    BY <1>2, <2>1, AppendProperties
  <2> QED BY <1>1, <1>2, <1>5, <2>2 DEF Disks
<1>8. /\ Len(disk'[Name]) = Len(disk[Name]) + 1 /\ Len(disk[Name]) \in Nat
      /\ \A h \in Files : h # Name => disk'[h] = disk[h]
  <2>1. disk[Name] \in Seq(Entries)
    BY <1>2, <1>5 DEF Disks
  <2>2. disk'[Name] = Append(disk[Name], x)
    BY <1>1, <1>2, <1>5 DEF Disks
  <2> QED BY <1>1, <1>2, <2>1, <2>2, AppendProperties, LenProperties DEF Disks
<1>9. Len(disk'[Name]) <= (Count % SplitLines) + 1 /\ Len(disk'[Name]) <= SplitLines
  <2>1. /\ SplitLines \in Nat \ {0} /\ count \in Nat /\ Count \in Nat
    BY <1>2, <1>5, SplitLinesAssumption
  <2>2. PICK r \in Nat, s \in 0 .. SplitLines - 1 :
          r = count % SplitLines /\ s = Count % SplitLines
    <3>1. count % SplitLines \in 0 .. SplitLines - 1
      BY <2>1, DivNat
    <3>2. Count % SplitLines \in 0 .. SplitLines - 1
      BY <2>1, DivNat
    <3>3. \A i \in 0 .. SplitLines - 1 : i \in Nat
      BY <2>1
    <3> HIDE DEF Count
    <3> QED BY <3>1, <3>2, <3>3
  <2>3. PICK m \in Nat : m = Len(disk[Name])
    BY <1>8
  <2>4. m + 1 <= s + 1
    <3>1. CASE Name = name /\ Count % SplitLines = (count % SplitLines) + 1
      <4>1. m <= r + 1
        BY <1>3, <2>2, <2>3, <3>1 DEF OpenFile
      <4>2. s = r + 1
        BY <2>2, <3>1
      <4> QED BY <4>1, <4>2
    <3>2. CASE After(Name, name)
      <4>1. disk[Name] = <<>>
        BY <1>3, <1>5, <3>2 DEF OpenFile
      <4>2. m = 0
        BY <2>3, <4>1, EmptySeq
      <4> QED BY <4>2
    <3> QED BY <1>5, <3>1, <3>2
  <2>5. m + 1 <= SplitLines
    BY <2>1, <2>4
  <2> QED BY <1>8, <2>2, <2>3, <2>4, <2>5
<1>10. FileTypeOK'
  <2>1. Mday(date) \in 0 .. MonthDays - 1
    BY <1>2, MonthDaysAssumption DEF Mday
  <2> QED BY <1>1, <1>2, <1>5, <1>7, <2>1 DEF FileTypeOK
<1>11. OpenFile'
  <2>1. Name # Closed
    BY <1>5, ClosedNoFile
  <2>2. ASSUME NEW h \in Files, After(h, Name) PROVE disk'[h] = <<>>
    <3>1. h # Name
      BY <1>5, <2>2, FileParts DEF After
    <3> QED BY <1>6, <1>8, <2>2, <3>1
  <2>3. \A h \in Files : After(h, Name) => disk'[h] = <<>>
    BY <2>2
  <2> QED BY <1>1, <1>5, <1>9, <2>1, <2>3 DEF OpenFile, After
<1>12. FilesShort'
  BY <1>5, <1>8, <1>9 DEF FilesShort, FileInv
<1>13. Logged' = Append(Logged, single_log)
  <2>1. Logged' = FlattenSeq(Days(disk'))
    BY DEF Logged, Days, Day, LinesOf, LinesIn
  <2>2. Added(disk, disk', Name, x)
    BY <1>1 DEF Added
  <2>3. PICK dl \in Disks : dl = disk'
    BY <1>7
  <2>4. FlattenSeq(Days(dl)) = Append(FlattenSeq(Days(disk)), x.line)
    BY <1>2, <1>5, <1>6, <2>2, <2>3, LogGrows
  <2>5. x.line = single_log
    BY DEF x
  <2> QED BY <2>1, <2>3, <2>4, <2>5, LoggedIs
<1>14. FilesInOrder'
  <2>1. taken = Logged \o <<single_log>> /\ Logged \in Seq(Items)
    BY <1>1, <1>2, LoggedType DEF FileInv, FilesInOrder, InHand
  <2>2. taken = Append(Logged, single_log)
    BY <1>2, <2>1, AppendIsConcat
  <2>3. Append(Logged, single_log) \in Seq(Items)
    BY <1>2, <2>1, AppendProperties
  <2>4. InHand' = <<>>
    BY <1>1 DEF InHand
  <2>5. taken' = Logged' \o <<>>
    BY <1>1, <1>13, <2>2, <2>3, ConcatEmptySeq
  <2> QED BY <2>4, <2>5 DEF FilesInOrder
<1>15. CountFits'
  <2>1. Written' = Written \cup {single_log}
    <3>1. PICK q \in Seq(Items) : q = Logged
      BY <1>2, LoggedType
    <3>2. PICK n \in Nat : n = Len(q)
      BY <3>1, LenProperties
    <3>3. PICK r : r = Append(q, single_log)
      OBVIOUS
    <3>4. /\ Len(r) = n + 1 /\ r[n + 1] = single_log
          /\ \A i \in 1 .. n : r[i] = q[i]
      BY <1>2, <3>1, <3>2, <3>3, AppendProperties
    <3>5. {r[i] : i \in 1 .. n + 1} = {q[i] : i \in 1 .. n} \cup {r[n + 1]}
      <4>1. 1 .. n + 1 = (1 .. n) \cup {n + 1}
        BY <3>2
      <4> QED BY <3>4, <4>1
    <3>6. Written = {q[i] : i \in 1 .. n}
      BY <3>1, <3>2 DEF Written
    <3>7. Logged' = r
      BY <1>13, <3>1, <3>3
    <3>8. Written' = {r[i] : i \in 1 .. n + 1}
      BY <3>4, <3>7 DEF Written
    <3> QED BY <3>4, <3>5, <3>6, <3>8
  <2>2. Written' \subseteq Lines
    BY <1>1, <2>1, HandNew DEF FileInv, CountFits
  <2>3. PICK m \in Nat : m = Cardinality(Written)
    BY <1>1, HandNew
  <2>4. Cardinality(Written') = m + 1
    BY <1>1, <2>1, <2>3, HandNew
  <2>5. Count <= count + 1 /\ count \in Nat
    BY <1>2 DEF Count
  <2>6. count <= m
    BY <2>3 DEF FileInv, CountFits
  <2>7. Count <= m + 1
    BY <1>5, <2>5, <2>6
  <2> QED BY <1>1, <2>2, <2>4, <2>7 DEF CountFits
<1> QED BY <1>10, <1>11, <1>12, <1>14, <1>15 DEF FileInv

\* A step that touches neither the files nor the clock, and moves the writer
\* without putting a line down.
LEMMA FilesStay ==
  ASSUME FileInv, UNCHANGED <<count, today, name, disk, date>>,
         wpc = "exited" => wpc' = "exited",
         InHand' = InHand /\ taken' = taken
  PROVE  FileInv'
<1>1. FileTypeOK' /\ OpenFile'
  BY DEF FileInv, FileTypeOK, OpenFile
<1>2. Logged' = Logged
  BY DEF Logged, LinesOf
<1>3. FilesInOrder' /\ CountFits' /\ FilesShort'
  BY <1>2 DEF FileInv, FilesInOrder, CountFits, Written, FilesShort
<1> QED BY <1>1, <1>3 DEF FileInv

LEMMA FilesInitial == Init => FileInv
<1> SUFFICES ASSUME Init PROVE FileInv
  OBVIOUS
<1>1. /\ date = 0 /\ count = 0 /\ today = Mday(0) /\ name = <<0, 0>> /\ wpc = "lock"
      /\ disk = [f \in Files |-> <<>>] /\ taken = <<>>
  BY DEF Init
<1>2. /\ MaxSuffix \in Nat /\ SplitLines \in Nat \ {0} /\ MonthDays \in Nat \ {0}
      /\ MaxDate \in Nat
  BY SuffixNat, SplitLinesAssumption, MonthDaysAssumption
<1>3. disk \in Disks
  <2>1. <<>> \in Seq(Entries)
    BY EmptySeq
  <2> QED BY <1>1, <2>1 DEF Disks
<1>4. name \in Files /\ \A f \in Files : disk[f] = <<>>
  BY <1>1, <1>2 DEF Files
<1>5. FileTypeOK
  <2>1. Mday(0) \in 0 .. MonthDays - 1
    BY <1>2 DEF Mday
  <2> QED BY <1>1, <1>2, <1>3, <1>4, <2>1 DEF FileTypeOK
<1>6. OpenFile
  <2>1. 0 \div SplitLines = 0 /\ 0 % SplitLines = 0
    BY <1>2, ZeroDiv
  <2>2. Len(disk[name]) = 0
    BY <1>4, EmptySeq
  <2> QED BY <1>1, <1>4, <2>1, <2>2, ClosedNoFile DEF OpenFile
<1>7. Logged = <<>>
  BY <1>3, <1>4, LoggedEmpty, LoggedIs
<1>8. FilesInOrder
  BY <1>1, <1>7, EmptySeq, ConcatEmptySeq DEF FilesInOrder, InHand
<1>9. CountFits
  <2>1. Written = {}
    BY <1>7, EmptySeq DEF Written
  <2>2. Cardinality(Written) = 0
    BY <2>1, FS_EmptySet
  <2> QED BY <1>1, <2>1, <2>2 DEF CountFits
<1>10. FilesShort
  BY <1>2, <1>4, EmptySeq DEF FilesShort
<1> QED BY <1>5, <1>6, <1>8, <1>9, <1>10 DEF FileInv

LEMMA FilesNext ==
  ASSUME RingInv, TakenInOrder, Pushed, FileInv, [Next]_vars
  PROVE  FileInv'
<1>1. CASE \E p \in Pushers : Push(p) \/ PushSpurious(p)
  <2>1. PICK p \in Pushers : PushPut(p) \/ PushWait(p) \/ PushSpurious(p) \/ PushNotify(p)
    BY <1>1 DEF Push
  <2>2. /\ UNCHANGED <<count, today, name, disk, date, taken, single_log>>
        /\ wpc' = wpc \/ (wpc = "wait" /\ wpc' = "lock")
    BY <2>1 DEF PushPut, PushWait, PushSpurious, PushNotify, fileVars
  <2>3. InHand' = InHand
    BY <2>2 DEF InHand
  <2> QED BY <2>2, <2>3, FilesStay
<1>2. CASE PopWait \/ PopSpurious \/ PopNotify \/ WriterEnds
  <2>1. /\ UNCHANGED <<count, today, name, disk, date, taken, single_log>>
        /\ \/ wpc \in {"lock", "wait"} /\ wpc' \in {"lock", "wait"}
           \/ wpc \in {"taken", "write"} /\ wpc' \in {"write", "exited"}
    BY <1>2 DEF PopWait, PopSpurious, PopNotify, WriterEnds, fileVars
  <2>2. InHand' = InHand
    BY <2>1 DEF InHand
  <2> QED BY <2>1, <2>2, FilesStay
<1>3. CASE PopTake
  <2>1. /\ wpc = "lock" /\ wpc' = "taken" /\ single_log' = array[front]
        /\ taken' = Append(taken, array[front])
        /\ UNCHANGED <<count, today, name, disk, date>>
    BY <1>3 DEF PopTake, fileVars
  <2>2. FileTypeOK' /\ OpenFile'
    BY <2>1 DEF FileInv, FileTypeOK, OpenFile
  <2>3. Logged' = Logged /\ Logged \in Seq(Items)
    BY <2>1, LoggedType DEF Logged, LinesOf, FileInv, FileTypeOK
  <2>4. CountFits' /\ FilesShort'
    BY <2>1, <2>3 DEF FileInv, CountFits, Written, FilesShort
  <2>5. taken = Logged
    BY <2>1, <2>3, ConcatEmptySeq DEF FileInv, FilesInOrder, InHand
  <2>6. array[front] \in Items
    BY DEF RingInv, QueueTypeOK
  <2>7. taken' = Logged \o <<array[front]>>
    BY <2>1, <2>3, <2>5, <2>6, AppendIsConcat
  <2>8. InHand' = <<array[front]>>
    BY <2>1 DEF InHand
  <2>9. FilesInOrder'
    BY <2>3, <2>7, <2>8 DEF FilesInOrder
  <2> QED BY <2>2, <2>4, <2>9 DEF FileInv
<1>4. CASE WriteLine
  BY <1>4, LineWritten
<1>5. CASE Close \/ Midnight
  <2>1. /\ UNCHANGED <<count, today, disk, wpc, taken, single_log>>
        /\ \/ name' = Closed /\ wpc = "exited" /\ UNCHANGED date
           \/ name' = name /\ date < MaxDate /\ date' = date + 1
    BY <1>5 DEF Close, Midnight, fileVars
  <2>2. FileTypeOK'
    BY <2>1 DEF FileInv, FileTypeOK
  <2>3. Logged' = Logged
    BY <2>1 DEF Logged, LinesOf
  <2>4. FilesInOrder' /\ CountFits' /\ FilesShort'
    BY <2>1, <2>3 DEF FileInv, FilesInOrder, CountFits, Written, FilesShort, InHand
  <2>5. OpenFile'
    <3>1. CASE name' = Closed /\ wpc = "exited"
      BY <2>1, <3>1 DEF OpenFile
    <3>2. CASE name = Closed
      BY <2>1, <3>2 DEF OpenFile, FileInv
    <3>3. CASE name # Closed /\ name' = name /\ date' = date + 1
      <4>1. name \in Files /\ name[1] <= date /\ name[1] \in Nat /\ date \in Nat
        BY <3>3, FileParts DEF FileInv, FileTypeOK, OpenFile
      <4>2. name[1] <= date'
        BY <3>3, <4>1
      <4> QED BY <2>1, <3>3, <4>2 DEF OpenFile, FileInv
    <3> QED BY <2>1, <3>1, <3>2, <3>3
  <2> QED BY <2>2, <2>4, <2>5 DEF FileInv
<1>6. CASE UNCHANGED vars
  <2>1. InHand' = InHand
    BY <1>6 DEF vars, InHand
  <2> QED BY <1>6, <2>1, FilesStay DEF vars, fileVars
<1> QED BY <1>1, <1>2, <1>3, <1>4, <1>5, <1>6 DEF Next, Writer

LEMMA FilesHold == Safe => []FileInv
BY FilesInitial, FilesNext, RingInductive, OrderKept, PushedHolds, PTL DEF Safe

\* The ring, the writer and the files are always what their types say: m_count
\* and the suffix of the open file stay within the number of the lines.
THEOREM TypeCorrect == Safe => []TypeOK
<1>1. RingInv /\ FileInv => TypeOK
  BY DEF RingInv, FileInv, FileTypeOK, TypeOK, Disks, Entries
<1> QED BY <1>1, RingInductive, FilesHold, PTL

\* write_single_log puts every line it takes behind all that it wrote before: the
\* files, read in the order of their names, are what pop gave it, in order, but
\* for the item in its hand.  switch_log never opens a file that was left.
THEOREM FilesInOrderHolds == Safe => []FilesInOrder
<1>1. FileInv => FilesInOrder
  BY DEF FileInv
<1> QED BY <1>1, FilesHold, PTL

\* No file of the log ever has more than m_split_lines lines.
THEOREM FilesNeverLong == Safe => []FilesShort
<1>1. FileInv => FilesShort
  BY DEF FileInv
<1> QED BY <1>1, FilesHold, PTL

\* When ~Log has closed the file, every line any thread pushed is in a file, in the
\* order of the pushes.
THEOREM NothingLost == Safe => []NothingLostAtExit
<1>1. TakenInOrder /\ Pushed /\ FileInv => NothingLostAtExit
  <2> SUFFICES ASSUME TakenInOrder, Pushed, FileInv, name = Closed
               PROVE  accepted = Append(Logged, End)
    BY DEF NothingLostAtExit
  <2>1. wpc = "exited"
    BY DEF FileInv, OpenFile
  <2>2. single_log = End /\ size = 0
    BY <2>1 DEF Pushed, WriterEnded
  <2>3. Logged \in Seq(Items) /\ End \in Items
    BY LoggedType, EndParts DEF FileInv, FileTypeOK
  <2>4. taken = Logged \o <<End>>
    BY <2>1, <2>2 DEF FileInv, FilesInOrder, InHand
  <2>5. taken = Append(Logged, End)
    BY <2>3, <2>4, AppendIsConcat
  <2>6. taken \in Seq(Items)
    BY <2>3, <2>5, AppendProperties
  <2>7. Ring = <<>>
    BY <2>2 DEF Ring, RingOf
  <2>8. accepted = taken
    BY <2>6, <2>7, ConcatEmptySeq DEF TakenInOrder
  <2> QED BY <2>5, <2>8
<1> QED BY <1>1, OrderKept, PushedHolds, FilesHold, PTL

LEMMA DayIsDate ==
  ASSUME NEW M \in Nat \ {0}, NEW d \in Nat, d < M
  PROVE  d % M = d
OBVIOUS

\* As long as the log is not left alone for the days after which tm_mday is the
\* same again, a line is in a file of the day on which it was written.
LEMMA DaysKept ==
  ASSUME MaxDate < MonthDays
  PROVE  Safe => []FilesOfDay
<1>1. Init => FilesOfDay
  BY EmptySeq DEF Init, FilesOfDay
<1>2. RingInv /\ TakenInOrder /\ Pushed /\ FileInv /\ FilesOfDay /\ [Next]_vars
        => FilesOfDay'
  <2> SUFFICES ASSUME RingInv, TakenInOrder, Pushed, FileInv, FilesOfDay, [Next]_vars
               PROVE  FilesOfDay'
    OBVIOUS
  <2>1. CASE UNCHANGED disk
    BY <2>1 DEF FilesOfDay
  <2>2. CASE WriteLine
    <3> DEFINE x == [line |-> single_log, on |-> date]
    <3>1. /\ wpc = "write" /\ single_log # End
          /\ disk' = [disk EXCEPT ![Name] = Append(@, x)]
      BY <2>2 DEF WriteLine
    <3>2. /\ disk \in Disks /\ date \in 0 .. MaxDate /\ count \in 0 .. MaxSuffix
          /\ single_log \in Items /\ x \in Entries
      BY DEF FileInv, FileTypeOK, RingInv, QueueTypeOK, Entries
    <3>3. name \in Files /\ OpenFile /\ name # Closed
      BY <3>1, ClosedNoFile DEF FileInv, FileTypeOK, OpenFile
    <3>4. count + 1 <= MaxSuffix
      BY <3>1, HandNew
    <3>5. /\ Name \in Files
          /\ (Name = name /\ today = Mday(date)) \/ Name[1] = date
      BY <3>2, <3>3, <3>4, NextFile
    <3>6. Name[1] = date
      <4>1. CASE Name = name /\ today = Mday(date)
        <5>1. Mday(name[1]) = Mday(date)
          BY <3>3, <4>1 DEF OpenFile
        <5>2. /\ MonthDays \in Nat \ {0} /\ MaxDate \in Nat
              /\ name[1] \in Nat /\ name[1] < MonthDays
              /\ date \in Nat /\ date < MonthDays
          BY <3>2, <3>3, FileParts, MonthDaysAssumption
        <5>3. name[1] % MonthDays = name[1] /\ date % MonthDays = date
          BY <5>2, DayIsDate
        <5> QED BY <4>1, <5>1, <5>3 DEF Mday
      <4> QED BY <3>5, <4>1
    <3> HIDE DEF x
    <3>7. ASSUME NEW f \in Files, NEW i \in 1 .. Len(disk'[f])
          PROVE  disk'[f][i].on = f[1]
      <4>1. CASE f # Name
        <5>1. disk'[f] = disk[f]
          BY <3>1, <3>2, <4>1 DEF Disks
        <5> QED BY <3>7, <5>1 DEF FilesOfDay
      <4>2. CASE f = Name
        <5>1. disk[f] \in Seq(Entries) /\ disk'[f] = Append(disk[f], x)
          BY <3>1, <3>2, <4>2 DEF Disks
        <5>2. PICK n \in Nat : n = Len(disk[f])
          BY <5>1, LenProperties
        <5>3. /\ Len(disk'[f]) = n + 1 /\ disk'[f][n + 1] = x
              /\ \A j \in 1 .. n : disk'[f][j] = disk[f][j]
          BY <3>2, <5>1, <5>2, AppendProperties
        <5>4. i = n + 1 \/ i \in 1 .. n
          BY <3>7, <5>3
        <5>5. CASE i = n + 1
          BY <3>6, <4>2, <5>3, <5>5 DEF x
        <5>6. CASE i \in 1 .. n
          BY <5>2, <5>3, <5>6 DEF FilesOfDay
        <5> QED BY <5>4, <5>5, <5>6
      <4> QED BY <4>1, <4>2
    <3> QED BY <3>7 DEF FilesOfDay
  <2> QED BY <2>1, <2>2 DEF Next, Push, PushPut, PushWait, PushNotify, PushSpurious,
             Writer, PopWait, PopTake, PopNotify, WriterEnds, PopSpurious, Close,
             Midnight, vars, fileVars
<1> QED BY <1>1, <1>2, RingInductive, OrderKept, PushedHolds, FilesHold, PTL DEF Safe

\* switch_log changes the file in time, by its lines and by its day, when no two
\* of the days on which the program runs have the same tm_mday: it compares the day
\* of the month alone.
THEOREM FilesSplitHolds ==
  ASSUME MaxDate < MonthDays
  PROVE  Safe => []FilesSplit
<1>1. FileInv /\ FilesOfDay => FilesSplit
  <2> SUFFICES ASSUME FileInv, FilesOfDay, NEW f \in Files
               PROVE  /\ Len(disk[f]) <= SplitLines
                      /\ \A i \in DOMAIN disk[f] : disk[f][i].on = f[1]
    BY DEF FilesSplit
  <2>1. DOMAIN disk[f] = 1 .. Len(disk[f])
    <3>1. disk[f] \in Seq(Entries)
      BY DEF FileInv, FileTypeOK, Disks
    <3> QED BY <3>1, LenProperties
  <2> QED BY <2>1 DEF FileInv, FilesShort, FilesOfDay
<1> QED BY <1>1, FilesHold, DaysKept, PTL
=============================================================================
