------------------------ MODULE WebSocketConnProofs ------------------------
(***************************************************************************)
(* One WebSocket connection, for any finite number of workers, any number  *)
(* of frames and any number of messages.                                   *)
(*                                                                         *)
(* The bytes on the wire followed by write_buf_ are those of all frames    *)
(* made so far, except while the holder of write_mtx_ has sent some and    *)
(* not erased them yet (Stream); nobody appends meanwhile, since that      *)
(* takes write_mtx_ too (Locked).  That the frames are no more than the    *)
(* messages begun is a count of the workers about to append (Counted).     *)
(*                                                                         *)
(* The last part is about the comment in broadcastRoomLocked that a        *)
(* connection whose buffer is not empty is being written to, or about to   *)
(* be.  It is proved for connections with which no two workers were busy   *)
(* at a time.                                                              *)
(***************************************************************************)
EXTENDS WebSocketConn, SequenceTheorems, FiniteSetTheorems, TLAPS

USE WorkersAssumption, MaxAssumption

\* The workers that are about to append a message.
Appending == {w \in Workers : work[w].at \in {"room", "text", "put"}}

\* Each message that was begun is appended once at most.
Counted == made + Cardinality(Appending) <= begun

\* write_mtx_ is held while bytes are sent and erased.
Locked == \A w \in Workers : work[w].at \in {"send", "erase"} => writeMtx = w

\* write_buf_ goes on where the wire ends, but for the first k bytes, which have
\* been sent and not erased yet.
Follows(k) ==
  /\ k <= Len(wire) /\ k <= Len(writeBuf)
  /\ Len(wire) + Len(writeBuf) = 2 * made + k
  /\ \A i \in 1 .. Len(writeBuf) : writeBuf[i] = Len(wire) - k + i

Stream ==
  /\ \A w \in Workers : work[w].at = "erase" => Follows(work[w].sent)
  /\ (\A w \in Workers : work[w].at # "erase") => Follows(0)

\* What a worker may have in hand when n bytes were made.
Works(n) == [at : Places, act : {"Read", "Write", "Close"},
             chunk : Seq(1 .. MaxFrames), sent : 0 .. n,
             wasEmpty : BOOLEAN, back : {"idle", "parse"}]

-----------------------------------------------------------------------------
(* Types. *)

\* A sequence over a set is one over a larger set.
LEMMA SeqGrows ==
  ASSUME NEW S, NEW T, S \subseteq T, NEW q \in Seq(S)
  PROVE  q \in Seq(T)
<1>1. \A i \in 1 .. Len(q) : q[i] \in T
  BY ElementOfSeq
<1> QED BY <1>1, SeqDef, LenProperties

\* A part of a sequence is a sequence over the same set.
LEMMA PartType ==
  ASSUME NEW S, NEW q \in Seq(S), NEW m \in 1 .. Len(q) + 1, NEW n \in 0 .. Len(q)
  PROVE  SubSeq(q, m, n) \in Seq(S)
  BY SubSeqProperties

\* What a worker has in hand keeps its type when bytes are appended.
LEMMA WorksGrow ==
  ASSUME NEW m \in Nat, NEW n \in Nat, m <= n
  PROVE  Works(m) \subseteq Works(n)
<1>1. 0 .. m \subseteq 0 .. n
  OBVIOUS
<1> HIDE DEF Places
<1> QED BY <1>1 DEF Works

\* The workers that are about to append after a step of one of them.
LEMMA AppendingStep ==
  ASSUME TypeOK, NEW w \in Workers, NEW v, made' \in Nat, made <= made',
         v \in Works(2 * made'), work' = [work EXCEPT ![w] = v]
  PROVE  /\ work' \in [Workers -> Works(2 * made')]
         /\ Cardinality(Appending) \in Nat /\ Cardinality(Appending') \in Nat
         /\ Appending' = IF v.at \in {"room", "text", "put"} THEN Appending \cup {w}
                         ELSE Appending \ {w}
         /\ Cardinality(Appending') =
              Cardinality(Appending)
              + (IF v.at \in {"room", "text", "put"} THEN 1 ELSE 0)
              - (IF At(w, "room") \/ At(w, "text") \/ At(w, "put") THEN 1 ELSE 0)
<1>1. IsFiniteSet(Appending)
  BY FS_Subset DEF Appending
<1>2. Appending' = IF v.at \in {"room", "text", "put"} THEN Appending \cup {w}
                   ELSE Appending \ {w}
  BY DEF Appending, TypeOK
<1>3. w \in Appending <=> At(w, "room") \/ At(w, "text") \/ At(w, "put")
  BY DEF Appending, At
<1>4. Cardinality(Appending) \in Nat
  BY <1>1, FS_CardinalityType
<1>5. Cardinality(Appending \cup {w}) =
        IF w \in Appending THEN Cardinality(Appending) ELSE Cardinality(Appending) + 1
  BY <1>1, FS_AddElement
<1>6. Cardinality(Appending \ {w}) =
        IF w \in Appending THEN Cardinality(Appending) - 1 ELSE Cardinality(Appending)
  BY <1>1, FS_RemoveElement
<1>7. work' \in [Workers -> Works(2 * made')]
  <2>1. work \in [Workers -> Works(2 * made)] /\ made \in Nat
    BY DEF TypeOK, Works
  <2> QED BY <2>1, WorksGrow
<1>8. IsFiniteSet(Appending') /\ Cardinality(Appending') \in Nat
  <2>1. IsFiniteSet(Appending')
    BY FS_Subset DEF Appending
  <2> QED BY <2>1, FS_CardinalityType
<1>9. At(w, "room") \/ At(w, "text") \/ At(w, "put") <=> w \in Appending
  BY <1>3
<1> QED BY <1>2, <1>4, <1>5, <1>6, <1>7, <1>8, <1>9

\* The fields of what a worker has in hand.
LEMMA WorkTypes ==
  ASSUME TypeOK, NEW w \in Workers
  PROVE  /\ work[w] \in Works(2 * made)
         /\ work[w].at \in Places /\ work[w].act \in {"Read", "Write", "Close"}
         /\ work[w].chunk \in Seq(1 .. MaxFrames) /\ work[w].sent \in 0 .. 2 * made
         /\ work[w].wasEmpty \in BOOLEAN /\ work[w].back \in {"idle", "parse"}
  BY DEF TypeOK, Works

\* What a worker has in hand after it has gone on, returned or taken something.
LEMMA WorkChanges ==
  ASSUME TypeOK, NEW w \in Workers
  PROVE  /\ \A p \in Places : [work[w] EXCEPT !.at = p] \in Works(2 * made)
         /\ \A p \in Places, q \in {"idle", "parse"} :
              [work[w] EXCEPT !.at = p, !.back = q] \in Works(2 * made)
         /\ \A p \in Places, b \in BOOLEAN :
              [work[w] EXCEPT !.at = p, !.wasEmpty = b] \in Works(2 * made)
         /\ \A p \in Places, n \in 0 .. 2 * made :
              [work[w] EXCEPT !.at = p, !.sent = n] \in Works(2 * made)
         /\ \A p \in Places, q \in Seq(1 .. MaxFrames) :
              [work[w] EXCEPT !.at = p, !.chunk = q] \in Works(2 * made)
         /\ \A p \in Places, a \in {"Read", "Write", "Close"} :
              [work[w] EXCEPT !.at = p, !.act = a] \in Works(2 * made)
         /\ \A p \in Places, b \in BOOLEAN, q \in {"idle", "parse"} :
              [work[w] EXCEPT !.at = p, !.wasEmpty = b, !.back = q]
                \in Works(2 * made)
         /\ Idle \in Works(2 * made)
<1>1. work[w] \in Works(2 * made) /\ 0 \in 0 .. 2 * made
  BY WorkTypes DEF TypeOK
<1>2. <<>> \in Seq(1 .. MaxFrames) /\ "idle" \in Places
  BY DEF Places
<1> HIDE DEF Places
<1> QED BY <1>1, <1>2 DEF Works, Idle

\* A step of a worker that neither begins nor appends a message.
LEMMA WorkStep ==
  ASSUME TypeOK, Counted, NEW w \in Workers, NEW v \in Works(2 * made),
         made' = made, begun' = begun, work' = [work EXCEPT ![w] = v],
         v.at \in {"room", "text", "put"} => At(w, "room") \/ At(w, "text") \/ At(w, "put")
  PROVE  work' \in [Workers -> Works(2 * made)] /\ Counted'
<1>1. v \in Works(2 * made') /\ made' \in Nat /\ made <= made' /\ begun \in Nat
  BY DEF TypeOK
<1>2. /\ work' \in [Workers -> Works(2 * made')]
      /\ Cardinality(Appending) \in Nat /\ Cardinality(Appending') \in Nat
      /\ Cardinality(Appending') =
           Cardinality(Appending)
           + (IF v.at \in {"room", "text", "put"} THEN 1 ELSE 0)
           - (IF At(w, "room") \/ At(w, "text") \/ At(w, "put") THEN 1 ELSE 0)
  BY <1>1, AppendingStep
<1>3. Cardinality(Appending') <= Cardinality(Appending)
  BY <1>2
<1> QED BY <1>1, <1>2, <1>3 DEF Counted

\* The same, where a worker goes on, or is about to post an action.
LEMMA GoStep ==
  ASSUME TypeOK, Counted, NEW w \in Workers, made' = made, begun' = begun,
         \/ \E p \in Places :
              /\ Go(w, p)
              /\ p \in {"room", "text", "put"} => At(w, "room") \/ At(w, "text") \/ At(w, "put")
         \/ \E a \in {"Read", "Write", "Close"} : Return(w, a)
  PROVE  work' \in [Workers -> Works(2 * made)] /\ Counted'
<1>1. work \in [Workers -> Works(2 * made)]
  BY DEF TypeOK, Works
<1>2. ASSUME NEW p \in Places, Go(w, p),
             p \in {"room", "text", "put"} => At(w, "room") \/ At(w, "text") \/ At(w, "put")
      PROVE  work' \in [Workers -> Works(2 * made)] /\ Counted'
  <2> DEFINE v == [work[w] EXCEPT !.at = p]
  <2>1. v \in Works(2 * made)
    BY WorkChanges
  <2>2. v.at = p
    BY <1>1 DEF Works
  <2>3. work' = [work EXCEPT ![w] = v]
    BY <1>1, <1>2 DEF Go
  <2> HIDE DEF v
  <2> QED BY <1>2, <2>1, <2>2, <2>3, WorkStep
<1>3. ASSUME NEW a \in {"Read", "Write", "Close"}, Return(w, a)
      PROVE  work' \in [Workers -> Works(2 * made)] /\ Counted'
  <2> DEFINE v == [work[w] EXCEPT !.at = "post", !.act = a]
  <2>1. v \in Works(2 * made)
    BY WorkChanges DEF Places
  <2>2. v.at = "post"
    BY <1>1 DEF Works
  <2>3. work' = [work EXCEPT ![w] = v]
    BY <1>1, <1>3 DEF Return
  <2> HIDE DEF v
  <2> QED BY <2>1, <2>2, <2>3, WorkStep
<1> QED BY <1>2, <1>3

\* Who holds write_mtx_ and is not about to erase sees whole frames only.
LEMMA NobodyErases ==
  ASSUME Locked, Stream, NEW w \in Workers, ~At(w, "erase"),
         At(w, "send") \/ writeMtx = NoWorker
  PROVE  Follows(0) /\ \A v \in Workers : work[v].at # "erase"
<1>1. \A v \in Workers : work[v].at # "erase"
  BY DEF Locked, At
<1> QED BY <1>1 DEF Stream

\* What appending the two bytes of a frame makes of write_buf_.
LEMMA BytesAdded ==
  ASSUME TypeOK, made' = made + 1, wire' = wire,
         writeBuf' = writeBuf \o <<2 * made + 1, 2 * made + 2>>
  PROVE  /\ writeBuf' \in Seq(1 .. 2 * made') /\ wire' \in Seq(1 .. 2 * made')
         /\ Len(writeBuf') = Len(writeBuf) + 2
         /\ \A i \in 1 .. Len(writeBuf) : writeBuf'[i] = writeBuf[i]
         /\ writeBuf'[Len(writeBuf) + 1] = 2 * made + 1
         /\ writeBuf'[Len(writeBuf) + 2] = 2 * made + 2
<1> DEFINE q == <<2 * made + 1, 2 * made + 2>>
<1>1. made \in Nat /\ 1 .. 2 * made \subseteq 1 .. 2 * made'
  BY DEF TypeOK
<1>2. q \in Seq(1 .. 2 * made') /\ Len(q) = 2
      /\ q[1] = 2 * made + 1 /\ q[2] = 2 * made + 2
  BY <1>1
<1> HIDE DEF q
<1>3. writeBuf \in Seq(1 .. 2 * made') /\ wire \in Seq(1 .. 2 * made')
  <2>1. writeBuf \in Seq(1 .. 2 * made) /\ wire \in Seq(1 .. 2 * made)
    BY DEF TypeOK
  <2> QED BY <1>1, <2>1, SeqGrows
<1>4. Len(writeBuf) \in Nat
  BY <1>3
<1> QED BY <1>2, <1>3, <1>4, ConcatProperties DEF q

\* Types, action by action.  That no more is erased than there is needs Stream.
LEMMA TypeStep ==
  ASSUME TypeOK, Counted, Locked, Stream, [Next]_vars
  PROVE  TypeOK' /\ Counted'
<1>t. /\ inbox \in Seq(1 .. MaxFrames) /\ readBuf \in Seq(1 .. MaxFrames)
      /\ handled \in Seq(1 .. MaxFrames) /\ made \in Nat /\ begun \in Nat
      /\ writeBuf \in Seq(1 .. 2 * made) /\ wire \in Seq(1 .. 2 * made)
      /\ tasks \in Seq({"Read", "Write", "Close"}) /\ jobs \in Seq({"in", "out"})
      /\ work \in [Workers -> Works(2 * made)]
  BY DEF TypeOK, Works
<1>k. work' = work /\ UNCHANGED <<made, begun>> => Counted'
  BY DEF Appending, Counted
<1>c. Cardinality(Appending) \in Nat
  BY FS_Subset, FS_CardinalityType DEF Appending
<1>1. CASE ClientSends
  <2>1. inbox' \in Seq(1 .. MaxFrames) /\ sentIn' \in 0 .. MaxFrames
    <3>1. sentIn + 1 \in 1 .. MaxFrames
      BY <1>1 DEF ClientSends, TypeOK
    <3> QED BY <1>1, <1>t, <3>1, AppendProperties DEF ClientSends
  <2> QED BY <1>1, <1>t, <1>k, <2>1
        DEF ClientSends, TypeOK, Works, inVars, outVars, loopVars, lockVars
<1>2. CASE ClientCloses
  BY <1>2, <1>t, <1>k
     DEF ClientCloses, TypeOK, Works, inVars, outVars, loopVars, lockVars
<1>3. CASE EventIn \/ EventOut
  <2>1. jobs' \in Seq({"in", "out"})
    BY ZenonT(40), <1>3, <1>t, AppendProperties DEF EventIn, EventOut
  <2> QED BY <1>3, <1>t, <1>k, <2>1
        DEF EventIn, EventOut, TypeOK, Works, netVars, inVars, outVars, lockVars
<1>4. CASE EventHup
  <2>1. tasks' \in Seq({"Read", "Write", "Close"})
    BY <1>4, <1>t, AppendProperties DEF EventHup
  <2> QED BY <1>4, <1>t, <1>k, <2>1
        DEF EventHup, TypeOK, Works, netVars, inVars, outVars, lockVars
<1>5. CASE HandleAction
  <2>1. tasks' \in Seq({"Read", "Write", "Close"})
    BY <1>5, <1>t, HeadTailProperties DEF HandleAction
  <2> QED BY <1>5, <1>t, <1>k, <2>1
        DEF HandleAction, TypeOK, Works, netVars, inVars, outVars, lockVars
<1>6. ASSUME NEW w \in Workers, Take(w)
      PROVE  TypeOK' /\ Counted'
  <2>1. jobs' \in Seq({"in", "out"}) /\ crowded' \in BOOLEAN
    BY <1>6, <1>t, HeadTailProperties DEF Take, Begin, TypeOK
  <2>2. UNCHANGED <<netVars, inVars, outVars, closed, loopVars, lockVars>>
    BY <1>6 DEF Take
  <2>3. work' \in [Workers -> Works(2 * made)] /\ Counted'
    BY <1>6, <2>2, GoStep DEF Take, Places, outVars
  <2> QED BY <1>t, <2>1, <2>2, <2>3
        DEF TypeOK, Works, netVars, inVars, outVars, loopVars, lockVars
<1>7. ASSUME NEW w \in Workers, Recv(w)
      PROVE  TypeOK' /\ Counted'
  <2>1. PICK n \in 1 .. Len(inbox) :
          /\ work' = [work EXCEPT ![w].at = "append",
                                  ![w].chunk = SubSeq(inbox, 1, n)]
          /\ inbox' = SubSeq(inbox, n + 1, Len(inbox))
    BY <1>7 DEF Recv
  <2> DEFINE v == [work[w] EXCEPT !.at = "append", !.chunk = SubSeq(inbox, 1, n)]
  <2>2. /\ SubSeq(inbox, 1, n) \in Seq(1 .. MaxFrames)
        /\ SubSeq(inbox, n + 1, Len(inbox)) \in Seq(1 .. MaxFrames)
    <3>1. n \in 0 .. Len(inbox) /\ n + 1 \in 1 .. Len(inbox) + 1
          /\ 1 \in 1 .. Len(inbox) + 1 /\ Len(inbox) \in 0 .. Len(inbox)
      BY <1>t
    <3> QED BY <1>t, <3>1, PartType
  <2>3. v \in Works(2 * made)
    BY <2>2, WorkChanges DEF Places
  <2>4. v.at = "append" /\ work' = [work EXCEPT ![w] = v]
    BY <2>1, <1>t DEF Works
  <2> HIDE DEF v
  <2>5. UNCHANGED <<crowded, sentIn, gone, inVars, outVars, closed, loopVars, jobs,
                    lockVars>>
    BY <1>7 DEF Recv
  <2>6. work' \in [Workers -> Works(2 * made)] /\ Counted'
    BY <2>3, <2>4, <2>5, WorkStep DEF outVars
  <2> QED BY <1>t, <2>1, <2>2, <2>5, <2>6
        DEF TypeOK, Works, inVars, outVars, loopVars, lockVars
<1>8. ASSUME NEW w \in Workers, AppendRead(w)
      PROVE  TypeOK' /\ Counted'
  <2> DEFINE v == [work[w] EXCEPT !.at = "recv", !.chunk = <<>>]
  <2>1. readBuf' \in Seq(1 .. MaxFrames)
    BY <1>8, <1>t, WorkTypes, ConcatProperties DEF AppendRead
  <2>2. v \in Works(2 * made)
    <3>1. <<>> \in Seq(1 .. MaxFrames)
      OBVIOUS
    <3> QED BY <3>1, WorkChanges DEF Places
  <2>3. v.at = "recv" /\ work' = [work EXCEPT ![w] = v]
    BY <1>8, <1>t DEF Works, AppendRead
  <2> HIDE DEF v
  <2>4. UNCHANGED <<crowded, netVars, handled, outVars, closed, loopVars, jobs,
                    lockVars>>
    BY <1>8 DEF AppendRead
  <2>5. work' \in [Workers -> Works(2 * made)] /\ Counted'
    BY <2>2, <2>3, <2>4, WorkStep DEF outVars
  <2> QED BY <1>t, <2>1, <2>4, <2>5
        DEF TypeOK, Works, netVars, outVars, loopVars, lockVars
<1>9. ASSUME NEW w \in Workers, RecvAgain(w) \/ RecvFails(w)
      PROVE  TypeOK' /\ Counted'
  <2>1. UNCHANGED <<crowded, netVars, inVars, outVars, loopVars, jobs, lockVars>>
        /\ closed' \in BOOLEAN
    BY <1>9 DEF RecvAgain, RecvFails, TypeOK
  <2>2. work' \in [Workers -> Works(2 * made)] /\ Counted'
    BY <1>9, <2>1, GoStep DEF RecvAgain, RecvFails, Places, outVars
  <2> QED BY <1>t, <2>1, <2>2
        DEF TypeOK, Works, netVars, inVars, outVars, loopVars, lockVars
<1>10. ASSUME NEW w \in Workers, ParseFrame(w)
       PROVE  TypeOK' /\ Counted'
  <2>1. readBuf' \in Seq(1 .. MaxFrames) /\ handled' \in Seq(1 .. MaxFrames)
    BY <1>10, <1>t, HeadTailProperties, AppendProperties DEF ParseFrame
  <2>2. UNCHANGED <<crowded, netVars, made, writeBuf, wire, closed, loopVars, jobs,
                    lockVars>>
    BY <1>10 DEF ParseFrame
  <2>3. begun' \in 0 .. MaxOut /\ made' \in 0 .. begun'
    <3>1. begun' = begun \/ (begun < MaxOut /\ begun' = begun + 1)
      BY <1>10 DEF ParseFrame
    <3>2. begun \in 0 .. MaxOut /\ made \in 0 .. begun /\ made' = made
      BY <2>2 DEF TypeOK
    <3> QED BY <3>1, <3>2
  <2>4. work' \in [Workers -> Works(2 * made)] /\ Counted'
    <3>1. CASE UNCHANGED <<begun, work>>
      BY <1>t, <1>k, <2>2, <3>1
    <3>3. ASSUME NEW p \in {"text", "room"}, begun' = begun + 1,
                 work' = [work EXCEPT ![w].at = p, ![w].back = "parse"]
          PROVE  work' \in [Workers -> Works(2 * made)] /\ Counted'
      <4> DEFINE v == [work[w] EXCEPT !.at = p, !.back = "parse"]
      <4>1. v \in Works(2 * made)
        BY WorkChanges DEF Places
      <4>2. v.at = p /\ work' = [work EXCEPT ![w] = v]
        BY <1>t, <3>3 DEF Works
      <4> HIDE DEF v
      <4>3. v \in Works(2 * made') /\ made' \in Nat /\ made <= made'
        BY <1>t, <2>2, <4>1
      <4>4. /\ work' \in [Workers -> Works(2 * made')]
            /\ Cardinality(Appending) \in Nat /\ Cardinality(Appending') \in Nat
            /\ Cardinality(Appending') =
                 Cardinality(Appending)
                 + (IF v.at \in {"room", "text", "put"} THEN 1 ELSE 0)
                 - (IF At(w, "room") \/ At(w, "text") \/ At(w, "put") THEN 1 ELSE 0)
        BY <4>2, <4>3, AppendingStep
      <4>5. Cardinality(Appending') <= Cardinality(Appending) + 1
        BY <4>4
      <4>6. made \in Nat /\ begun \in Nat /\ made' = made /\ begun' = begun + 1
        BY <1>t, <2>2, <3>3
      <4>7. Counted'
        BY <1>c, <4>4, <4>5, <4>6 DEF Counted
      <4> QED BY <4>4, <4>6, <4>7
    <3> QED BY <1>10, <3>1, <3>3 DEF ParseFrame
  <2> QED BY <1>t, <2>1, <2>2, <2>3, <2>4
        DEF TypeOK, Works, netVars, loopVars, lockVars
<1>11. ASSUME NEW w \in Workers, ParsePing(w)
       PROVE  TypeOK' /\ Counted'
  <2>1. readBuf' \in Seq(1 .. MaxFrames) /\ handled' \in Seq(1 .. MaxFrames)
    BY <1>11, <1>t, HeadTailProperties, AppendProperties DEF ParsePing
  <2>2. UNCHANGED <<crowded, netVars, wire, closed, loopVars, jobs, lockVars, work>>
        /\ begun' = begun + 1 /\ made' = made + 1 /\ begun' \in 0 .. MaxOut
    BY <1>11, <1>t DEF ParsePing
  <2>3. made' \in 0 .. begun'
    BY <2>2 DEF TypeOK
  <2>4. writeBuf' \in Seq(1 .. 2 * made') /\ wire' \in Seq(1 .. 2 * made')
    BY <1>11, <1>t, <2>2, BytesAdded DEF ParsePing
  <2>5. work' \in [Workers -> Works(2 * made')]
    BY <1>t, <2>2, WorksGrow
  <2>6. Counted'
    BY SMTT(40), <1>c, <1>t, <2>2 DEF Counted, Appending
  <2> QED BY <1>t, <2>1, <2>2, <2>3, <2>4, <2>5, <2>6
        DEF TypeOK, Works, netVars, loopVars, lockVars
<1>12. ASSUME NEW w \in Workers, ParseClose(w) \/ Decide(w)
       PROVE  TypeOK' /\ Counted'
  <2>1. UNCHANGED <<crowded, netVars, handled, outVars, loopVars, jobs, lockVars>>
        /\ closed' \in BOOLEAN
    BY <1>12 DEF ParseClose, Decide, TypeOK, inVars
  <2>2. readBuf' \in Seq(1 .. MaxFrames)
    BY <1>12, <1>t, HeadTailProperties DEF ParseClose, Decide, inVars
  <2>3. work' \in [Workers -> Works(2 * made)] /\ Counted'
    BY <1>12, <2>1, GoStep DEF ParseClose, Decide, outVars
  <2> QED BY <1>t, <2>1, <2>2, <2>3
        DEF TypeOK, Works, netVars, outVars, loopVars, lockVars
<1>13. ASSUME NEW w \in Workers, Lock(w) \/ SendEnds(w)
       PROVE  TypeOK' /\ Counted'
  <2>1. UNCHANGED <<crowded, netVars, inVars, outVars, loopVars, jobs, mtx>>
        /\ closed' \in BOOLEAN /\ writeMtx' \in Workers \cup {NoWorker}
    BY <1>13 DEF Lock, SendEnds, TypeOK
  <2>2. work' \in [Workers -> Works(2 * made)] /\ Counted'
    BY <1>13, <2>1, GoStep DEF Lock, SendEnds, Places, outVars
  <2> QED BY <1>t, <2>1, <2>2
        DEF TypeOK, Works, netVars, inVars, outVars, loopVars
<1>14. ASSUME NEW w \in Workers, Send(w)
       PROVE  TypeOK' /\ Counted'
  <2>1. PICK n \in 1 .. Len(writeBuf) :
          /\ wire' = wire \o SubSeq(writeBuf, 1, n)
          /\ work' = [work EXCEPT ![w].at = "erase", ![w].sent = n]
    BY <1>14 DEF Send
  <2> DEFINE v == [work[w] EXCEPT !.at = "erase", !.sent = n]
  <2>2. n \in 0 .. 2 * made
    <3>1. Follows(0)
      BY <1>14, NobodyErases DEF Send, At
    <3> QED BY <1>t, <3>1 DEF Follows
  <2>3. wire' \in Seq(1 .. 2 * made)
    <3>1. SubSeq(writeBuf, 1, n) \in Seq(1 .. 2 * made)
      <4>1. n \in 0 .. Len(writeBuf) /\ 1 \in 1 .. Len(writeBuf) + 1
        BY <1>t
      <4> QED BY <1>t, <4>1, PartType
    <3> QED BY <1>t, <2>1, <3>1, ConcatProperties
  <2>4. v \in Works(2 * made)
    BY <2>2, WorkChanges DEF Places
  <2>5. v.at = "erase" /\ work' = [work EXCEPT ![w] = v]
    BY <2>1, <1>t DEF Works
  <2> HIDE DEF v
  <2>6. UNCHANGED <<crowded, netVars, inVars, begun, made, writeBuf, closed, loopVars,
                    jobs, lockVars>>
    BY <1>14 DEF Send
  <2>7. work' \in [Workers -> Works(2 * made)] /\ Counted'
    BY <2>4, <2>5, <2>6, WorkStep
  <2> QED BY <1>t, <2>3, <2>6, <2>7
        DEF TypeOK, Works, netVars, inVars, loopVars, lockVars
<1>15. ASSUME NEW w \in Workers, Erase(w)
       PROVE  TypeOK' /\ Counted'
  <2> DEFINE n == work[w].sent
             v == [work[w] EXCEPT !.at = "send", !.sent = 0]
  <2>1. writeBuf' \in Seq(1 .. 2 * made)
    <3>1. Follows(n)
      BY <1>15 DEF Erase, At, Stream
    <3>2. n \in Nat /\ n <= Len(writeBuf) /\ Len(writeBuf) \in Nat
      BY <1>t, <3>1, WorkTypes DEF Follows
    <3>3. n + 1 \in 1 .. Len(writeBuf) + 1 /\ Len(writeBuf) \in 0 .. Len(writeBuf)
      BY <3>2
    <3> QED BY <1>15, <1>t, <3>3, PartType DEF Erase
  <2>2. v \in Works(2 * made)
    <3>1. 0 \in 0 .. 2 * made
      BY <1>t
    <3> QED BY <3>1, WorkChanges DEF Places
  <2>3. v.at = "send" /\ work' = [work EXCEPT ![w] = v]
    BY <1>15, <1>t DEF Works, Erase
  <2> HIDE DEF v
  <2>4. UNCHANGED <<crowded, netVars, inVars, begun, made, wire, closed, loopVars,
                    jobs, lockVars>>
    BY <1>15 DEF Erase
  <2>5. work' \in [Workers -> Works(2 * made)] /\ Counted'
    BY <2>2, <2>3, <2>4, WorkStep
  <2> QED BY <1>t, <2>1, <2>4, <2>5
        DEF TypeOK, Works, netVars, inVars, loopVars, lockVars
<1>16. ASSUME NEW w \in Workers, Post(w)
       PROVE  TypeOK' /\ Counted'
  <2>1. tasks' \in Seq({"Read", "Write", "Close"})
    BY <1>16, <1>t, WorkTypes, AppendProperties DEF Post
  <2>2. UNCHANGED <<crowded, netVars, inVars, outVars, closed, listed, armed, jobs,
                    lockVars>> /\ work' = [work EXCEPT ![w] = Idle]
    BY <1>16 DEF Post
  <2>3. work' \in [Workers -> Works(2 * made)] /\ Counted'
    <3>1. Idle \in Works(2 * made) /\ Idle.at = "idle"
      BY WorkChanges DEF Idle
    <3> QED BY <2>2, <3>1, WorkStep DEF outVars
  <2> QED BY <1>t, <2>1, <2>2, <2>3
        DEF TypeOK, Works, netVars, inVars, outVars, lockVars
<1>17. ASSUME NEW w \in Workers, BroadcastElsewhere(w)
       PROVE  TypeOK' /\ Counted'
  <2> DEFINE v == [work[w] EXCEPT !.at = "room", !.back = "idle"]
  <2>1. UNCHANGED <<netVars, inVars, made, writeBuf, wire, closed, loopVars, jobs,
                    lockVars>> /\ begun' = begun + 1
    BY <1>17 DEF BroadcastElsewhere
  <2>9. begun' \in 0 .. MaxOut /\ made' \in 0 .. begun' /\ crowded' \in BOOLEAN
    <3>1. begun \in 0 .. MaxOut /\ made \in 0 .. begun /\ crowded \in BOOLEAN
      BY DEF TypeOK
    <3>2. begun < MaxOut /\ made' = made /\ begun' = begun + 1
      BY <1>17, <2>1 DEF BroadcastElsewhere
    <3>3. crowded' \in BOOLEAN
      BY <1>17, <3>1 DEF BroadcastElsewhere, Begin
    <3> QED BY <3>1, <3>2, <3>3
  <2>2. v \in Works(2 * made)
    BY WorkChanges DEF Places
  <2>3. v.at = "room" /\ work' = [work EXCEPT ![w] = v]
    BY <1>17, <1>t DEF Works, BroadcastElsewhere
  <2> HIDE DEF v
  <2>4. v \in Works(2 * made') /\ made' \in Nat /\ made <= made'
    BY <1>t, <2>1, <2>2
  <2>5. /\ work' \in [Workers -> Works(2 * made')]
        /\ Cardinality(Appending') \in Nat
        /\ Cardinality(Appending') =
             Cardinality(Appending)
             + (IF v.at \in {"room", "text", "put"} THEN 1 ELSE 0)
             - (IF At(w, "room") \/ At(w, "text") \/ At(w, "put") THEN 1 ELSE 0)
    BY <2>3, <2>4, AppendingStep
  <2>6. Cardinality(Appending') <= Cardinality(Appending) + 1
    BY <1>c, <2>5
  <2>7. Counted'
    <3>1. made \in Nat /\ begun \in Nat /\ made' = made /\ begun' = begun + 1
      BY <1>t, <2>1
    <3> QED BY <1>c, <2>5, <2>6, <3>1 DEF Counted
  <2> QED BY <1>t, <2>1, <2>5, <2>7, <2>9
        DEF TypeOK, Works, netVars, inVars, loopVars, lockVars
<1>18. ASSUME NEW w \in Workers, CheckEmpty(w)
       PROVE  TypeOK' /\ Counted'
  <2>1. UNCHANGED <<crowded, netVars, inVars, outVars, closed, loopVars, jobs, writeMtx>>
        /\ mtx' \in Workers \cup {NoWorker}
    BY <1>18 DEF CheckEmpty, TypeOK
  <2>2. work' \in [Workers -> Works(2 * made)] /\ Counted'
    <3>1. CASE listed
      <4> DEFINE v == [work[w] EXCEPT !.at = "text", !.wasEmpty = (writeBuf = <<>>)]
      <4>1. v \in Works(2 * made)
        BY WorkChanges DEF Places
      <4>2. v.at = "text" /\ work' = [work EXCEPT ![w] = v]
        <5>1. work' = [work EXCEPT ![w].at = "text", ![w].wasEmpty = (writeBuf = <<>>)]
          BY <1>18, <3>1 DEF CheckEmpty
        <5> QED BY <1>t, <5>1 DEF Works
      <4> HIDE DEF v
      <4> QED BY <1>18, <2>1, <4>1, <4>2, WorkStep DEF CheckEmpty, outVars
    <3>2. CASE ~listed
      <4>1. Go(w, work[w].back) /\ work[w].back \in {"idle", "parse"}
        BY <1>18, <3>2, WorkTypes DEF CheckEmpty
      <4> QED BY <2>1, <4>1, GoStep DEF Places, outVars
    <3> QED BY <3>1, <3>2
  <2> QED BY <1>t, <2>1, <2>2
        DEF TypeOK, Works, netVars, inVars, outVars, loopVars
<1>19. ASSUME NEW w \in Workers, SendText(w)
       PROVE  TypeOK' /\ Counted'
  <2>1. UNCHANGED <<crowded, netVars, inVars, closed, loopVars, jobs, lockVars>>
        /\ Go(w, "notify") /\ At(w, "put")
    BY <1>19 DEF SendText
  <2>2. /\ made' = made + 1 /\ UNCHANGED <<begun, wire>>
        /\ writeBuf' = writeBuf \o <<2 * made + 1, 2 * made + 2>>
    BY <1>19 DEF SendText
  <2> DEFINE v == [work[w] EXCEPT !.at = "notify"]
  <2>3. v \in Works(2 * made)
    BY WorkChanges DEF Places
  <2>4. v.at = "notify" /\ work' = [work EXCEPT ![w] = v]
    BY <2>1, <1>t DEF Works, Go
  <2> HIDE DEF v
  <2>5. v \in Works(2 * made') /\ made' \in Nat /\ made <= made'
    BY <1>t, <2>2, <2>3, WorksGrow
  <2>6. /\ work' \in [Workers -> Works(2 * made')]
        /\ Cardinality(Appending') \in Nat
        /\ Cardinality(Appending') =
             Cardinality(Appending)
             + (IF v.at \in {"room", "text", "put"} THEN 1 ELSE 0)
             - (IF At(w, "room") \/ At(w, "text") \/ At(w, "put") THEN 1 ELSE 0)
    BY <2>4, <2>5, AppendingStep
  <2>7. Cardinality(Appending') = Cardinality(Appending) - 1
    BY <1>c, <2>1, <2>4, <2>6
  <2>8. Counted' /\ made' \in 0 .. begun'
    <3>1. made \in Nat /\ begun \in Nat /\ made' = made + 1 /\ begun' = begun
      BY <1>t, <2>2
    <3> QED BY <1>c, <2>6, <2>7, <3>1 DEF Counted
  <2>9. writeBuf' \in Seq(1 .. 2 * made') /\ wire' \in Seq(1 .. 2 * made')
    BY <2>2, BytesAdded
  <2> QED BY <1>t, <2>1, <2>2, <2>6, <2>8, <2>9
        DEF TypeOK, Works, netVars, inVars, loopVars, lockVars
<1>20. ASSUME NEW w \in Workers, Notify(w)
       PROVE  TypeOK' /\ Counted'
  <2> DEFINE p == work[w].back
             v == [work[w] EXCEPT !.at = p, !.wasEmpty = FALSE, !.back = "idle"]
  <2>1. tasks' \in Seq({"Read", "Write", "Close"})
    BY <1>20, <1>t, AppendProperties DEF Notify
  <2>2. UNCHANGED <<crowded, netVars, inVars, outVars, closed, listed, armed, jobs,
                    writeMtx>> /\ mtx' = NoWorker
    BY <1>20 DEF Notify
  <2>3. v \in Works(2 * made)
    BY WorkChanges, WorkTypes DEF Places
  <2>4. v.at = p /\ work' = [work EXCEPT ![w] = v] /\ p \in {"idle", "parse"}
    BY <1>20, <1>t, WorkTypes DEF Works, Notify
  <2> HIDE DEF v, p
  <2>5. work' \in [Workers -> Works(2 * made)] /\ Counted'
    BY <2>2, <2>3, <2>4, WorkStep DEF outVars
  <2> QED BY <1>t, <2>1, <2>2, <2>5
        DEF TypeOK, Works, netVars, inVars, outVars
<1>21. CASE UNCHANGED vars
  BY <1>21, <1>t, <1>k
     DEF vars, TypeOK, Works, netVars, inVars, outVars, loopVars, lockVars
<1>22. ASSUME NEW w \in Workers, TestClosed(w)
       PROVE  TypeOK' /\ Counted'
  <2>1. UNCHANGED <<crowded, netVars, inVars, outVars, closed, loopVars, jobs, lockVars>>
        /\ (Go(w, "notify") \/ Go(w, "put")) /\ At(w, "text")
    BY <1>22 DEF TestClosed
  <2>2. work' \in [Workers -> Works(2 * made)] /\ Counted'
    BY <2>1, GoStep DEF Places, outVars
  <2> QED BY <1>t, <2>1, <2>2
        DEF TypeOK, Works, netVars, inVars, outVars, loopVars, lockVars
<1> QED
  BY <1>1, <1>2, <1>3, <1>4, <1>5, <1>6, <1>7, <1>8, <1>9, <1>10, <1>11, <1>12,
     <1>13, <1>14, <1>15, <1>16, <1>17, <1>18, <1>19, <1>20, <1>21, <1>22
     DEF Next, Client, Reactor, Handler

\* Only the holder of write_mtx_ sends and erases: every other step leaves him and
\* the bytes alone.
LEMMA OthersWriteNothing ==
  ASSUME TypeOK,
         \/ Client \/ Reactor \/ UNCHANGED vars
         \/ \E w \in Workers :
              \/ Take(w) \/ Recv(w) \/ AppendRead(w) \/ RecvAgain(w) \/ RecvFails(w)
              \/ ParseFrame(w) \/ ParseClose(w) \/ Decide(w) \/ Post(w)
              \/ CheckEmpty(w) \/ TestClosed(w) \/ Notify(w) \/ BroadcastElsewhere(w)
  PROVE  /\ UNCHANGED <<made, writeBuf, wire, writeMtx>>
         /\ \A v \in Workers :
              work[v].at \in {"send", "erase"} \/ work'[v].at \in {"send", "erase"} =>
                work'[v] = work[v]
<1>1. CASE Client \/ Reactor \/ UNCHANGED vars
  BY <1>1 DEF Client, ClientSends, ClientCloses, Reactor, EventIn, EventOut, EventHup,
              HandleAction, vars, outVars, lockVars
<1>t. work \in [Workers -> Works(2 * made)]
  BY DEF TypeOK, Works
<1>2. ASSUME NEW w \in Workers, work[w].at \notin {"send", "erase"},
             work'[w].at \notin {"send", "erase"},
             \A v \in Workers : v # w => work'[v] = work[v],
             UNCHANGED <<made, writeBuf, wire, writeMtx>>
      PROVE  /\ UNCHANGED <<made, writeBuf, wire, writeMtx>>
             /\ \A v \in Workers :
                  work[v].at \in {"send", "erase"} \/ work'[v].at \in {"send", "erase"} =>
                    work'[v] = work[v]
  BY <1>2
<1>3. ASSUME NEW w \in Workers, Take(w) \/ RecvAgain(w) \/ RecvFails(w) \/ ParseClose(w)
                                \/ Decide(w) \/ Post(w) \/ AppendRead(w) \/ TestClosed(w)
      PROVE  /\ work[w].at \notin {"send", "erase"}
             /\ work'[w].at \notin {"send", "erase"}
             /\ \A v \in Workers : v # w => work'[v] = work[v]
             /\ UNCHANGED <<made, writeBuf, wire, writeMtx>>
  BY SMTT(40), <1>3, <1>t
     DEF Take, RecvAgain, RecvFails, ParseClose, Decide, Post, AppendRead, TestClosed,
                    At, Go, Return, Idle, outVars, lockVars, Works
<1>4. ASSUME NEW w \in Workers, Recv(w) \/ ParseFrame(w) \/ BroadcastElsewhere(w)
      PROVE  /\ work[w].at \notin {"send", "erase"}
             /\ work'[w].at \notin {"send", "erase"}
             /\ \A v \in Workers : v # w => work'[v] = work[v]
             /\ UNCHANGED <<made, writeBuf, wire, writeMtx>>
  BY <1>4, <1>t DEF Recv, ParseFrame, BroadcastElsewhere, At, outVars, lockVars, Works
<1>5. ASSUME NEW w \in Workers, CheckEmpty(w) \/ Notify(w)
      PROVE  /\ work[w].at \notin {"send", "erase"}
             /\ work'[w].at \notin {"send", "erase"}
             /\ \A v \in Workers : v # w => work'[v] = work[v]
             /\ UNCHANGED <<made, writeBuf, wire, writeMtx>>
  <2>1. work[w].back \notin {"send", "erase"} /\ UNCHANGED <<made, writeBuf, wire, writeMtx>>
        /\ work[w].at \in {"room", "notify"}
    BY <1>5, WorkTypes DEF CheckEmpty, Notify, At, outVars
  <2>2. CASE CheckEmpty(w)
    BY <2>1, <2>2, <1>t DEF CheckEmpty, Go, Works
  <2>3. CASE Notify(w)
    BY <2>1, <2>3, <1>t DEF Notify, Works
  <2> QED BY <1>5, <2>2, <2>3
<1> QED BY <1>1, <1>2, <1>3, <1>4, <1>5

\* handle_write takes write_mtx_ before it sends and gives it back at its end.
LEMMA LockedStep ==
  ASSUME TypeOK, Locked, [Next]_vars
  PROVE  Locked'
<1>t. work \in [Workers -> Works(2 * made)]
  BY DEF TypeOK, Works
<1>1. ASSUME NEW w \in Workers, Lock(w) \/ Send(w) \/ Erase(w) \/ SendEnds(w)
      PROVE  Locked'
  <2>1. /\ \A u \in Workers : u # w => work'[u] = work[u]
        /\ Lock(w) => work[w].at = "lock" /\ writeMtx = NoWorker /\ writeMtx' = w
        /\ Send(w) \/ Erase(w) => work[w].at \in {"send", "erase"} /\ writeMtx' = writeMtx
        /\ SendEnds(w) => work[w].at = "send" /\ work'[w].at = "post"
    BY <1>1, <1>t DEF Lock, Send, Erase, SendEnds, At, Go, Return, lockVars, Works
  <2> QED BY <1>1, <2>1 DEF Locked
<1>2. ASSUME NEW w \in Workers, ParsePing(w) \/ SendText(w)
      PROVE  Locked'
  <2>1. /\ \A u \in Workers : work'[u] = work[u] \/ work'[u].at = "notify"
        /\ writeMtx' = writeMtx
    BY <1>2, <1>t DEF ParsePing, SendText, Go, lockVars, Works
  <2> QED BY <2>1 DEF Locked
<1>3. /\ UNCHANGED <<made, writeBuf, wire, writeMtx>>
      /\ \A v \in Workers :
           work[v].at \in {"send", "erase"} \/ work'[v].at \in {"send", "erase"} =>
             work'[v] = work[v]
      => Locked'
  BY DEF Locked
<1> QED BY <1>1, <1>2, <1>3, OthersWriteNothing DEF Next, Handler

\* Bytes are sent from the front of write_buf_ and appended at its end.
LEMMA StreamStep ==
  ASSUME TypeOK, Locked, Stream, TypeOK', [Next]_vars
  PROVE  Stream'
<1>t. /\ work \in [Workers -> Works(2 * made)] /\ made \in Nat
      /\ writeBuf \in Seq(1 .. 2 * made) /\ wire \in Seq(1 .. 2 * made)
      /\ Len(writeBuf) \in Nat /\ Len(wire) \in Nat
  <2>1. /\ work \in [Workers -> Works(2 * made)] /\ made \in Nat
        /\ writeBuf \in Seq(1 .. 2 * made) /\ wire \in Seq(1 .. 2 * made)
    BY DEF TypeOK, Works
  <2> QED BY <2>1, LenProperties
<1>n. made \in Nat /\ Len(writeBuf) \in Nat /\ Len(wire) \in Nat
  BY <1>t
<1>1. ASSUME UNCHANGED <<made, writeBuf, wire>>,
             \A v \in Workers : work[v].at = "erase" \/ work'[v].at = "erase" =>
                                  work'[v] = work[v]
      PROVE  Stream'
  <2>1. \A k : Follows(k) => Follows(k)'
    BY <1>1 DEF Follows
  <2> QED BY <1>1, <2>1 DEF Stream
<1>2. ASSUME NEW w \in Workers, Lock(w) \/ SendEnds(w)
      PROVE  Stream'
  <2>1. UNCHANGED <<made, writeBuf, wire>>
    BY <1>2 DEF Lock, SendEnds, outVars
  <2>2. /\ \A u \in Workers : u # w => work'[u] = work[u]
        /\ work[w].at # "erase" /\ work'[w].at # "erase"
    BY <1>2, <1>t DEF Lock, SendEnds, At, Go, Return, Works
  <2> QED BY <1>1, <2>1, <2>2
<1>3. ASSUME NEW w \in Workers, ParsePing(w) \/ SendText(w)
      PROVE  Stream'
  <2>1. /\ made' = made + 1 /\ wire' = wire /\ writeMtx = NoWorker
        /\ writeBuf' = writeBuf \o <<2 * made + 1, 2 * made + 2>>
        /\ ~At(w, "erase")
    BY <1>3 DEF ParsePing, SendText, At
  <2>2. Follows(0) /\ \A v \in Workers : work[v].at # "erase"
    BY <2>1, NobodyErases
  <2>3. \A v \in Workers : work'[v].at # "erase"
    <3>1. \A v \in Workers : work'[v] = work[v] \/ work'[v].at = "notify"
      BY <1>3, <1>t DEF ParsePing, SendText, Go, Works
    <3> QED BY <2>2, <3>1
  <2>4. Follows(0)'
    <3>1. /\ Len(writeBuf') = Len(writeBuf) + 2
          /\ \A i \in 1 .. Len(writeBuf) : writeBuf'[i] = writeBuf[i]
          /\ writeBuf'[Len(writeBuf) + 1] = 2 * made + 1
          /\ writeBuf'[Len(writeBuf) + 2] = 2 * made + 2
          /\ writeBuf' \in Seq(1 .. 2 * made')
      BY <2>1, BytesAdded
    <3>2. Len(wire) + Len(writeBuf) = 2 * made
          /\ \A i \in 1 .. Len(writeBuf) : writeBuf[i] = Len(wire) + i
      BY <1>t, <2>2 DEF Follows
    <3>3. Len(wire') + Len(writeBuf') = 2 * made'
      <4>1. made' = made + 1 /\ Len(wire') = Len(wire)
            /\ Len(writeBuf') = Len(writeBuf) + 2
            /\ Len(wire) + Len(writeBuf) = 2 * made
        BY <2>1, <3>1, <3>2
      <4> QED BY <1>n, <4>1
    <3>4. \A i \in 1 .. Len(writeBuf') : writeBuf'[i] = Len(wire') + i
      <4> SUFFICES ASSUME NEW i \in 1 .. Len(writeBuf')
                   PROVE  writeBuf'[i] = Len(wire) + i
        BY <2>1
      <4>1. i \in 1 .. Len(writeBuf) \/ i = Len(writeBuf) + 1 \/ i = Len(writeBuf) + 2
        BY <1>t, <3>1
      <4>2. CASE i \in 1 .. Len(writeBuf)
        BY <4>2, <3>1, <3>2
      <4>3. CASE i = Len(writeBuf) + 1
        BY <1>n, <4>3, <3>1, <3>2
      <4>4. CASE i = Len(writeBuf) + 2
        BY SMTT(40), <1>n, <4>4, <3>1, <3>2
      <4> QED BY <4>1, <4>2, <4>3, <4>4
    <3>5. 0 <= Len(wire') /\ 0 <= Len(writeBuf')
      BY <1>n, <2>1, <3>1
    <3> QED BY <1>n, <2>1, <3>1, <3>3, <3>4, <3>5 DEF Follows
  <2> QED BY <2>3, <2>4 DEF Stream
<1>4. ASSUME NEW w \in Workers, Send(w)
      PROVE  Stream'
  <2>1. PICK n \in 1 .. Len(writeBuf) :
          /\ wire' = wire \o SubSeq(writeBuf, 1, n)
          /\ work' = [work EXCEPT ![w].at = "erase", ![w].sent = n]
    BY <1>4 DEF Send
  <2>2. UNCHANGED <<made, writeBuf>> /\ At(w, "send") /\ writeMtx = w
    BY <1>4 DEF Send, Locked, At
  <2>3. Follows(0) /\ \A v \in Workers : v # w => work[v].at # "erase"
    BY <2>2, NobodyErases DEF At
  <2>4. /\ work'[w].at = "erase" /\ work'[w].sent = n
        /\ \A v \in Workers : v # w => work'[v].at # "erase"
    BY <2>1, <2>3, <1>t DEF Works
  <2>5. Follows(n)'
    <3> DEFINE part == SubSeq(writeBuf, 1, n)
    <3>1. part \in Seq(1 .. 2 * made) /\ Len(part) = n
      BY <1>t, SubSeqProperties
    <3>2. n \in Nat /\ n >= 1 /\ n <= Len(writeBuf)
      BY <1>t
    <3> HIDE DEF part
    <3>3. Len(wire') = Len(wire) + n
      BY <1>t, <2>1, <3>1, ConcatProperties DEF part
    <3>4. /\ Len(wire) + Len(writeBuf) = 2 * made
          /\ \A i \in 1 .. Len(writeBuf) : writeBuf[i] = Len(wire) + i
      BY <1>t, <2>3 DEF Follows
    <3>5. \A i \in 1 .. Len(writeBuf) : writeBuf[i] = Len(wire') - n + i
      BY <1>n, <3>2, <3>3, <3>4
    <3>6. n <= Len(wire') /\ Len(wire') + Len(writeBuf) = 2 * made + n
      BY SMTT(40), <1>n, <3>2, <3>3, <3>4
    <3> QED BY <2>2, <3>2, <3>5, <3>6 DEF Follows
  <2> QED BY <2>4, <2>5 DEF Stream
<1>5. ASSUME NEW w \in Workers, Erase(w)
      PROVE  Stream'
  <2> DEFINE n == work[w].sent
  <2>1. UNCHANGED <<made, wire>> /\ At(w, "erase") /\ writeMtx = w
        /\ writeBuf' = SubSeq(writeBuf, n + 1, Len(writeBuf))
    BY <1>5 DEF Erase, Locked, At
  <2>2. \A v \in Workers : work'[v].at # "erase"
    <3>1. work'[w].at = "send" /\ \A v \in Workers : v # w => work'[v] = work[v]
      BY <1>5, <1>t DEF Erase, Works
    <3> QED BY <2>1, <3>1 DEF Locked
  <2>3. Follows(n) /\ n \in Nat
    BY <2>1, <1>t, WorkTypes DEF Stream, At
  <2> HIDE DEF n
  <2>4. /\ Len(writeBuf') = Len(writeBuf) - n
        /\ \A i \in 1 .. Len(writeBuf) - n : writeBuf'[i] = writeBuf[n + i]
    BY <1>t, <2>1, <2>3, SubSeqProperties DEF Follows
  <2>5. Follows(0)'
    <3>1. /\ n <= Len(writeBuf) /\ n <= Len(wire)
          /\ Len(wire) + Len(writeBuf) = 2 * made + n
          /\ \A i \in 1 .. Len(writeBuf) : writeBuf[i] = Len(wire) - n + i
      BY <2>3 DEF Follows
    <3>2. /\ 0 <= Len(wire') /\ 0 <= Len(writeBuf')
          /\ Len(wire') + Len(writeBuf') = 2 * made' + 0
      <4>1. made' = made /\ Len(wire') = Len(wire) /\ Len(writeBuf') = Len(writeBuf) - n
        BY <2>1, <2>4
      <4>2. /\ n <= Len(writeBuf) /\ n <= Len(wire)
            /\ Len(wire) + Len(writeBuf) = 2 * made + n
        BY <3>1
      <4> QED BY <1>n, <2>3, <4>1, <4>2
    <3>3. \A i \in 1 .. Len(writeBuf') : writeBuf'[i] = Len(wire') - 0 + i
      <4> SUFFICES ASSUME NEW i \in 1 .. Len(writeBuf) - n
                   PROVE  writeBuf'[i] = Len(wire) - 0 + i
        BY <2>1, <2>4
      <4>1. n + i \in 1 .. Len(writeBuf)
        BY <1>n, <2>3, <3>1
      <4> QED BY <1>n, <2>3, <2>4, <3>1, <4>1
    <3> QED BY <3>2, <3>3 DEF Follows
  <2> QED BY <2>2, <2>5 DEF Stream
<1>6. CASE /\ UNCHANGED <<made, writeBuf, wire, writeMtx>>
           /\ \A v \in Workers :
                work[v].at \in {"send", "erase"} \/ work'[v].at \in {"send", "erase"} =>
                  work'[v] = work[v]
  BY <1>1, <1>6
<1> QED
  BY <1>2, <1>3, <1>4, <1>5, <1>6, OthersWriteNothing DEF Next, Handler

\* The bytes sent next are those that come next.
LEMMA WireStep ==
  ASSUME TypeOK, Locked, Stream, WireInOrder, [Next]_vars
  PROVE  WireInOrder'
<1>t. /\ work \in [Workers -> Works(2 * made)] /\ made \in Nat
      /\ writeBuf \in Seq(1 .. 2 * made) /\ wire \in Seq(1 .. 2 * made)
  BY DEF TypeOK, Works
<1>1. wire' = wire => WireInOrder'
  BY DEF WireInOrder
<1>2. ASSUME NEW w \in Workers, Send(w)
      PROVE  WireInOrder'
  <2>1. PICK n \in 1 .. Len(writeBuf) : wire' = wire \o SubSeq(writeBuf, 1, n)
    BY <1>2 DEF Send
  <2> DEFINE part == SubSeq(writeBuf, 1, n)
  <2>2. part \in Seq(1 .. 2 * made) /\ Len(part) = n
        /\ \A i \in 1 .. n : part[i] = writeBuf[i]
    BY <1>t, SubSeqProperties
  <2>3. Follows(0)
    BY <1>2, NobodyErases DEF Send, At
  <2>4. /\ n \in Nat /\ n <= Len(writeBuf) /\ Len(writeBuf) \in Nat /\ Len(wire) \in Nat
        /\ \A i \in 1 .. Len(writeBuf) : writeBuf[i] = Len(wire) + i
    BY <1>t, <2>3 DEF Follows
  <2> HIDE DEF part
  <2>5. /\ Len(wire') = Len(wire) + n
        /\ \A i \in 1 .. Len(wire) : wire'[i] = wire[i]
        /\ \A i \in 1 .. n : wire'[Len(wire) + i] = part[i]
    <3>1. wire' = wire \o part
      BY <2>1 DEF part
    <3>2. wire \in Seq(1 .. 2 * made) /\ part \in Seq(1 .. 2 * made)
      BY <1>t, <2>2
    <3>3. /\ Len(wire \o part) = Len(wire) + Len(part)
          /\ \A i \in 1 .. Len(wire) : (wire \o part)[i] = wire[i]
      BY <3>2, ConcatProperties
    <3>4. ASSUME NEW i \in 1 .. n
          PROVE  (wire \o part)[Len(wire) + i] = part[i]
      <4>1. /\ Len(wire) + i \in 1 .. Len(wire) + Len(part)
            /\ Len(wire) + i > Len(wire) /\ (Len(wire) + i) - Len(wire) = i
        BY <2>2, <2>4
      <4> QED BY <3>2, <4>1, ConcatProperties
    <3> QED BY <2>2, <3>1, <3>3, <3>4
  <2> SUFFICES ASSUME NEW i \in 1 .. Len(wire')
               PROVE  wire'[i] = i
    BY DEF WireInOrder
  <2>6. CASE i \in 1 .. Len(wire)
    BY <2>5, <2>6 DEF WireInOrder
  <2>7. CASE i \notin 1 .. Len(wire)
    <3>1. i - Len(wire) \in 1 .. n
      BY <2>4, <2>5, <2>7
    <3>2. wire'[Len(wire) + (i - Len(wire))] = writeBuf[i - Len(wire)]
      BY <2>2, <2>5, <3>1
    <3>3. writeBuf[i - Len(wire)] = Len(wire) + (i - Len(wire))
      BY <2>4, <3>1
    <3> QED BY <2>4, <2>5, <3>2, <3>3
  <2> QED BY <2>6, <2>7
<1>3. ASSUME NEW w \in Workers, Lock(w) \/ Erase(w) \/ SendEnds(w) \/ ParsePing(w)
                                \/ SendText(w)
      PROVE  wire' = wire
  BY <1>3 DEF Lock, Erase, SendEnds, ParsePing, SendText, outVars
<1> QED BY <1>1, <1>2, <1>3, OthersWriteNothing DEF Next, Handler

-----------------------------------------------------------------------------
\* Nothing is under way when the connection is made.
LEMMA InitHolds ==
  ASSUME Init
  PROVE  TypeOK /\ Counted /\ Locked /\ Stream /\ WireInOrder
<1>1. /\ <<>> \in Seq(1 .. MaxFrames) /\ <<>> \in Seq(1 .. 0) /\ Len(<<>>) = 0
      /\ <<>> \in Seq({"Read", "Write", "Close"}) /\ <<>> \in Seq({"in", "out"})
  OBVIOUS
<1>2. made = 0 /\ begun = 0 /\ 2 * made = 0 /\ wire = <<>> /\ writeBuf = <<>>
      /\ work = [w \in Workers |-> Idle] /\ \A w \in Workers : work[w].at = "idle"
  BY DEF Init, Idle
<1>3. Idle \in Works(0)
  BY <1>1 DEF Works, Idle, Places
<1>4. TypeOK
  <2>1. work \in [Workers -> Works(2 * made)]
    BY <1>2, <1>3
  <2>2. /\ sentIn \in 0 .. MaxFrames /\ begun \in 0 .. MaxOut /\ made \in 0 .. begun
        /\ writeBuf \in Seq(1 .. 2 * made) /\ wire \in Seq(1 .. 2 * made)
    BY <1>1, <1>2 DEF Init
  <2> QED BY <1>1, <2>1, <2>2 DEF Init, TypeOK, Works
<1>5. Counted
  <2>1. Appending = {}
    BY <1>2 DEF Appending
  <2> QED BY <1>2, <2>1, FS_EmptySet DEF Counted
<1>6. Locked /\ Stream /\ WireInOrder
  <2>1. Follows(0)
    BY <1>1, <1>2 DEF Follows
  <2> QED BY <1>1, <1>2, <2>1 DEF Locked, Stream, WireInOrder
<1> QED BY <1>4, <1>5, <1>6

\* The buffer and the wire at every step, whoever sends, appends and erases.
LEMMA Buffers == Safe => [](TypeOK /\ Counted /\ Locked /\ Stream /\ WireInOrder)
<1> DEFINE I == TypeOK /\ Counted /\ Locked /\ Stream /\ WireInOrder
<1>1. Init => I
  BY InitHolds
<1>2. I /\ [Next]_vars => I'
  BY TypeStep, LockedStep, StreamStep, WireStep
<1> HIDE DEF I
<1>3. Safe => []I
  BY <1>1, <1>2, PTL DEF Safe
<1> QED BY <1>3 DEF I

\* The variables of the connection and of its workers keep their types: no
\* message is appended that was not begun, and nobody erases more than there is.
THEOREM TypeCorrect == Safe => []TypeOK
  BY Buffers, PTL

\* The client receives the bytes of the frames in the order in which send_text
\* and the pings appended them, none twice and none left out.
THEOREM BytesInOrder == Safe => []WireInOrder
  BY Buffers, PTL

-----------------------------------------------------------------------------
(* One worker at a time: nothing is stranded. *)

\* mtx_ is held from the look at the write buffer to the notification, and a
\* broadcast from elsewhere appends under it.
MtxHeld ==
  /\ \A w \in Workers : mtx = w => work[w].at \in {"text", "put", "notify"}
  /\ \A w \in Workers : work[w].at \in {"text", "put"} /\ work[w].back = "idle" => mtx = w

\* w will look at the write buffer, or will be told of it.
Active(w) ==
  \/ work[w].at \in {"recv", "append", "parse", "lock", "send", "erase"}
  \/ work[w].at = "post" /\ work[w].act # "Read"
  \/ work[w].at = "notify" /\ (mtx = w => work[w].wasEmpty)
  \/ work[w].at \in {"room", "text", "put", "notify"} /\ work[w].back = "parse"

\* The last action decides what the descriptor is armed for.
Queued ==
  \/ tasks # <<>> /\ tasks[Len(tasks)] # "Read"
  \/ tasks = <<>> /\ armed = "out"
  \/ jobs # <<>>

Alone == \A v, w \in Workers : work[v].at # "idle" /\ work[w].at # "idle" => v = w

\* What a worker decides from the write buffer is right while it is alone.
Decided(w) ==
  /\ work[w].at = "post" /\ work[w].act = "Read" => writeBuf = <<>>
  /\ work[w].at \in {"text", "put"} /\ mtx = w /\ writeBuf = <<>> => work[w].wasEmpty

Careful ==
  /\ Alone
  /\ \A w \in Workers : Decided(w)
  /\ writeBuf # <<>> /\ listed => Queued \/ \E w \in Workers : Active(w)

\* mtx_ is taken for the look and given back with the notification.
LEMMA MtxStep ==
  ASSUME TypeOK, MtxHeld, [Next]_vars
  PROVE  MtxHeld'
<1>t. /\ work \in [Workers -> Works(2 * made)]
      /\ \A w \in Workers : work[w].back \in {"idle", "parse"}
  BY WorkTypes DEF TypeOK, Works
<1>1. CASE Client \/ Reactor \/ UNCHANGED vars
  BY <1>1 DEF Client, ClientSends, ClientCloses, Reactor, EventIn, EventOut, EventHup,
              HandleAction, vars, lockVars, MtxHeld
<1>2. ASSUME NEW w \in Workers, mtx' = mtx, work[w].at \notin {"text", "put", "notify"},
             work'[w].at \notin {"text", "put"} \/ work'[w].back = "parse",
             \A v \in Workers : v # w => work'[v] = work[v]
      PROVE  MtxHeld'
  BY <1>2 DEF MtxHeld
<1>3. ASSUME NEW w \in Workers, Take(w) \/ RecvAgain(w) \/ RecvFails(w) \/ ParseClose(w)
                                \/ Decide(w) \/ Post(w) \/ AppendRead(w)
      PROVE  MtxHeld'
  <2>1. /\ mtx' = mtx /\ work[w].at \notin {"text", "put", "notify"} /\ work'[w].at \notin {"text", "put"}
        /\ \A v \in Workers : v # w => work'[v] = work[v]
    BY <1>3, <1>t DEF Take, RecvAgain, RecvFails, ParseClose, Decide, Post, AppendRead, At,
                      Go, Return, Idle, lockVars, Works
  <2> QED BY <1>2, <2>1
<1>4. ASSUME NEW w \in Workers, Recv(w) \/ ParseFrame(w) \/ BroadcastElsewhere(w)
                                \/ ParsePing(w)
      PROVE  MtxHeld'
  <2>1. /\ mtx' = mtx /\ work[w].at \notin {"text", "put", "notify"}
        /\ work'[w].at \notin {"text", "put"} \/ work'[w].back = "parse"
        /\ \A v \in Workers : v # w => work'[v] = work[v]
    BY SMTT(40), <1>4, <1>t
       DEF Recv, ParseFrame, ParsePing, BroadcastElsewhere, At, lockVars, Works
  <2> QED BY <1>2, <2>1
<1>5. ASSUME NEW w \in Workers, Lock(w) \/ Send(w) \/ Erase(w) \/ SendEnds(w)
      PROVE  MtxHeld'
  <2>1. /\ mtx' = mtx /\ work[w].at \notin {"text", "put", "notify"} /\ work'[w].at \notin {"text", "put"}
        /\ \A v \in Workers : v # w => work'[v] = work[v]
    BY SMTT(40), <1>5, <1>t
       DEF Lock, Send, Erase, SendEnds, At, Go, Return, lockVars, Works
  <2> QED BY <1>2, <2>1
<1>6. ASSUME NEW w \in Workers, CheckEmpty(w)
      PROVE  MtxHeld'
  <2>1. /\ mtx = NoWorker /\ work[w].at = "room"
        /\ \A v \in Workers : v # w => work'[v] = work[v]
        /\ \/ mtx' = w /\ work'[w].at = "text"
           \/ mtx' = NoWorker /\ work'[w].at \in {"idle", "parse"}
    BY <1>6, <1>t DEF CheckEmpty, At, Go, Works
  <2> QED BY <2>1 DEF MtxHeld
<1>7. ASSUME NEW w \in Workers, TestClosed(w) \/ SendText(w)
      PROVE  MtxHeld'
  <2>1. /\ mtx' = mtx /\ work[w].at \in {"text", "put"}
        /\ work'[w].at \in {"put", "notify"} /\ work'[w].back = work[w].back
        /\ \A v \in Workers : v # w => work'[v] = work[v]
    BY <1>7, <1>t DEF TestClosed, SendText, At, Go, lockVars, Works
  <2> QED BY <2>1 DEF MtxHeld
<1>8. ASSUME NEW w \in Workers, Notify(w)
      PROVE  MtxHeld'
  <2>1. /\ mtx \in {w, NoWorker} /\ mtx' = NoWorker /\ work'[w].at \in {"idle", "parse"}
        /\ \A v \in Workers : v # w => work'[v] = work[v]
    BY <1>8, <1>t DEF Notify, At, Works
  <2> QED BY <2>1 DEF MtxHeld
<1> QED BY <1>1, <1>3, <1>4, <1>5, <1>6, <1>7, <1>8 DEF Next, Handler

\* A step of the SubReactor or the client: what was to be done still is.
LEMMA ReactorCareful ==
  ASSUME TypeOK, Careful, Client \/ Reactor \/ UNCHANGED vars
  PROVE  Careful'
<1>t. tasks \in Seq({"Read", "Write", "Close"}) /\ jobs \in Seq({"in", "out"})
  BY DEF TypeOK
<1>1. UNCHANGED <<work, writeBuf, mtx>>
  BY DEF Client, ClientSends, ClientCloses, Reactor, EventIn, EventOut, EventHup,
         HandleAction, vars, lockVars, outVars
<1>2. Alone' /\ \A w \in Workers : Decided(w)' /\ (Active(w)' <=> Active(w))
  BY <1>1 DEF Careful, Alone, Decided, Active
<1>3. listed' => listed
  BY DEF Client, ClientSends, ClientCloses, Reactor, EventIn, EventOut, EventHup,
         HandleAction, vars, loopVars
<1>4. Queued /\ listed' => Queued'
  <2>1. CASE Client \/ UNCHANGED vars
    BY <2>1 DEF Client, ClientSends, ClientCloses, vars, loopVars, Queued
  <2>2. CASE EventIn \/ EventOut
    <3>1. jobs' # <<>>
      BY <2>2, <1>t, AppendProperties DEF EventIn, EventOut
    <3> QED BY <3>1 DEF Queued
  <2>3. CASE EventHup
    <3>1. tasks' # <<>> /\ tasks'[Len(tasks')] = "Close"
      BY <2>3, <1>t, AppendProperties DEF EventHup
    <3> QED BY <3>1 DEF Queued
  <2>4. CASE HandleAction
    <3>1. tasks # <<>> /\ tasks' = Tail(tasks) /\ jobs' = jobs
      BY <2>4 DEF HandleAction
    <3>2. CASE Len(tasks) = 1
      <4>1. tasks' = <<>> /\ Head(tasks) = tasks[Len(tasks)]
        BY <1>t, <3>1, <3>2, HeadTailProperties
      <4>2. Head(tasks) \in {"Read", "Write", "Close"}
        BY <1>t, <3>1, HeadTailProperties
      <4>3. Head(tasks) # "Read" /\ listed' => armed' = "out"
        BY <2>4, <4>2 DEF HandleAction
      <4> QED BY <3>1, <4>1, <4>3 DEF Queued
    <3>3. CASE Len(tasks) # 1
      <4>1. Len(tasks) \in Nat /\ Len(tasks) > 1
        <5>1. tasks \in Seq({"Read", "Write", "Close"}) /\ tasks # <<>>
          BY <1>t, <3>1
        <5>2. Len(tasks) \in Nat /\ Len(tasks) # 0
          BY <5>1, EmptySeq, LenProperties
        <5>3. \A n \in Nat : n # 0 /\ n # 1 => n > 1
          OBVIOUS
        <5> QED BY <5>2, <5>3, <3>3
      <4>2. tasks' # <<>> /\ Len(tasks') = Len(tasks) - 1
            /\ tasks'[Len(tasks) - 1] = tasks[Len(tasks)]
        <5>1. /\ Tail(tasks) \in Seq({"Read", "Write", "Close"})
              /\ Len(Tail(tasks)) = Len(tasks) - 1
              /\ \A i \in 1 .. Len(tasks) - 1 : Tail(tasks)[i] = tasks[i + 1]
          BY <1>t, <3>1, HeadTailProperties
        <5>2. \A n \in Nat : n > 1 => /\ n - 1 \in 1 .. n - 1 /\ (n - 1) + 1 = n
                                     /\ n - 1 # 0
          OBVIOUS
        <5>3. Tail(tasks)[Len(tasks) - 1] = tasks[Len(tasks)] /\ Len(Tail(tasks)) # 0
          BY <4>1, <5>1, <5>2
        <5> QED BY <3>1, <5>1, <5>3, EmptySeq
      <4> QED BY <3>1, <4>2 DEF Queued
    <3> QED BY <3>2, <3>3
  <2> QED BY <2>1, <2>2, <2>3, <2>4 DEF Reactor
<1>5. writeBuf' # <<>> /\ listed' => Queued' \/ \E w \in Workers : Active(w)'
  BY <1>1, <1>2, <1>3, <1>4 DEF Careful
<1> QED BY <1>2, <1>5 DEF Careful

\* A step of a worker while the others are idle.
LEMMA CarefulStep ==
  ASSUME TypeOK, MtxHeld, Careful, ~crowded', [Next]_vars
  PROVE  Careful'
<1>t. /\ work \in [Workers -> Works(2 * made)] /\ writeBuf \in Seq(1 .. 2 * made)
      /\ tasks \in Seq({"Read", "Write", "Close"}) /\ jobs \in Seq({"in", "out"})
      /\ made \in Nat
  BY DEF TypeOK, Works
<1>b. \A w \in Workers : /\ work[w].back \in {"idle", "parse"}
                         /\ work[w].act \in {"Read", "Write", "Close"}
  BY WorkTypes
\* Whoever makes a step is the only one that is not idle.
<1>a. ASSUME NEW w \in Workers,
             \A v \in Workers \ {w} : work[v].at = "idle" /\ work'[v] = work[v],
             Decided(w)', writeBuf' # <<>> /\ listed' => Queued' \/ Active(w)'
      PROVE  Careful'
  BY <1>a DEF Careful, Alone, Decided
<1>o. ASSUME NEW w \in Workers, work[w].at # "idle" \/ Begin(w)
      PROVE  \A v \in Workers \ {w} : work[v].at = "idle"
  <2>1. CASE work[w].at # "idle"
    BY <2>1 DEF Careful, Alone
  <2>2. CASE Begin(w)
    BY <2>2 DEF Begin, At
  <2> QED BY <1>o, <2>1, <2>2
\* What was queued stays queued, when the worker did not care for the buffer.
<1>q. ASSUME NEW w \in Workers, \A v \in Workers \ {w} : work[v].at = "idle",
             ~Active(w), writeBuf # <<>>, listed, UNCHANGED <<tasks, armed, jobs>>
      PROVE  Queued'
  <2>1. \A v \in Workers : ~Active(v)
    BY <1>q DEF Active
  <2> QED BY <1>q, <2>1 DEF Careful, Queued
<1>1. ASSUME NEW w \in Workers, Take(w) \/ RecvAgain(w) \/ RecvFails(w) \/ AppendRead(w)
                                \/ ParseClose(w) \/ Lock(w)
      PROVE  Careful'
  <2>1. /\ \A v \in Workers \ {w} : work'[v] = work[v]
        /\ work[w].at # "idle" \/ Begin(w)
        /\ \/ work'[w].at \in {"recv", "parse", "lock", "send"}
           \/ work'[w].at = "post" /\ work'[w].act = "Close"
    BY SMTT(40), <1>1, <1>t
       DEF Take, RecvAgain, RecvFails, AppendRead, ParseClose, Lock, At, Go,
                      Return, Works
  <2>2. Active(w)' /\ Decided(w)'
    BY <2>1 DEF Active, Decided
  <2> QED BY <1>a, <1>o, <2>1, <2>2
<1>2. ASSUME NEW w \in Workers, Recv(w) \/ ParsePing(w) \/ Send(w) \/ Erase(w)
      PROVE  Careful'
  <2>1. /\ \A v \in Workers \ {w} : work'[v] = work[v]
        /\ work[w].at # "idle" /\ work'[w].at \in {"append", "parse", "erase", "send"}
    BY SMTT(40), <1>2, <1>t DEF Recv, ParsePing, Send, Erase, At, Works
  <2>2. Active(w)' /\ Decided(w)'
    BY <2>1 DEF Active, Decided
  <2> QED BY <1>a, <1>o, <2>1, <2>2
<1>3. ASSUME NEW w \in Workers, ParseFrame(w)
      PROVE  Careful'
  <2>1. /\ \A v \in Workers \ {w} : work'[v] = work[v]
        /\ work[w].at = "parse" /\ mtx' = mtx
        /\ \/ work'[w].at = "parse"
           \/ work'[w].at \in {"text", "room"} /\ work'[w].back = "parse"
    BY <1>3, <1>t DEF ParseFrame, At, lockVars, Works
  <2>2. Active(w)' /\ Decided(w)'
    BY <2>1 DEF Active, Decided, MtxHeld
  <2> QED BY <1>a, <1>o, <2>1, <2>2
<1>4. ASSUME NEW w \in Workers, Decide(w) \/ SendEnds(w)
      PROVE  Careful'
  <2>1. /\ \A v \in Workers \ {w} : work'[v] = work[v]
        /\ work[w].at # "idle" /\ work'[w].at = "post" /\ writeBuf' = writeBuf
        /\ work'[w].act = "Read" => writeBuf = <<>>
    BY SMTT(40), <1>4, <1>t DEF Decide, SendEnds, At, Return, outVars, Works
  <2>2. Decided(w)' /\ (writeBuf' # <<>> => Active(w)')
    BY <2>1 DEF Active, Decided
  <2> QED BY <1>a, <1>o, <2>1, <2>2
<1>5. ASSUME NEW w \in Workers, Post(w)
      PROVE  Careful'
  <2>1. /\ \A v \in Workers \ {w} : work'[v] = work[v]
        /\ work[w].at = "post" /\ work'[w].at = "idle" /\ writeBuf' = writeBuf
        /\ tasks' = Append(tasks, work[w].act)
    BY <1>5, <1>t DEF Post, At, Idle, outVars
  <2>2. tasks' # <<>> /\ tasks'[Len(tasks')] = work[w].act
    <3>1. work[w].act \in {"Read", "Write", "Close"}
      BY <1>b
    <3>2. /\ Len(tasks') = Len(tasks) + 1 /\ tasks'[Len(tasks) + 1] = work[w].act
          /\ Len(tasks) \in Nat
      BY <1>t, <2>1, <3>1, AppendProperties
    <3> QED BY <3>2
  <2>3. Decided(w)' /\ (writeBuf' # <<>> => Queued')
    BY <2>1, <2>2 DEF Careful, Decided, Queued
  <2> QED BY <1>a, <1>o, <2>1, <2>3
<1>6. ASSUME NEW w \in Workers, BroadcastElsewhere(w)
      PROVE  Careful'
  <2>1. /\ \A v \in Workers \ {w} : work'[v] = work[v]
        /\ work[w].at = "idle" /\ work'[w].at = "room" /\ Begin(w)
        /\ UNCHANGED <<writeBuf, listed, tasks, armed, jobs>>
    BY <1>6, <1>t DEF BroadcastElsewhere, At, loopVars, Works
  <2>2. Decided(w)' /\ ~Active(w)
    BY <2>1 DEF Active, Decided
  <2> QED BY <1>a, <1>o, <1>q, <2>1, <2>2
<1>7. ASSUME NEW w \in Workers, CheckEmpty(w)
      PROVE  Careful'
  <2>1. /\ \A v \in Workers \ {w} : work'[v] = work[v]
        /\ work[w].at = "room" /\ work'[w].back = work[w].back
        /\ UNCHANGED <<writeBuf, listed, tasks, armed, jobs>>
        /\ listed => work'[w].at = "text" /\ (writeBuf = <<>> => work'[w].wasEmpty)
        /\ ~listed => work'[w].at \in {"idle", "parse"}
    BY SMTT(40), <1>7, <1>t, <1>b DEF CheckEmpty, At, Go, loopVars, outVars, Works
  <2>2. Decided(w)'
    BY <2>1 DEF Decided
  <2>3. Active(w) /\ listed => Active(w)'
    BY <2>1 DEF Active
  <2> QED BY <1>a, <1>o, <1>q, <2>1, <2>2, <2>3
<1>10. ASSUME NEW w \in Workers, TestClosed(w)
       PROVE  Careful'
  <2>1. /\ \A v \in Workers \ {w} : work'[v] = work[v]
        /\ work[w].at = "text" /\ work'[w].back = work[w].back
        /\ work'[w].at \in {"put", "notify"} /\ work'[w].wasEmpty = work[w].wasEmpty
        /\ UNCHANGED <<writeBuf, mtx, listed, tasks, armed, jobs>>
    BY <1>10, <1>t DEF TestClosed, At, Go, loopVars, lockVars, outVars, Works
  <2>2. Decided(w)'
    BY <2>1 DEF Decided, Careful
  <2>3. Active(w) => Active(w)'
    BY <2>1 DEF Active
  <2> QED BY <1>a, <1>o, <1>q, <2>1, <2>2, <2>3
<1>8. ASSUME NEW w \in Workers, SendText(w)
      PROVE  Careful'
  <2>1. /\ \A v \in Workers \ {w} : work'[v] = work[v]
        /\ work[w].at = "put" /\ work'[w].at = "notify" /\ work'[w].back = work[w].back
        /\ work'[w].wasEmpty = work[w].wasEmpty
        /\ UNCHANGED <<mtx, listed, tasks, armed, jobs>>
    BY <1>8, <1>t DEF SendText, At, Go, loopVars, lockVars, Works
  <2>2. Decided(w)'
    BY <2>1 DEF Decided
  <2>3. Active(w) => Active(w)'
    BY <2>1 DEF Active
  <2>4. writeBuf = <<>> => Active(w)'
    BY <2>1 DEF Active, Careful, Decided
  <2> QED BY <1>a, <1>o, <1>q, <2>1, <2>2, <2>3, <2>4
<1>9. ASSUME NEW w \in Workers, Notify(w)
      PROVE  Careful'
  <2>1. /\ \A v \in Workers \ {w} : work'[v] = work[v]
        /\ work[w].at = "notify" /\ work'[w].at = work[w].back
        /\ mtx \in {w, NoWorker}
        /\ UNCHANGED <<writeBuf, listed, armed, jobs>>
        /\ tasks' = IF listed /\ (mtx = w => work[w].wasEmpty)
                      THEN Append(tasks, "Write") ELSE tasks
    BY <1>9, <1>t DEF Notify, At, outVars, Works
  <2>2. Decided(w)' /\ (work[w].back = "parse" => Active(w)')
    BY <1>b, <2>1 DEF Decided, Active
  <2>3. CASE listed /\ (mtx = w => work[w].wasEmpty)
    <3>1. tasks' # <<>> /\ tasks'[Len(tasks')] = "Write"
      <4>1. tasks' = Append(tasks, "Write")
        BY <2>1, <2>3
      <4>2. tasks \in Seq({"Read", "Write", "Close"})
        BY <1>t
      <4>3. /\ tasks' # <<>> /\ Len(tasks') = Len(tasks) + 1
            /\ tasks'[Len(tasks) + 1] = "Write"
        BY <4>1, <4>2, AppendProperties
      <4> QED BY <4>3
    <3> QED BY <1>a, <1>o, <2>1, <2>2, <3>1 DEF Queued
  <2>4. CASE ~(listed /\ (mtx = w => work[w].wasEmpty))
    <3>1. tasks' = tasks
      BY <2>1, <2>4
    <3>2. listed /\ work[w].back = "idle" => ~Active(w)
      BY <2>1, <2>4 DEF Active
    <3> QED BY <1>a, <1>b, <1>o, <1>q, <2>1, <2>2, <3>1, <3>2
  <2> QED BY <2>3, <2>4
<1> QED
  BY <1>1, <1>2, <1>3, <1>4, <1>5, <1>6, <1>7, <1>8, <1>9, <1>10,
     ReactorCareful
     DEF Next, Handler

\* What the comment of broadcastRoomLocked claims holds as long as no two workers
\* were busy with the connection at a time: what is in write_buf_ has a handler
\* that will find it, or the descriptor is or will be armed for output.  The run
\* WebSocketConn_stranded shows that it fails with two.
THEOREM NothingStrandedAlone == Safe => [](~crowded => NothingStranded)
<1> DEFINE I == TypeOK /\ MtxHeld /\ (~crowded => Careful)
<1>1. Safe => []TypeOK
  BY TypeCorrect
<1>2. Init => I
  <2> SUFFICES ASSUME Init PROVE I
    OBVIOUS
  <2>1. \A w \in Workers : work[w].at = "idle"
    BY DEF Init, Idle
  <2>2. mtx = NoWorker /\ writeBuf = <<>>
    BY DEF Init
  <2> QED BY <2>1, <2>2, InitHolds DEF MtxHeld, Careful, Alone, Decided
<1>3. I /\ TypeOK' /\ [Next]_vars => I'
  <2> SUFFICES ASSUME I, TypeOK', [Next]_vars PROVE I'
    OBVIOUS
  <2>1. crowded => crowded'
    BY ZenonT(40)
       DEF Next, Client, ClientSends, ClientCloses, Reactor, EventIn, EventOut, EventHup,
           HandleAction, Handler, Take, Recv, AppendRead, RecvAgain, RecvFails, ParseFrame,
           ParsePing, ParseClose, Decide, Lock, Send, Erase, SendEnds, Post, CheckEmpty,
           TestClosed, SendText, Notify, BroadcastElsewhere, Begin, vars
  <2> QED BY <2>1, MtxStep, CarefulStep
<1>4. I => (~crowded => NothingStranded)
  <2> SUFFICES ASSUME Careful, writeBuf # <<>>, listed
               PROVE  WriteComing
    BY DEF NothingStranded
  <2>1. CASE tasks # <<>> /\ tasks[Len(tasks)] # "Read"
    <3>1. Len(tasks) \in 1 .. Len(tasks)
      BY <2>1 DEF TypeOK
    <3> QED BY <2>1, <3>1 DEF WriteComing
  <2>2. CASE (tasks = <<>> /\ armed = "out") \/ jobs # <<>>
    BY <2>2 DEF WriteComing
  <2>3. ASSUME NEW w \in Workers, Active(w)
        PROVE  WriteComing
    BY <2>3 DEF Active, WriteComing
  <2> QED BY <2>1, <2>2, <2>3 DEF Careful, Queued
<1> HIDE DEF I
<1> QED BY <1>1, <1>2, <1>3, <1>4, PTL DEF Safe
=============================================================================
