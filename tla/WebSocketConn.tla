--------------------------- MODULE WebSocketConn ---------------------------
(***************************************************************************)
(* One WebSocket connection, seen by the workers that read from it, write  *)
(* to it and broadcast to it, and by the SubReactor that arms its          *)
(* descriptor.  SubReactor has the tables and the life of the descriptor;  *)
(* here are the two buffers of WebSocketConn, the locks around them, and   *)
(* the rule by which a broadcast asks for EPOLLOUT: only when the buffer   *)
(* was empty.                                                              *)
(*                                                                         *)
(* Client frames are numbered in the order in which they are sent, and the *)
(* bytes of outgoing frames in the order in which they are appended, two   *)
(* to a frame.                                                             *)
(***************************************************************************)
EXTENDS Naturals, Sequences, FiniteSets

CONSTANTS Workers,    \* the worker threads
          NoWorker,   \* nobody holds a lock
          MaxFrames,  \* bound: the frames the client sends
          MaxOut      \* bound: the messages to the connection

ASSUME WorkersAssumption == IsFiniteSet(Workers) /\ NoWorker \notin Workers
ASSUME MaxAssumption == MaxFrames \in Nat /\ MaxOut \in Nat

VARIABLES
  sentIn,    \* the client has sent the frames 1 .. sentIn
  gone,      \* the client has closed its end
  inbox,     \* the frames in the kernel, not yet received
  readBuf,   \* read_buf_
  handled,   \* the frames given to on_message_cb_
  begun,     \* the messages to the connection that were begun
  made,      \* the frames appended to write_buf_ so far
  writeBuf,  \* write_buf_
  wire,      \* the bytes sent
  closed,    \* closed_
  listed,    \* the connection is in conns_ and its descriptor is open
  armed,     \* "off", "in" or "out"
  tasks,     \* the actions for this descriptor in the task queue
  jobs,      \* the handlers for this connection in the pool: "in", "out"
  mtx,       \* who holds mtx_ of WebSocketServer
  writeMtx,  \* who holds write_mtx_
  work,      \* work[w]: what worker w does
  crowded    \* history: two workers were busy with the connection at a time

netVars   == <<sentIn, gone, inbox>>
inVars    == <<readBuf, handled>>
outVars   == <<begun, made, writeBuf, wire>>
loopVars  == <<listed, armed, tasks>>
lockVars  == <<mtx, writeMtx>>
vars == <<netVars, inVars, outVars, closed, loopVars, jobs, lockVars, work, crowded>>

Idle == [at |-> "idle", act |-> "Read", chunk |-> <<>>, sent |-> 0,
         wasEmpty |-> FALSE, back |-> "idle"]

Init ==
  /\ sentIn = 0 /\ gone = FALSE /\ inbox = <<>>
  /\ readBuf = <<>> /\ handled = <<>>
  /\ begun = 0 /\ made = 0 /\ writeBuf = <<>> /\ wire = <<>>
  /\ closed = FALSE
  /\ listed = TRUE /\ armed = "in" /\ tasks = <<>> /\ jobs = <<>>
  /\ mtx = NoWorker /\ writeMtx = NoWorker
  /\ work = [w \in Workers |-> Idle] /\ crowded = FALSE

-----------------------------------------------------------------------------
(* The client. *)

ClientSends ==
  /\ sentIn < MaxFrames /\ ~gone
  /\ sentIn' = sentIn + 1
  /\ inbox' = Append(inbox, sentIn + 1)
  /\ UNCHANGED <<crowded, gone, inVars, outVars, closed, loopVars, jobs, lockVars, work>>

ClientCloses ==
  /\ ~gone
  /\ gone' = TRUE
  /\ UNCHANGED <<crowded, sentIn, inbox, inVars, outVars, closed, loopVars, jobs,
                 lockVars, work>>

-----------------------------------------------------------------------------
(* The SubReactor.  A one-shot event disarms the descriptor; the action that *)
(* a handler or a broadcast posted arms it again, whichever comes last.      *)

EventIn ==
  /\ armed = "in" /\ inbox # <<>> /\ ~gone
  /\ armed' = "off" /\ jobs' = Append(jobs, "in")
  /\ UNCHANGED <<crowded, netVars, inVars, outVars, closed, listed, tasks, lockVars, work>>

EventOut ==
  /\ armed = "out" /\ ~gone
  /\ armed' = "off" /\ jobs' = Append(jobs, "out")
  /\ UNCHANGED <<crowded, netVars, inVars, outVars, closed, listed, tasks, lockVars, work>>

\* EPOLLRDHUP comes first, whatever else is reported with it.
EventHup ==
  /\ armed # "off" /\ gone
  /\ armed' = "off" /\ tasks' = Append(tasks, "Close")
  /\ UNCHANGED <<crowded, netVars, inVars, outVars, closed, listed, jobs, lockVars, work>>

\* handle_action.  removeConnection of Close takes mtx_.
HandleAction ==
  /\ tasks # <<>>
  /\ tasks' = Tail(tasks)
  /\ LET act == Head(tasks) IN
       \/ /\ act = "Close" /\ mtx = NoWorker
          /\ listed' = FALSE /\ armed' = "off"
       \/ /\ act \in {"Read", "Write"}
          /\ armed' = IF ~listed THEN armed
                      ELSE IF act = "Write" THEN "out" ELSE "in"
          /\ UNCHANGED listed
  /\ UNCHANGED <<crowded, netVars, inVars, outVars, closed, jobs, lockVars, work>>

-----------------------------------------------------------------------------
(* A worker, in the handlers of this connection. *)

At(w, place) == work[w].at = place
Go(w, place) == work' = [work EXCEPT ![w].at = place]
Return(w, act) == work' = [work EXCEPT ![w].at = "post", ![w].act = act]

\* w turns to the connection.
Begin(w) == crowded' = (crowded \/ \E v \in Workers \ {w} : ~At(v, "idle"))

\* The handler begins, and returns at once when closed_ is set.
Take(w) ==
  /\ At(w, "idle") /\ jobs # <<>> /\ Begin(w)
  /\ jobs' = Tail(jobs)
  /\ IF closed THEN Return(w, "Close")
     ELSE Go(w, IF Head(jobs) = "in" THEN "recv" ELSE "lock")
  /\ UNCHANGED <<netVars, inVars, outVars, closed, loopVars, lockVars>>

\* handle_read: recv until the kernel has no more.
Recv(w) ==
  /\ At(w, "recv") /\ listed /\ inbox # <<>>
  /\ \E n \in 1 .. Len(inbox) :
       /\ work' = [work EXCEPT ![w].at = "append",
                               ![w].chunk = SubSeq(inbox, 1, n)]
       /\ inbox' = SubSeq(inbox, n + 1, Len(inbox))
  /\ UNCHANGED <<crowded, sentIn, gone, inVars, outVars, closed, loopVars, jobs, lockVars>>

AppendRead(w) ==
  /\ At(w, "append")
  /\ readBuf' = readBuf \o work[w].chunk
  /\ work' = [work EXCEPT ![w].at = "recv", ![w].chunk = <<>>]
  /\ UNCHANGED <<crowded, netVars, handled, outVars, closed, loopVars, jobs, lockVars>>

RecvAgain(w) ==
  /\ At(w, "recv") /\ listed /\ inbox = <<>> /\ ~gone
  /\ Go(w, "parse")
  /\ UNCHANGED <<crowded, netVars, inVars, outVars, closed, loopVars, jobs, lockVars>>

\* The end of the stream, or a descriptor that is closed.
RecvFails(w) ==
  /\ At(w, "recv") /\ (~listed \/ (gone /\ inbox = <<>>))
  /\ closed' = TRUE
  /\ Return(w, "Close")
  /\ UNCHANGED <<crowded, netVars, inVars, outVars, loopVars, jobs, lockVars>>

\* parseFrames takes a frame, and the callback handles it: quietly, or with a
\* message to the connection itself, or with a broadcast to a room it is in.
ParseFrame(w) ==
  /\ At(w, "parse") /\ readBuf # <<>>
  /\ handled' = Append(handled, Head(readBuf)) /\ readBuf' = Tail(readBuf)
  /\ \/ UNCHANGED <<begun, work>>
     \/ /\ begun < MaxOut /\ begun' = begun + 1
        /\ \E place \in {"text", "room"} :
             work' = [work EXCEPT ![w].at = place, ![w].back = "parse"]
  /\ UNCHANGED <<crowded, netVars, made, writeBuf, wire, closed, loopVars, jobs, lockVars>>

\* A ping is answered in the write buffer, and nothing is posted.
ParsePing(w) ==
  /\ At(w, "parse") /\ readBuf # <<>> /\ writeMtx = NoWorker
  /\ begun < MaxOut /\ begun' = begun + 1
  /\ handled' = Append(handled, Head(readBuf)) /\ readBuf' = Tail(readBuf)
  /\ made' = made + 1
  /\ writeBuf' = writeBuf \o <<2 * made + 1, 2 * made + 2>>
  /\ UNCHANGED <<crowded, netVars, wire, closed, loopVars, jobs, lockVars, work>>

ParseClose(w) ==
  /\ At(w, "parse") /\ readBuf # <<>>
  /\ readBuf' = Tail(readBuf)
  /\ closed' = TRUE
  /\ Return(w, "Close")
  /\ UNCHANGED <<crowded, netVars, handled, outVars, loopVars, jobs, lockVars>>

\* Mutant: the write buffer is not looked at.
DecideRead(w) ==
  /\ At(w, "parse") /\ readBuf = <<>>
  /\ Return(w, "Read")
  /\ UNCHANGED <<crowded, netVars, inVars, outVars, closed, loopVars, jobs, lockVars>>

Decide(w) ==
  /\ At(w, "parse") /\ readBuf = <<>> /\ writeMtx = NoWorker
  /\ Return(w, IF writeBuf = <<>> THEN "Read" ELSE "Write")
  /\ UNCHANGED <<crowded, netVars, inVars, outVars, closed, loopVars, jobs, lockVars>>

\* Mutant: two workers may send at a time.
LockNot(w) ==
  /\ At(w, "lock") /\ Go(w, "send")
  /\ UNCHANGED <<crowded, netVars, inVars, outVars, closed, loopVars, jobs, lockVars>>

\* handle_write holds write_mtx_ while it sends.
Lock(w) ==
  /\ At(w, "lock") /\ writeMtx = NoWorker
  /\ writeMtx' = w
  /\ Go(w, "send")
  /\ UNCHANGED <<crowded, netVars, inVars, outVars, closed, loopVars, jobs, mtx>>

Send(w) ==
  /\ At(w, "send") /\ writeBuf # <<>> /\ listed /\ ~gone
  /\ \E n \in 1 .. Len(writeBuf) :
       /\ wire' = wire \o SubSeq(writeBuf, 1, n)
       /\ work' = [work EXCEPT ![w].at = "erase", ![w].sent = n]
  /\ UNCHANGED <<crowded, netVars, inVars, begun, made, writeBuf, closed, loopVars, jobs, lockVars>>

Erase(w) ==
  /\ At(w, "erase")
  /\ writeBuf' = SubSeq(writeBuf, work[w].sent + 1, Len(writeBuf))
  /\ work' = [work EXCEPT ![w].at = "send", ![w].sent = 0]
  /\ UNCHANGED <<crowded, netVars, inVars, begun, made, wire, closed, loopVars, jobs, lockVars>>

\* Everything is sent, or the kernel takes no more, or send fails.
SendEnds(w) ==
  /\ At(w, "send")
  /\ \/ writeBuf = <<>> /\ Return(w, "Read") /\ UNCHANGED closed
     \/ writeBuf # <<>> /\ listed /\ Return(w, "Write") /\ UNCHANGED closed
     \/ /\ writeBuf # <<>> /\ (~listed \/ gone)
        /\ Return(w, "Close") /\ closed' = TRUE
  /\ writeMtx' = NoWorker
  /\ UNCHANGED <<crowded, netVars, inVars, outVars, loopVars, jobs, mtx>>

Post(w) ==
  /\ At(w, "post")
  /\ tasks' = Append(tasks, work[w].act)
  /\ work' = [work EXCEPT ![w] = Idle]
  /\ UNCHANGED <<crowded, netVars, inVars, outVars, closed, listed, armed, jobs, lockVars>>

-----------------------------------------------------------------------------
(* A worker that sends to the connection: from the handler of another one, *)
(* or from the connection's own.                                           *)

\* A frame of another connection leads to a broadcast.
BroadcastElsewhere(w) ==
  /\ At(w, "idle") /\ begun < MaxOut /\ Begin(w)
  /\ begun' = begun + 1
  /\ work' = [work EXCEPT ![w].at = "room", ![w].back = "idle"]
  /\ UNCHANGED <<netVars, inVars, made, writeBuf, wire, closed, loopVars, jobs, lockVars>>

\* broadcastRoomLocked: is the connection there, and its write buffer empty?
CheckEmpty(w) ==
  /\ At(w, "room") /\ mtx = NoWorker
  /\ IF listed
       THEN /\ writeMtx = NoWorker
            /\ mtx' = w
            /\ work' = [work EXCEPT ![w].at = "text",
                                    ![w].wasEmpty = (writeBuf = <<>>)]
       ELSE Go(w, work[w].back) /\ UNCHANGED mtx
  /\ UNCHANGED <<crowded, netVars, inVars, outVars, closed, loopVars, jobs, writeMtx>>

\* send_text looks at closed_ before it takes the lock.
TestClosed(w) ==
  /\ At(w, "text")
  /\ Go(w, IF closed THEN "notify" ELSE "put")
  /\ UNCHANGED <<crowded, netVars, inVars, outVars, closed, loopVars, jobs, lockVars>>

\* Mutant: the length in the header is one too many.
SendTextLong(w) ==
  /\ At(w, "put") /\ writeMtx = NoWorker
  /\ made' = made + 1
  /\ writeBuf' = writeBuf \o [i \in 1 .. 3 |-> 2 * made + i]
  /\ Go(w, "notify")
  /\ UNCHANGED <<crowded, netVars, inVars, begun, wire, closed, loopVars, jobs, lockVars>>

SendText(w) ==
  /\ At(w, "put") /\ writeMtx = NoWorker
  /\ made' = made + 1
  /\ writeBuf' = writeBuf \o <<2 * made + 1, 2 * made + 2>>
  /\ Go(w, "notify")
  /\ UNCHANGED <<crowded, netVars, inVars, begun, wire, closed, loopVars, jobs, lockVars>>

\* The callback posts Write: always for a message to the connection itself,
\* which takes mtx_ for it, and in a broadcast only when the buffer was empty.
Notify(w) ==
  /\ At(w, "notify")
  /\ mtx \in {w, NoWorker}
  /\ tasks' = IF listed /\ (mtx = w => work[w].wasEmpty)
                THEN Append(tasks, "Write") ELSE tasks
  /\ mtx' = NoWorker
  /\ work' = [work EXCEPT ![w].at = work[w].back, ![w].wasEmpty = FALSE,
                          ![w].back = "idle"]
  /\ UNCHANGED <<crowded, netVars, inVars, outVars, closed, listed, armed, jobs, writeMtx>>

-----------------------------------------------------------------------------
Client == ClientSends \/ ClientCloses

Reactor == EventIn \/ EventOut \/ EventHup \/ HandleAction

Handler(w) ==
  \/ Take(w) \/ Recv(w) \/ AppendRead(w) \/ RecvAgain(w) \/ RecvFails(w)
  \/ ParseFrame(w) \/ ParsePing(w) \/ ParseClose(w) \/ Decide(w)
  \/ Lock(w) \/ Send(w) \/ Erase(w) \/ SendEnds(w) \/ Post(w)
  \/ CheckEmpty(w) \/ TestClosed(w) \/ SendText(w) \/ Notify(w)

Next ==
  \/ Client \/ Reactor
  \/ \E w \in Workers : Handler(w) \/ BroadcastElsewhere(w)

Safe == Init /\ [][Next]_vars

\* The threads run.  A client that is ready for bytes gets some of them in the
\* end, however often the kernel buffer was full before.  What clients send,
\* here and on other connections, is their affair.
Spec ==
  /\ Safe
  /\ WF_vars(Reactor)
  /\ \A w \in Workers : WF_vars(Handler(w)) /\ SF_vars(Send(w))

-----------------------------------------------------------------------------
Places == {"idle", "recv", "append", "parse", "lock", "send", "erase", "post",
           "room", "text", "put", "notify"}

TypeOK ==
  /\ sentIn \in 0 .. MaxFrames /\ gone \in BOOLEAN
  /\ inbox \in Seq(1 .. MaxFrames) /\ readBuf \in Seq(1 .. MaxFrames)
  /\ handled \in Seq(1 .. MaxFrames)
  /\ begun \in 0 .. MaxOut /\ made \in 0 .. begun
  /\ writeBuf \in Seq(1 .. 2 * made) /\ wire \in Seq(1 .. 2 * made)
  /\ closed \in BOOLEAN /\ listed \in BOOLEAN
  /\ armed \in {"off", "in", "out"}
  /\ tasks \in Seq({"Read", "Write", "Close"}) /\ jobs \in Seq({"in", "out"})
  /\ crowded \in BOOLEAN
  /\ mtx \in Workers \cup {NoWorker} /\ writeMtx \in Workers \cup {NoWorker}
  /\ work \in [Workers -> [at : Places, act : {"Read", "Write", "Close"},
                          chunk : Seq(1 .. MaxFrames), sent : 0 .. 2 * made,
                          wasEmpty : BOOLEAN, back : {"idle", "parse"}]]

\* The client receives the bytes of the frames in the order in which they were
\* appended, none twice and none left out, whoever sends and appends.
WireInOrder == \A i \in 1 .. Len(wire) : wire[i] = i

\* Frames are handled in the order in which the client sent them.
InputInOrder == \A i \in 1 .. Len(handled) : handled[i] = i

\* While there is something to send, somebody will: EPOLLOUT is armed or
\* about to be, or a handler will find the buffer, or will be told of it.
WriteComing ==
  \/ armed = "out"
  \/ \E i \in 1 .. Len(tasks) : tasks[i] # "Read"
  \/ jobs # <<>>
  \/ \E w \in Workers :
       \/ work[w].at \in {"recv", "append", "parse", "lock", "send", "erase"}
       \/ work[w].at = "post" /\ work[w].act # "Read"
       \/ work[w].at = "notify" /\ (mtx = w => work[w].wasEmpty)
       \/ work[w].at \in {"room", "text", "put", "notify"} /\ work[w].back = "parse"

\* The claim of a comment in WebSocketServer.cpp: while the buffer of a live
\* connection is not empty its descriptor is handling, or about to handle, the
\* output.  It holds as long as one worker at a time is busy with it.
NothingStranded == writeBuf # <<>> /\ listed => WriteComing

\* What is to be sent is sent, unless the connection ends, as long as no two
\* workers have been busy with the connection at a time.
Delivered == writeBuf # <<>> ~> writeBuf = <<>> \/ ~listed \/ crowded
=============================================================================
