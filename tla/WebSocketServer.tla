-------------------------- MODULE WebSocketServer --------------------------
(***************************************************************************)
(* The chat server: the singleton WebSocketServer, its four maps and the   *)
(* critical sections of mtx_ that change them.  Two kinds of threads call  *)
(* it: the SubReactors, which register a descriptor that was upgraded and  *)
(* remove one that is closed, and the workers, which run the callback of a *)
(* connection for each of its frames.                                      *)
(*                                                                         *)
(* Everything is keyed by descriptor number.  Connection objects are       *)
(* numbered in the order in which they are added, so that the properties   *)
(* can tell the owner of a number from the next one; the code reads no     *)
(* such number.  Of epoll there is what matters here: which descriptors    *)
(* may report an event, and that a broadcast arms those of the others.     *)
(***************************************************************************)
EXTENDS Naturals

CONSTANTS Fds,       \* the descriptor numbers
          MaxConns,  \* bound: the connections upgraded
          Workers,   \* the worker threads of the pool
          Rooms,     \* the names of rooms
          Users,     \* the users that have a session
          NoUser     \* the empty username

ASSUME MaxConnsAssumption == MaxConns \in Nat
ASSUME NoUserAssumption == NoUser \notin Users

None == 0
Conns == 1 .. MaxConns

VARIABLES
  conns,      \* conns_[fd]: the connection object, or None
  username,   \* username_ of each connection object
  rooms,      \* rooms_[room]: the descriptors in it
  roomKeys,   \* the rooms that have an entry in rooms_
  users,      \* users_[username]: the descriptors, empty when not there
  callbacks,  \* the descriptors in fd_callbacks_
  added,      \* the connections so far are 1 .. added
  armed,      \* the descriptors that may report an event
  doomed,     \* the descriptors whose Close is in the task queue
  work,       \* work[w]: the frame that worker w handles
  signed      \* history: <<c, u>> when a frame of c carried a session of u

mapVars  == <<conns, username, rooms, roomKeys, users, callbacks>>
loopVars == <<added, armed, doomed>>
vars == <<mapVars, loopVars, work, signed>>

Idle == [at |-> "idle", fd |-> None, conn |-> None, user |-> NoUser]

Init ==
  /\ conns = [fd \in Fds |-> None] /\ username = [c \in Conns |-> NoUser]
  /\ rooms = [r \in Rooms |-> {}] /\ roomKeys = {}
  /\ users = [u \in Users |-> {}] /\ callbacks = {}
  /\ added = 0 /\ armed = {} /\ doomed = {}
  /\ work = [w \in Workers |-> Idle] /\ signed = {}

Listed(fd) == conns[fd] # None

-----------------------------------------------------------------------------
(* The SubReactors. *)

\* Upgrade, first half.  The descriptor is a new one.
RegisterCallback(fd) ==
  /\ ~Listed(fd) /\ fd \notin callbacks
  /\ added < MaxConns
  /\ callbacks' = callbacks \cup {fd}
  /\ UNCHANGED <<conns, username, rooms, roomKeys, users, loopVars, work, signed>>

\* Mutant: the connection is there before its callback.
AddConnectionFirst(fd) ==
  /\ ~Listed(fd) /\ added < MaxConns
  /\ conns' = [conns EXCEPT ![fd] = added + 1]
  /\ added' = added + 1
  /\ armed' = armed \cup {fd}
  /\ UNCHANGED <<username, rooms, roomKeys, users, callbacks, doomed, work, signed>>

\* Upgrade, second half, by the same SubReactor.
AddConnection(fd) ==
  /\ ~Listed(fd) /\ fd \in callbacks /\ added < MaxConns
  /\ conns' = [conns EXCEPT ![fd] = added + 1]
  /\ added' = added + 1
  /\ armed' = armed \cup {fd}
  /\ UNCHANGED <<username, rooms, roomKeys, users, callbacks, doomed, work, signed>>

\* Mutant: the rooms keep the descriptor.
RemoveConnectionFromNoRoom(fd) ==
  /\ fd \in doomed \cup armed /\ Listed(fd)
  /\ LET u == username[conns[fd]] IN
       users' = IF u = NoUser THEN users
                ELSE [users EXCEPT ![u] = @ \ {fd}]
  /\ conns' = [conns EXCEPT ![fd] = None]
  /\ callbacks' = callbacks \ {fd}
  /\ armed' = armed \ {fd} /\ doomed' = doomed \ {fd}
  /\ UNCHANGED <<username, rooms, roomKeys, added, work, signed>>

\* Close, for an armed descriptor that hangs up or after a handler asked for
\* it: the connection leaves every room and the users; rooms_ keeps its keys.
RemoveConnection(fd) ==
  /\ fd \in doomed \cup armed /\ Listed(fd)
  /\ rooms' = [r \in Rooms |-> rooms[r] \ {fd}]
  /\ LET u == username[conns[fd]] IN
       users' = IF u = NoUser THEN users
                ELSE [users EXCEPT ![u] = @ \ {fd}]
  /\ conns' = [conns EXCEPT ![fd] = None]
  /\ callbacks' = callbacks \ {fd}
  /\ armed' = armed \ {fd} /\ doomed' = doomed \ {fd}
  /\ UNCHANGED <<username, roomKeys, added, work, signed>>

\* A second Close finds nothing in conns_.  It does not come between the
\* halves of an Upgrade, which are one task.
RemoveNothing(fd) ==
  /\ fd \in doomed /\ ~Listed(fd) /\ fd \notin callbacks
  /\ doomed' = doomed \ {fd}
  /\ UNCHANGED <<mapVars, added, armed, work, signed>>

-----------------------------------------------------------------------------
(* The workers: handle_read of a connection, frame by frame. *)

At(w, place) == work[w].at = place
Go(w, place) == work' = [work EXCEPT ![w].at = place]

\* The one-shot event disarms the descriptor.
TakeEvent(w) ==
  /\ At(w, "idle")
  /\ \E fd \in armed :
       /\ Listed(fd)
       /\ armed' = armed \ {fd}
       /\ work' = [work EXCEPT ![w] = [at |-> "frame", fd |-> fd,
                                       conn |-> conns[fd], user |-> NoUser]]
  /\ UNCHANGED <<mapVars, added, doomed, signed>>

\* The action posted for the descriptor number: its arming, or Close.
HandlerReturns(w) ==
  /\ At(w, "frame")
  /\ work' = [work EXCEPT ![w] = Idle]
  /\ \/ /\ armed' = armed \cup {fd \in {work[w].fd} : Listed(fd)}
        /\ UNCHANGED doomed
     \/ /\ doomed' = doomed \cup {work[w].fd} /\ UNCHANGED armed
  /\ UNCHANGED <<mapVars, added, signed>>

\* Mutant: an empty username is not refused.
FindSessionOrNot(w) ==
  /\ At(w, "frame")
  /\ \E u \in Users \cup {NoUser} :
       work' = [work EXCEPT ![w].at = "auth", ![w].user = u]
  /\ UNCHANGED <<mapVars, loopVars, signed>>

\* handleAuth looks the session up; the server answers when there is none.
FindSession(w) ==
  /\ At(w, "frame")
  /\ \E u \in Users :
       /\ work' = [work EXCEPT ![w].at = "auth", ![w].user = u]
       /\ signed' = signed \cup {<<work[w].conn, u>>}
  /\ UNCHANGED <<mapVars, loopVars>>

\* Mutant: users_ is not told.
AuthenticateNoIndex(w) ==
  /\ At(w, "auth")
  /\ LET fd == work[w].fd
         u  == work[w].user
     IN  IF Listed(fd)
           THEN /\ username' = [username EXCEPT ![conns[fd]] = u]
                /\ armed' = armed \cup {fd}
           ELSE UNCHANGED <<username, armed>>
  /\ work' = [work EXCEPT ![w].at = "frame", ![w].user = NoUser]
  /\ UNCHANGED <<conns, rooms, roomKeys, users, callbacks, added, doomed, signed>>

\* handleAuth, under mtx_: whoever has the descriptor now gets the name, and
\* the answer, for which it is armed.
Authenticate(w) ==
  /\ At(w, "auth")
  /\ LET fd == work[w].fd
         u  == work[w].user
     IN  IF Listed(fd)
           THEN /\ username' = [username EXCEPT ![conns[fd]] = u]
                /\ users' = [users EXCEPT ![u] = @ \cup {fd}]
                /\ armed' = armed \cup {fd}
           ELSE UNCHANGED <<username, users, armed>>
  /\ work' = [work EXCEPT ![w].at = "frame", ![w].user = NoUser]
  /\ UNCHANGED <<conns, rooms, roomKeys, callbacks, added, doomed, signed>>

\* The callback of each descriptor that is sent to posts Write, unless its
\* write buffer was not empty.
Sent(fds) ==
  \E told \in SUBSET {fd \in fds : Listed(fd) /\ fd \in callbacks} :
    armed' = armed \cup told

\* The answer of handleAuth when there is no session.
AuthFails(w) ==
  /\ At(w, "frame")
  /\ Sent({work[w].fd})
  /\ UNCHANGED <<mapVars, added, doomed, work, signed>>

JoinRoom(w) ==
  /\ At(w, "frame") /\ Listed(work[w].fd)
  /\ \E r \in Rooms :
       /\ rooms' = [rooms EXCEPT ![r] = @ \cup {work[w].fd}]
       /\ roomKeys' = roomKeys \cup {r}
       /\ IF username[conns[work[w].fd]] = NoUser
            THEN UNCHANGED armed ELSE Sent(rooms'[r])
  /\ UNCHANGED <<conns, username, users, callbacks, added, doomed, work, signed>>

\* Nothing asks whether the connection is in the room it leaves.
LeaveRoom(w) ==
  /\ At(w, "frame")
  /\ \E r \in roomKeys :
       /\ rooms' = [rooms EXCEPT ![r] = @ \ {work[w].fd}]
       /\ roomKeys' = IF rooms'[r] = {} THEN roomKeys \ {r} ELSE roomKeys
       /\ IF Listed(work[w].fd) /\ username[conns[work[w].fd]] # NoUser
            THEN Sent(rooms[r]) ELSE UNCHANGED armed
  /\ UNCHANGED <<conns, username, users, callbacks, added, doomed, work, signed>>

\* handleChat: the sender's name is looked at under one lock, and the message
\* broadcast under the next.
CheckSender(w) ==
  /\ At(w, "frame") /\ Listed(work[w].fd)
  /\ Go(w, "chat")
  /\ UNCHANGED <<mapVars, loopVars, signed>>

BroadcastRoom(w) ==
  /\ At(w, "chat")
  /\ \/ \E r \in roomKeys : Sent(rooms[r])
     \/ UNCHANGED armed
  /\ Go(w, "frame")
  /\ UNCHANGED <<mapVars, added, doomed, signed>>

-----------------------------------------------------------------------------
SubReactors ==
  \E fd \in Fds :
    \/ RegisterCallback(fd) \/ AddConnection(fd)
    \/ RemoveConnection(fd) \/ RemoveNothing(fd)

Worker(w) ==
  \/ TakeEvent(w) \/ HandlerReturns(w)
  \/ FindSession(w) \/ Authenticate(w) \/ AuthFails(w)
  \/ JoinRoom(w) \/ LeaveRoom(w) \/ CheckSender(w) \/ BroadcastRoom(w)

Next == SubReactors \/ \E w \in Workers : Worker(w)

Spec == Init /\ [][Next]_vars

-----------------------------------------------------------------------------
Frames == [at : {"idle", "frame", "auth", "chat"}, fd : Fds \cup {None},
           conn : Conns \cup {None}, user : Users \cup {NoUser}]

\* A worker that handles a frame knows its connection and the descriptor, and
\* one that has found a session its user.
FrameOK(f) ==
  /\ f.at # "idle" => f.fd \in Fds /\ f.conn \in Conns
  /\ f.at = "auth" => f.user \in Users

TypeOK ==
  /\ conns \in [Fds -> Conns \cup {None}]
  /\ username \in [Conns -> Users \cup {NoUser}]
  /\ rooms \in [Rooms -> SUBSET Fds] /\ roomKeys \in SUBSET Rooms
  /\ users \in [Users -> SUBSET Fds] /\ callbacks \in SUBSET Fds
  /\ added \in 0 .. MaxConns
  /\ armed \in SUBSET Fds /\ doomed \in SUBSET Fds
  /\ work \in [Workers -> Frames] /\ \A w \in Workers : FrameOK(work[w])
  /\ signed \subseteq Conns \X Users

\* A room holds connections that exist, and has an entry while it holds one: a
\* broadcast finds every member, and no descriptor number inherits a room from
\* the connection that had the number before.
RoomMembersConnected ==
  \A r \in Rooms :
    /\ \A fd \in rooms[r] : Listed(fd)
    /\ rooms[r] # {} => r \in roomKeys

\* A message to a connection can always wake it up: from the moment that it is
\* in conns_ until it leaves, its callback is there.
CallbackForEach == \A fd \in Fds : Listed(fd) => fd \in callbacks

\* A connection that has a name is found under that name, whatever names it
\* had before, and with a new connection on its number.
NamedAreIndexed ==
  \A fd \in Fds :
    Listed(fd) /\ username[conns[fd]] # NoUser => fd \in users[username[conns[fd]]]

\* users_ lists the descriptors of a user and nothing else.
IndexExact ==
  \A u \in Users :
    users[u] = {fd \in Fds : Listed(fd) /\ username[conns[fd]] = u}

\* An empty room is deleted.
NoEmptyRoom == \A r \in roomKeys : rooms[r] # {}

\* A connection has the name of a user whose session it presented itself.
NamesOwn ==
  \A fd \in Fds :
    Listed(fd) /\ username[conns[fd]] # NoUser =>
      <<conns[fd], username[conns[fd]]>> \in signed
=============================================================================
