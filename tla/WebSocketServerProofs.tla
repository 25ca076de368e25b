----------------------- MODULE WebSocketServerProofs -----------------------
(***************************************************************************)
(* What always holds of the maps of WebSocketServer, for any number of     *)
(* descriptors, workers, rooms and users: they stay consistent with each   *)
(* other although a worker may act for a descriptor that has changed hands *)
(* since the worker took its event.                                        *)
(***************************************************************************)
EXTENDS WebSocketServer, TLAPS

USE MaxConnsAssumption, NoUserAssumption DEF MaxConnsAssumption, NoUserAssumption

\* A connection object is behind one descriptor at most.
OneNumberEach ==
  \A f \in Fds, g \in Fds : Listed(f) /\ conns[f] = conns[g] => f = g

\* The objects in use are numbered up to added; those to come have no name.
FreshUnnamed ==
  /\ \A fd \in Fds : conns[fd] <= added
  /\ \A c \in Conns : c > added => username[c] = NoUser

Inv ==
  /\ TypeOK
  /\ RoomMembersConnected /\ CallbackForEach
  /\ OneNumberEach /\ FreshUnnamed /\ NamedAreIndexed

-----------------------------------------------------------------------------
(* Initial states. *)

LEMMA InitInv == Init => Inv
<1> SUFFICES ASSUME Init PROVE Inv
  OBVIOUS
<1> USE DEF Init
<1>1. TypeOK
  <2>1. 0 \in 0 .. MaxConns
    OBVIOUS
  <2>2. Idle \in Frames /\ FrameOK(Idle)
    BY DEF Idle, Frames, FrameOK
  <2>3. work \in [Workers -> Frames] /\ \A w \in Workers : FrameOK(work[w])
    BY <2>2
  <2>4. conns \in [Fds -> Conns \cup {None}]
    OBVIOUS
  <2>5. username \in [Conns -> Users \cup {NoUser}]
    OBVIOUS
  <2> QED
    BY <2>1, <2>3, <2>4, <2>5 DEF TypeOK
<1>2. RoomMembersConnected /\ CallbackForEach
  BY DEF RoomMembersConnected, CallbackForEach, Listed
<1>3. OneNumberEach /\ FreshUnnamed
  BY DEF OneNumberEach, FreshUnnamed, Listed, None, Conns
<1>4. NamedAreIndexed
  BY DEF NamedAreIndexed, Listed
<1> QED
  BY <1>1, <1>2, <1>3, <1>4 DEF Inv

-----------------------------------------------------------------------------
(* Types, action by action. *)

\* The descriptors that a message wakes up are descriptors.
LEMMA SentType ==
  ASSUME armed \in SUBSET Fds, NEW fds \in SUBSET Fds, Sent(fds)
  PROVE  armed' \in SUBSET Fds
BY DEF Sent

LEMMA ReactorType ==
  ASSUME TypeOK, SubReactors PROVE TypeOK'
<1> USE DEF TypeOK
<1>1. PICK fd \in Fds :
        \/ RegisterCallback(fd) \/ AddConnection(fd)
        \/ RemoveConnection(fd) \/ RemoveNothing(fd)
  BY DEF SubReactors
<1>2. CASE RegisterCallback(fd)
  BY <1>2 DEF RegisterCallback, loopVars
<1>3. CASE AddConnection(fd)
  <2>1. added + 1 \in Conns /\ added' \in 0 .. MaxConns
    BY <1>3 DEF AddConnection, Conns
  <2>2. conns' \in [Fds -> Conns \cup {None}]
    BY <1>3, <2>1 DEF AddConnection
  <2> QED
    BY <1>3, <2>1, <2>2 DEF AddConnection
<1>4. CASE RemoveConnection(fd)
  <2>1. conns' \in [Fds -> Conns \cup {None}]
    BY <1>4 DEF RemoveConnection
  <2>2. rooms' \in [Rooms -> SUBSET Fds]
    BY <1>4 DEF RemoveConnection
  <2>3. users' \in [Users -> SUBSET Fds]
    BY <1>4 DEF RemoveConnection
  <2> QED
    BY <1>4, <2>1, <2>2, <2>3 DEF RemoveConnection
<1>5. CASE RemoveNothing(fd)
  BY <1>5 DEF RemoveNothing, mapVars
<1> QED
  BY <1>1, <1>2, <1>3, <1>4, <1>5

\* A worker goes on to another place with the frame it has.
LEMMA GoType ==
  ASSUME TypeOK, NEW w \in Workers, NEW place \in {"frame", "chat"},
         ~At(w, "idle"), Go(w, place)
  PROVE  work' \in [Workers -> Frames] /\ \A v \in Workers : FrameOK(work'[v])
BY DEF TypeOK, At, Go, Frames, FrameOK

LEMMA WorkerType ==
  ASSUME TypeOK, NEW w \in Workers, Worker(w) PROVE TypeOK'
<1> USE DEF TypeOK, At
<1>0. work[w] \in Frames /\ FrameOK(work[w])
  OBVIOUS
<1>1. CASE TakeEvent(w)
  <2>1. PICK fd \in armed :
          /\ Listed(fd) /\ armed' = armed \ {fd}
          /\ work' = [work EXCEPT ![w] = [at |-> "frame", fd |-> fd,
                                          conn |-> conns[fd], user |-> NoUser]]
    BY <1>1 DEF TakeEvent
  <2>2. conns[fd] \in Conns
    BY <2>1 DEF Listed
  <2>3. [at |-> "frame", fd |-> fd, conn |-> conns[fd], user |-> NoUser] \in Frames
    BY <2>2 DEF Frames
  <2>4. work' \in [Workers -> Frames] /\ \A v \in Workers : FrameOK(work'[v])
    BY <2>1, <2>2, <2>3 DEF FrameOK
  <2> QED
    BY <1>1, <2>1, <2>4 DEF TakeEvent, mapVars
<1>2. CASE HandlerReturns(w)
  <2>1. Idle \in Frames /\ FrameOK(Idle)
    BY DEF Idle, Frames, FrameOK
  <2>2. work' \in [Workers -> Frames] /\ \A v \in Workers : FrameOK(work'[v])
    BY <1>2, <2>1 DEF HandlerReturns
  <2>3. armed' \in SUBSET Fds /\ doomed' \in SUBSET Fds
    BY <1>0, <1>2 DEF HandlerReturns, FrameOK
  <2> QED
    BY <1>2, <2>2, <2>3 DEF HandlerReturns, mapVars
<1>3. CASE FindSession(w)
  <2>1. PICK u \in Users :
          /\ work' = [work EXCEPT ![w].at = "auth", ![w].user = u]
          /\ signed' = signed \cup {<<work[w].conn, u>>}
    BY <1>3 DEF FindSession
  <2>2. work' \in [Workers -> Frames] /\ \A v \in Workers : FrameOK(work'[v])
    BY <1>0, <1>3, <2>1 DEF FindSession, Frames, FrameOK
  <2>3. signed' \subseteq Conns \X Users
    BY <1>0, <1>3, <2>1 DEF FindSession, FrameOK
  <2> QED
    BY <1>3, <2>2, <2>3 DEF FindSession, mapVars, loopVars
<1>4. CASE Authenticate(w)
  <2>1. work' \in [Workers -> Frames] /\ \A v \in Workers : FrameOK(work'[v])
    BY <1>0, <1>4 DEF Authenticate, Frames, FrameOK
  <2>2. work[w].fd \in Fds /\ work[w].user \in Users
    BY <1>0, <1>4 DEF Authenticate, FrameOK
  <2>3. CASE Listed(work[w].fd)
    <3>1. username' \in [Conns -> Users \cup {NoUser}]
      BY <1>4, <2>2, <2>3 DEF Authenticate
    <3>2. users' \in [Users -> SUBSET Fds]
      BY <1>4, <2>2, <2>3 DEF Authenticate
    <3>3. armed' \in SUBSET Fds
      BY <1>4, <2>2, <2>3 DEF Authenticate
    <3> QED
      BY <1>4, <2>1, <3>1, <3>2, <3>3 DEF Authenticate
  <2>4. CASE ~Listed(work[w].fd)
    BY <1>4, <2>1, <2>4 DEF Authenticate
  <2> QED
    BY <2>3, <2>4
<1>5. CASE AuthFails(w)
  <2>1. {work[w].fd} \in SUBSET Fds
    BY <1>0, <1>5 DEF AuthFails, FrameOK
  <2>2. armed' \in SUBSET Fds
    BY <1>5, <2>1, SentType DEF AuthFails
  <2> QED
    BY <1>5, <2>2 DEF AuthFails, mapVars
<1>6. CASE JoinRoom(w)
  <2>1. work[w].fd \in Fds
    BY <1>0, <1>6 DEF JoinRoom, FrameOK
  <2>2. PICK r \in Rooms :
          /\ rooms' = [rooms EXCEPT ![r] = @ \cup {work[w].fd}]
          /\ roomKeys' = roomKeys \cup {r}
          /\ armed' = armed \/ Sent(rooms'[r])
    BY <1>6 DEF JoinRoom
  <2>3. rooms' \in [Rooms -> SUBSET Fds]
    BY <2>1, <2>2
  <2>4. armed' \in SUBSET Fds
    BY <2>2, <2>3, SentType
  <2> QED
    BY <1>6, <2>2, <2>3, <2>4 DEF JoinRoom
<1>7. CASE LeaveRoom(w)
  <2>1. PICK r \in roomKeys :
          /\ rooms' = [rooms EXCEPT ![r] = @ \ {work[w].fd}]
          /\ roomKeys' = IF rooms'[r] = {} THEN roomKeys \ {r} ELSE roomKeys
          /\ armed' = armed \/ Sent(rooms[r])
    BY <1>7 DEF LeaveRoom
  <2>2. rooms' \in [Rooms -> SUBSET Fds]
    BY <2>1
  <2>3. armed' \in SUBSET Fds
    BY <2>1, SentType
  <2> QED
    BY <1>7, <2>1, <2>2, <2>3 DEF LeaveRoom
<1>8. CASE CheckSender(w)
  <2>1. work' \in [Workers -> Frames] /\ \A v \in Workers : FrameOK(work'[v])
    BY <1>8, GoType DEF CheckSender
  <2> QED
    BY <1>8, <2>1 DEF CheckSender, mapVars, loopVars
<1>9. CASE BroadcastRoom(w)
  <2>1. work' \in [Workers -> Frames] /\ \A v \in Workers : FrameOK(work'[v])
    BY <1>9, GoType DEF BroadcastRoom
  <2>2. armed' = armed \/ \E r \in roomKeys : Sent(rooms[r])
    BY <1>9 DEF BroadcastRoom
  <2>3. armed' \in SUBSET Fds
    BY <2>2, SentType
  <2> QED
    BY <1>9, <2>1, <2>3 DEF BroadcastRoom, mapVars
<1> QED
  BY <1>1, <1>2, <1>3, <1>4, <1>5, <1>6, <1>7, <1>8, <1>9 DEF Worker

LEMMA TypeStep == TypeOK /\ [Next]_vars => TypeOK'
<1> SUFFICES ASSUME TypeOK, [Next]_vars PROVE TypeOK'
  OBVIOUS
<1>1. CASE SubReactors
  BY <1>1, ReactorType
<1>2. CASE \E w \in Workers : Worker(w)
  BY <1>2, WorkerType
<1>3. CASE UNCHANGED vars
  BY <1>3 DEF TypeOK, vars, mapVars, loopVars
<1> QED
  BY <1>1, <1>2, <1>3 DEF Next

\* The types of the state.
THEOREM TypeCorrect == Spec => []TypeOK
<1>1. Init => TypeOK
  BY InitInv DEF Inv
<1> QED
  BY <1>1, TypeStep, PTL DEF Spec

-----------------------------------------------------------------------------
(* Rooms and callbacks. *)

\* The rooms, room by room, change by one descriptor at a time.
LEMMA MembersStep ==
  ASSUME TypeOK, RoomMembersConnected, [Next]_vars PROVE RoomMembersConnected'
<1> USE DEF RoomMembersConnected, Listed, TypeOK
<1>1. ASSUME NEW fd \in Fds, RegisterCallback(fd) PROVE RoomMembersConnected'
  BY <1>1 DEF RegisterCallback
<1>2. ASSUME NEW fd \in Fds, AddConnection(fd) PROVE RoomMembersConnected'
  BY <1>2 DEF AddConnection, None
<1>3. ASSUME NEW fd \in Fds, RemoveConnection(fd) PROVE RoomMembersConnected'
  <2>1. \A r \in Rooms : rooms'[r] = rooms[r] \ {fd}
    BY <1>3 DEF RemoveConnection
  <2>2. \A f \in Fds \ {fd} : conns'[f] = conns[f]
    BY <1>3 DEF RemoveConnection
  <2>3. roomKeys' = roomKeys
    BY <1>3 DEF RemoveConnection
  <2> QED
    BY <2>1, <2>2, <2>3
<1>4. ASSUME NEW fd \in Fds, RemoveNothing(fd) PROVE RoomMembersConnected'
  BY <1>4 DEF RemoveNothing, mapVars
<1>5. ASSUME NEW w \in Workers, JoinRoom(w) PROVE RoomMembersConnected'
  BY <1>5 DEF JoinRoom
<1>6. ASSUME NEW w \in Workers, LeaveRoom(w) PROVE RoomMembersConnected'
  <2>1. PICK r \in roomKeys :
          /\ rooms' = [rooms EXCEPT ![r] = @ \ {work[w].fd}]
          /\ roomKeys' = IF rooms'[r] = {} THEN roomKeys \ {r} ELSE roomKeys
    BY <1>6 DEF LeaveRoom
  <2>2. conns' = conns
    BY <1>6 DEF LeaveRoom
  <2> QED
    BY <2>1, <2>2
<1>7. ASSUME NEW w \in Workers,
             \/ TakeEvent(w) \/ HandlerReturns(w) \/ FindSession(w)
             \/ Authenticate(w) \/ AuthFails(w) \/ CheckSender(w)
             \/ BroadcastRoom(w)
      PROVE  RoomMembersConnected'
  <2>1. UNCHANGED <<conns, rooms, roomKeys>>
    BY <1>7 DEF TakeEvent, HandlerReturns, FindSession, Authenticate, AuthFails,
                CheckSender, BroadcastRoom, mapVars
  <2> QED
    BY <2>1
<1>8. CASE UNCHANGED vars
  BY <1>8 DEF vars, mapVars
<1> QED
  BY <1>1, <1>2, <1>3, <1>4, <1>5, <1>6, <1>7, <1>8
  DEF Next, SubReactors, Worker

LEMMA CallbackStep ==
  ASSUME TypeOK, CallbackForEach, [Next]_vars PROVE CallbackForEach'
<1> USE DEF CallbackForEach, Listed, TypeOK
<1>1. ASSUME NEW fd \in Fds, RegisterCallback(fd) PROVE CallbackForEach'
  BY <1>1 DEF RegisterCallback
<1>2. ASSUME NEW fd \in Fds, AddConnection(fd) PROVE CallbackForEach'
  BY <1>2 DEF AddConnection
<1>3. ASSUME NEW fd \in Fds, RemoveConnection(fd) PROVE CallbackForEach'
  BY <1>3 DEF RemoveConnection
<1>4. ASSUME NEW fd \in Fds, RemoveNothing(fd) PROVE CallbackForEach'
  BY <1>4 DEF RemoveNothing, mapVars
<1>5. ASSUME NEW w \in Workers, Worker(w) PROVE CallbackForEach'
  <2>1. UNCHANGED <<conns, callbacks>>
    BY <1>5 DEF Worker, TakeEvent, HandlerReturns, FindSession, Authenticate,
                AuthFails, JoinRoom, LeaveRoom, CheckSender, BroadcastRoom, mapVars
  <2> QED
    BY <2>1
<1>6. CASE UNCHANGED vars
  BY <1>6 DEF vars, mapVars
<1> QED
  BY <1>1, <1>2, <1>3, <1>4, <1>5, <1>6 DEF Next, SubReactors

-----------------------------------------------------------------------------
(* Names and the index of users. *)

\* A new connection has no name yet, and its object is not another's.
LEMMA NamesAdd ==
  ASSUME Inv, NEW fd \in Fds, AddConnection(fd)
  PROVE  OneNumberEach' /\ FreshUnnamed' /\ NamedAreIndexed'
<1> USE DEF Inv, TypeOK, Listed
<1>1. /\ conns' = [conns EXCEPT ![fd] = added + 1] /\ added' = added + 1
      /\ username' = username /\ users' = users /\ added < MaxConns
  BY DEF AddConnection
<1>2. added + 1 \in Conns /\ added \in Nat
  BY <1>1 DEF Conns
<1>3. \A f \in Fds : conns[f] # added + 1
  BY <1>2 DEF FreshUnnamed, Conns, None
<1>4. OneNumberEach'
  BY <1>1, <1>3 DEF OneNumberEach
<1>5. FreshUnnamed'
  BY <1>1, <1>2 DEF FreshUnnamed, Conns, None
<1>6. username[added + 1] = NoUser
  BY <1>2 DEF FreshUnnamed, Conns
<1>7. NamedAreIndexed'
  BY <1>1, <1>6 DEF NamedAreIndexed
<1> QED
  BY <1>4, <1>5, <1>7

\* What is removed from the index is the number that is removed from conns_.
LEMMA NamesRemove ==
  ASSUME Inv, NEW fd \in Fds, RemoveConnection(fd)
  PROVE  OneNumberEach' /\ FreshUnnamed' /\ NamedAreIndexed'
<1> USE DEF Inv, TypeOK, Listed
<1>1. /\ conns' = [conns EXCEPT ![fd] = None] /\ added' = added
      /\ username' = username
  BY DEF RemoveConnection
<1>2. \A u \in Users : users[u] \ {fd} \subseteq users'[u]
  BY DEF RemoveConnection
<1>3. OneNumberEach'
  BY <1>1 DEF OneNumberEach
<1>4. FreshUnnamed'
  BY <1>1 DEF FreshUnnamed, None
<1>5. NamedAreIndexed'
  BY <1>1, <1>2 DEF NamedAreIndexed
<1> QED
  BY <1>3, <1>4, <1>5

\* A name is set for the object behind the number, and the number is indexed.
LEMMA NamesAuthenticate ==
  ASSUME Inv, NEW w \in Workers, Authenticate(w)
  PROVE  OneNumberEach' /\ FreshUnnamed' /\ NamedAreIndexed'
<1> USE DEF Inv, TypeOK, Listed
<1>1. /\ work[w].fd \in Fds /\ work[w].user \in Users
      /\ conns' = conns /\ added' = added
  BY DEF Authenticate, At, FrameOK
<1>2. OneNumberEach'
  BY <1>1 DEF OneNumberEach
<1>3. CASE ~Listed(work[w].fd)
  BY <1>1, <1>2, <1>3 DEF Authenticate, FreshUnnamed, NamedAreIndexed
<1>4. CASE Listed(work[w].fd)
  <2> DEFINE fd == work[w].fd
             u  == work[w].user
  <2>1. /\ username' = [username EXCEPT ![conns[fd]] = u]
        /\ users' = [users EXCEPT ![u] = @ \cup {fd}]
    BY <1>4 DEF Authenticate
  <2>2. conns[fd] \in Conns /\ conns[fd] <= added
    BY <1>1, <1>4 DEF FreshUnnamed
  <2>3. FreshUnnamed'
    BY <1>1, <2>1, <2>2 DEF FreshUnnamed, Conns
  <2>4. ASSUME NEW g \in Fds, conns[g] # None, username'[conns[g]] # NoUser
        PROVE  g \in users'[username'[conns[g]]]
    <3>1. CASE g = fd
      BY <1>1, <2>1, <2>2, <3>1
    <3>2. CASE g # fd
      <4>1. conns[g] # conns[fd]
        BY <1>1, <2>4, <3>2 DEF OneNumberEach
      <4>2. username'[conns[g]] = username[conns[g]]
        BY <2>1, <2>4, <4>1
      <4>3. g \in users[username[conns[g]]] /\ username[conns[g]] \in Users
        BY <2>4, <4>2 DEF NamedAreIndexed
      <4> QED
        BY <1>1, <2>1, <4>2, <4>3
    <3> QED
      BY <3>1, <3>2
  <2>5. NamedAreIndexed'
    BY <1>1, <2>4 DEF NamedAreIndexed
  <2> QED
    BY <1>2, <2>3, <2>5
<1> QED
  BY <1>3, <1>4

LEMMA NamesStep ==
  ASSUME Inv, [Next]_vars
  PROVE  OneNumberEach' /\ FreshUnnamed' /\ NamedAreIndexed'
<1>1. CASE UNCHANGED <<conns, username, users, added>>
  BY <1>1 DEF Inv, OneNumberEach, FreshUnnamed, NamedAreIndexed, Listed
<1>2. ASSUME NEW fd \in Fds, RegisterCallback(fd) \/ RemoveNothing(fd)
      PROVE  UNCHANGED <<conns, username, users, added>>
  BY <1>2 DEF RegisterCallback, RemoveNothing, mapVars, loopVars
<1>3. ASSUME NEW w \in Workers, Worker(w), ~Authenticate(w)
      PROVE  UNCHANGED <<conns, username, users, added>>
  BY <1>3 DEF Worker, TakeEvent, HandlerReturns, FindSession, AuthFails, JoinRoom,
              LeaveRoom, CheckSender, BroadcastRoom, mapVars, loopVars
<1>4. UNCHANGED vars => UNCHANGED <<conns, username, users, added>>
  BY DEF vars, mapVars, loopVars
<1> QED
  BY <1>1, <1>2, <1>3, <1>4, NamesAdd, NamesRemove, NamesAuthenticate
  DEF Next, SubReactors

-----------------------------------------------------------------------------
\* The maps stay consistent with each other.
THEOREM InvHolds == Spec => []Inv
<1>1. Inv /\ [Next]_vars => Inv'
  BY TypeStep, MembersStep, CallbackStep, NamesStep DEF Inv
<1> QED
  BY <1>1, InitInv, PTL DEF Spec

\* joinRoom, leaveRoom and removeConnection keep rooms_ and conns_ together: a
\* broadcast finds every member of its room among the connections.
THEOREM RoomsConnected == Spec => []RoomMembersConnected
<1>1. Inv => RoomMembersConnected
  BY DEF Inv
<1> QED
  BY <1>1, InvHolds, PTL

\* The order of registerCallback and addConnection, and the single critical
\* section of removeConnection, leave no connection without a callback.
THEOREM CallbackThere == Spec => []CallbackForEach
<1>1. Inv => CallbackForEach
  BY DEF Inv
<1> QED
  BY <1>1, InvHolds, PTL

\* handleAuth and removeConnection keep users_ complete, also when a worker
\* gives the name to whoever has the descriptor by then.
THEOREM NamesIndexed == Spec => []NamedAreIndexed
<1>1. Inv => NamedAreIndexed
  BY DEF Inv
<1> QED
  BY <1>1, InvHolds, PTL
=============================================================================
