CONSTANTS
  w1 = w1
  w2 = w2
  room = room
  alice = alice
  bob = bob
  NoUser = NoUser
  Fds <- MCFds
  MaxConns = 2
  Workers <- MCWorkers
  Rooms <- MCOneRoom
  Users <- MCUsers
SPECIFICATION Spec
CHECK_DEADLOCK FALSE
INVARIANTS TypeOK RoomMembersConnected CallbackForEach NamedAreIndexed
SYMMETRY MCSymmetry
