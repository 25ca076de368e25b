------------------------------- MODULE SqlPool -------------------------------
(***************************************************************************)
(* SqlConnectionPool: the database connections that the request handlers   *)
(* take with connectionRAII and give back when they return.  The list has  *)
(* a mutex and a condition variable; a handler that finds it empty sleeps  *)
(* with the mutex given up, and ReleaseConnection notifies one sleeper     *)
(* after it has unlocked.                                                  *)
(*                                                                         *)
(* Which thread asks, and when the pool is destroyed, is for the module    *)
(* that extends this one to say: Server.                                   *)
(***************************************************************************)
EXTENDS Integers, Sequences, FiniteSets

CONSTANTS Workers,   \* the threads that run handlers
          SqlConns,  \* the MYSQL objects that init opened
          NoSql      \* nullptr

ASSUME WorkersAssumption == IsFiniteSet(Workers) /\ Workers # {}
ASSUME SqlConnsAssumption == IsFiniteSet(SqlConns) /\ NoSql \notin SqlConns

VARIABLES
  connList,  \* the free connections
  freeConn,  \* m_FreeConn
  curConn,   \* m_CurConn
  open,      \* the connections that mysql_close has not closed
  place,     \* place[w]: "out"; in GetConnection "lock", "wait"; "has";
             \* in ReleaseConnection "notify"
  held       \* held[w]: the connection that the guard of w holds

sqlVars == <<connList, freeConn, curConn, open, place, held>>

Places == {"out", "lock", "wait", "has", "notify"}

In(p) == {w \in Workers : place[w] = p}
Holders == {w \in Workers : held[w] # NoSql}

IsListOf(q, S) == q \in [1 .. Cardinality(S) -> S] /\ {q[i] : i \in DOMAIN q} = S

\* init has opened every connection, or the program has exited.
SqlInit ==
  /\ IsListOf(connList, SqlConns)
  /\ freeConn = Cardinality(SqlConns) /\ curConn = 0
  /\ open = SqlConns
  /\ place = [w \in Workers |-> "out"]
  /\ held = [w \in Workers |-> NoSql]

SqlMove(w, from, to) == place[w] = from /\ place' = [place EXCEPT ![w] = to]

-----------------------------------------------------------------------------
\* The guard is constructed: GetConnection asks for the mutex.
Ask(w) ==
  /\ SqlMove(w, "out", "lock")
  /\ UNCHANGED <<connList, freeConn, curConn, open, held>>

\* The list is empty: the handler gives up the mutex and sleeps.
Sleep(w) ==
  /\ connList = <<>>
  /\ SqlMove(w, "lock", "wait")
  /\ UNCHANGED <<connList, freeConn, curConn, open, held>>

\* A condition variable may wake a thread for no reason.
WakeSpuriously(w) ==
  /\ SqlMove(w, "wait", "lock")
  /\ UNCHANGED <<connList, freeConn, curConn, open, held>>

\* Mutant: the front of the list is taken and left there.
GetConnectionPeek(w) ==
  /\ connList # <<>>
  /\ SqlMove(w, "lock", "has")
  /\ held' = [held EXCEPT ![w] = Head(connList)]
  /\ freeConn' = freeConn - 1 /\ curConn' = curConn + 1
  /\ UNCHANGED <<connList, open>>

GetConnection(w) ==
  /\ connList # <<>>
  /\ SqlMove(w, "lock", "has")
  /\ held' = [held EXCEPT ![w] = Head(connList)]
  /\ connList' = Tail(connList)
  /\ freeConn' = freeConn - 1 /\ curConn' = curConn + 1
  /\ UNCHANGED open

\* Mutant: a handler gives its connection back, and its guard does so again.
ReleaseConnectionTwice(w) ==
  /\ place[w] = "has" /\ place' \in {place, [place EXCEPT ![w] = "notify"]}
  /\ connList' = Append(connList, held[w])
  /\ held' = [held EXCEPT ![w] = NoSql]
  /\ freeConn' = freeConn + 1 /\ curConn' = curConn - 1
  /\ UNCHANGED open

\* The guard is destroyed: the connection goes to the end of the list.
ReleaseConnection(w) ==
  /\ SqlMove(w, "has", "notify")
  /\ connList' = Append(connList, held[w])
  /\ held' = [held EXCEPT ![w] = NoSql]
  /\ freeConn' = freeConn + 1 /\ curConn' = curConn - 1
  /\ UNCHANGED open

\* Mutant: nobody is notified.
NotifyNone(w) ==
  /\ SqlMove(w, "notify", "out")
  /\ UNCHANGED <<connList, freeConn, curConn, open, held>>

\* notify_one, when the mutex has been given up: any of the sleepers.
Notify(w) ==
  /\ place[w] = "notify"
  /\ IF In("wait") = {}
       THEN place' = [place EXCEPT ![w] = "out"]
       ELSE \E v \in In("wait") :
              place' = [place EXCEPT ![w] = "out", ![v] = "lock"]
  /\ UNCHANGED <<connList, freeConn, curConn, open, held>>

\* DestroyPool closes what is in the list, and no other connection.
DestroyPool ==
  /\ open' = open \ {connList[i] : i \in DOMAIN connList}
  /\ IF connList = <<>> THEN UNCHANGED <<freeConn, curConn>>
                        ELSE freeConn' = 0 /\ curConn' = 0
  /\ connList' = <<>>
  /\ UNCHANGED <<place, held>>

-----------------------------------------------------------------------------
SqlTypeOK ==
  /\ connList \in Seq(SqlConns)
  /\ freeConn \in Int /\ curConn \in Int
  /\ open \subseteq SqlConns
  /\ place \in [Workers -> Places]
  /\ held \in [Workers -> SqlConns \cup {NoSql}]

\* Every open connection is in the list once or in the hand of one handler, the
\* counters agree with that, and no handler has a connection that is closed.
ConnsAccounted ==
  /\ \A i, j \in DOMAIN connList : connList[i] = connList[j] => i = j
  /\ \A v, w \in Holders : held[v] = held[w] => v = w
  /\ {connList[i] : i \in DOMAIN connList} \cap {held[w] : w \in Holders} = {}
  /\ {connList[i] : i \in DOMAIN connList} \cup {held[w] : w \in Holders} = open
  /\ freeConn = Len(connList)
  /\ curConn = Cardinality(Holders)

\* While a handler sleeps, the free connections do not outnumber the handlers
\* that are about to look at the list and those that are about to notify one:
\* no connection is left in the list with everyone asleep.
NoSqlSleeper ==
  In("wait") # {} =>
    Len(connList) <= Cardinality(In("lock")) + Cardinality(In("notify"))
=============================================================================
