----------------------------- MODULE ServerProofs -----------------------------
(***************************************************************************)
(* For any number of workers, SubReactors, database connections and users: *)
(* the connections are accounted for and nobody sleeps beside a free one,  *)
(* the sessions are the ones that were opened and not closed, and when the *)
(* destructor ends every handler has ended and every connection is closed. *)
(* The types come last: they say how many sessions there can be.           *)
(*                                                                         *)
(* The first part is about SqlPool alone: what each operation of the pool  *)
(* of database connections preserves, whoever calls it.  The second puts   *)
(* the steps together: it is the server that decides who takes them, and   *)
(* when.                                                                   *)
(***************************************************************************)
EXTENDS Server, SequenceTheorems, FunctionTheorems, FiniteSetTheorems, TLAPS

USE DEF WorkersAssumption, SqlConnsAssumption
USE WorkersAssumption, SqlConnsAssumption

\* A handler holds a connection in one place only.
HoldersHave == \A w \in Workers : held[w] # NoSql <=> place[w] = "has"

SqlInv == SqlTypeOK /\ HoldersHave /\ ConnsAccounted /\ NoSqlSleeper

SqlStep(w) ==
  \/ Ask(w) \/ Sleep(w) \/ WakeSpuriously(w) \/ GetConnection(w)
  \/ ReleaseConnection(w) \/ Notify(w)

Listed == {connList[i] : i \in DOMAIN connList}
Given == {held[w] : w \in Holders}

-----------------------------------------------------------------------------
\* Taking the front of a list without repetition takes it out of its range.
LEMMA TailRange ==
  ASSUME NEW S, NEW q \in Seq(S), q # <<>>,
         \A i, j \in DOMAIN q : q[i] = q[j] => i = j
  PROVE  /\ Tail(q) \in Seq(S) /\ Head(q) \in S
         /\ Len(Tail(q)) = Len(q) - 1
         /\ \A i, j \in DOMAIN Tail(q) : Tail(q)[i] = Tail(q)[j] => i = j
         /\ {Tail(q)[i] : i \in DOMAIN Tail(q)} = {q[i] : i \in DOMAIN q} \ {Head(q)}
<1>1. /\ Len(q) \in Nat /\ Len(q) > 0 /\ DOMAIN q = 1 .. Len(q) /\ Head(q) = q[1]
      /\ Tail(q) \in Seq(S) /\ Head(q) \in S /\ Len(Tail(q)) = Len(q) - 1
      /\ \A i \in 1 .. Len(Tail(q)) : Tail(q)[i] = q[i + 1]
  BY HeadTailProperties, LenProperties, EmptySeq
<1>2. DOMAIN Tail(q) = 1 .. Len(q) - 1
  BY <1>1, LenProperties
<1>3. \A i, j \in DOMAIN Tail(q) : Tail(q)[i] = Tail(q)[j] => i = j
  BY <1>1, <1>2
<1>4. ASSUME NEW x PROVE x \in {Tail(q)[i] : i \in DOMAIN Tail(q)} <=> x \in {q[i] : i \in DOMAIN q} \ {Head(q)}
  <2>1. ASSUME NEW i \in DOMAIN Tail(q), x = Tail(q)[i]
        PROVE  x \in {q[j] : j \in DOMAIN q} \ {Head(q)}
    <3>1. i + 1 \in DOMAIN q /\ x = q[i + 1] /\ i + 1 # 1 /\ 1 \in DOMAIN q
      BY <1>1, <1>2, <2>1
    <3> QED BY <3>1, <1>1
  <2>2. ASSUME NEW i \in DOMAIN q, x = q[i], x # Head(q)
        PROVE  x \in {Tail(q)[j] : j \in DOMAIN Tail(q)}
    <3>1. i - 1 \in DOMAIN Tail(q) /\ Tail(q)[i - 1] = q[(i - 1) + 1] /\ (i - 1) + 1 = i
      BY <1>1, <1>2, <2>2
    <3> QED BY <3>1, <2>2
  <2> QED BY <2>1, <2>2
<1> QED BY <1>1, <1>3, <1>4

\* Appending adds to the range, and repeats nothing if the element is new.
LEMMA AppendRange ==
  ASSUME NEW S, NEW q \in Seq(S), NEW e \in S,
         \A i, j \in DOMAIN q : q[i] = q[j] => i = j,
         e \notin {q[i] : i \in DOMAIN q}
  PROVE  /\ Append(q, e) \in Seq(S) /\ Len(Append(q, e)) = Len(q) + 1
         /\ \A i, j \in DOMAIN Append(q, e) : Append(q, e)[i] = Append(q, e)[j] => i = j
         /\ {Append(q, e)[i] : i \in DOMAIN Append(q, e)} = {q[i] : i \in DOMAIN q} \cup {e}
<1> DEFINE a == Append(q, e)
<1>1. /\ a \in Seq(S) /\ Len(a) = Len(q) + 1 /\ Len(q) \in Nat /\ DOMAIN q = 1 .. Len(q)
      /\ DOMAIN a = 1 .. Len(q) + 1 /\ a[Len(q) + 1] = e
      /\ \A i \in 1 .. Len(q) : a[i] = q[i]
  BY AppendProperties, LenProperties
<1> HIDE DEF a
<1>2. \A i \in DOMAIN a : (i \in DOMAIN q /\ a[i] = q[i]) \/ (i = Len(q) + 1 /\ a[i] = e)
  BY <1>1
<1>3. \A i, j \in DOMAIN a : a[i] = a[j] => i = j
  BY <1>1, <1>2
<1>4. {a[i] : i \in DOMAIN a} = {q[i] : i \in DOMAIN q} \cup {e}
  <2>1. ASSUME NEW i \in DOMAIN a PROVE a[i] \in {q[j] : j \in DOMAIN q} \cup {e}
    BY <1>2
  <2>2. ASSUME NEW i \in DOMAIN q PROVE q[i] \in {a[j] : j \in DOMAIN a}
    <3>1. i \in DOMAIN a /\ a[i] = q[i]
      BY <1>1
    <3> QED BY <3>1
  <2>3. e \in {a[j] : j \in DOMAIN a}
    <3>1. Len(q) + 1 \in DOMAIN a
      BY <1>1
    <3> QED BY <3>1, <1>1
  <2> QED BY <2>1, <2>2, <2>3
<1> QED BY <1>1, <1>3, <1>4 DEF a

\* What a handler that moves does to the counts.
LEMMA MoveCounts ==
  ASSUME SqlTypeOK, NEW w \in Workers, NEW from, NEW to, from # to,
         to \in Places, SqlMove(w, from, to)
  PROVE  /\ In(from)' = In(from) \ {w} /\ In(to)' = In(to) \cup {w}
         /\ Cardinality(In(from))' = Cardinality(In(from)) - 1
         /\ Cardinality(In(to))' = Cardinality(In(to)) + 1
         /\ \A p : p # from /\ p # to => In(p)' = In(p)
<1>1. In(from)' = In(from) \ {w} /\ In(to)' = In(to) \cup {w} /\ w \in In(from) /\ w \notin In(to)
  BY DEF SqlTypeOK, SqlMove, In
<1>2. \A p : p # from /\ p # to => In(p)' = In(p)
  BY DEF SqlTypeOK, SqlMove, In
<1>3. IsFiniteSet(In(from)) /\ IsFiniteSet(In(to))
  BY FS_Subset DEF In
<1>4. Cardinality(In(from) \ {w}) = Cardinality(In(from)) - 1
  BY <1>1, <1>3, FS_RemoveElement
<1>5. Cardinality(In(to) \cup {w}) = Cardinality(In(to)) + 1
  BY <1>1, <1>3, FS_AddElement
<1> QED BY <1>1, <1>2, <1>4, <1>5

LEMMA CountsNat ==
  ASSUME NEW p
  PROVE  IsFiniteSet(In(p)) /\ Cardinality(In(p)) \in Nat
BY FS_Subset, FS_CardinalityType DEF In

-----------------------------------------------------------------------------
\* The types, and that a handler has a connection exactly in its place "has".
LEMMA StepKeepsTypes ==
  ASSUME SqlInv, NEW w \in Workers, SqlStep(w)
  PROVE  SqlTypeOK' /\ HoldersHave'
<1> USE DEF SqlInv, SqlTypeOK, HoldersHave, SqlMove, Places
<1>1. CASE Ask(w) \/ Sleep(w) \/ WakeSpuriously(w)
  BY <1>1 DEF Ask, Sleep, WakeSpuriously
<1>2. CASE GetConnection(w)
  <2>1. Head(connList) \in SqlConns /\ Tail(connList) \in Seq(SqlConns)
    BY <1>2, HeadTailProperties DEF GetConnection
  <2> QED BY <1>2, <2>1 DEF GetConnection
<1>3. CASE ReleaseConnection(w)
  <2>1. held[w] \in SqlConns
    BY <1>3 DEF ReleaseConnection
  <2>2. Append(connList, held[w]) \in Seq(SqlConns)
    BY <2>1, AppendProperties
  <2> QED BY <1>3, <2>2 DEF ReleaseConnection
<1>4. CASE Notify(w)
  BY <1>4 DEF Notify, In
<1> QED BY <1>1, <1>2, <1>3, <1>4 DEF SqlStep

\* Only taking and giving back touch what is accounted for.
LEMMA StepKeepsAccount ==
  ASSUME SqlInv, NEW w \in Workers, SqlStep(w)
  PROVE  ConnsAccounted'
<1> USE DEF SqlInv
<1>0. /\ connList \in Seq(SqlConns) /\ held \in [Workers -> SqlConns \cup {NoSql}]
      /\ IsFiniteSet(Holders) /\ Cardinality(Holders) \in Nat /\ Len(connList) \in Nat
  BY FS_Subset, FS_CardinalityType, LenProperties DEF Holders, SqlTypeOK
<1>1. CASE Ask(w) \/ Sleep(w) \/ WakeSpuriously(w) \/ Notify(w)
  <2>1. UNCHANGED <<connList, freeConn, curConn, open, held>>
    BY <1>1 DEF Ask, Sleep, WakeSpuriously, Notify
  <2>2. Holders' = Holders
    BY <2>1 DEF Holders
  <2> QED BY <2>1, <2>2 DEF ConnsAccounted
<1>2. CASE GetConnection(w)
  <2>1. w \notin Holders /\ connList # <<>> /\ connList' = Tail(connList)
        /\ held' = [held EXCEPT ![w] = Head(connList)] /\ open' = open
        /\ freeConn' = freeConn - 1 /\ curConn' = curConn + 1
    BY <1>2 DEF GetConnection, SqlMove, HoldersHave, Holders
  <2>2. /\ Head(connList) \in SqlConns /\ Len(connList') = Len(connList) - 1
        /\ \A i, j \in DOMAIN connList' : connList'[i] = connList'[j] => i = j
        /\ Listed' = Listed \ {Head(connList)}
    <3>1. \A i, j \in DOMAIN connList : connList[i] = connList[j] => i = j
      BY DEF ConnsAccounted
    <3>2. /\ Tail(connList) \in Seq(SqlConns) /\ Head(connList) \in SqlConns
          /\ Len(Tail(connList)) = Len(connList) - 1
          /\ \A i, j \in DOMAIN Tail(connList) :
               Tail(connList)[i] = Tail(connList)[j] => i = j
          /\ {Tail(connList)[i] : i \in DOMAIN Tail(connList)}
               = {connList[i] : i \in DOMAIN connList} \ {Head(connList)}
      BY <2>1, <3>1, <1>0, TailRange
    <3> QED BY <2>1, <3>2 DEF Listed
  <2>3. Head(connList) \in Listed
    <3>1. 1 \in DOMAIN connList /\ Head(connList) = connList[1]
      BY <2>1, <1>0, HeadTailProperties, LenProperties, EmptySeq
    <3> QED BY <3>1 DEF Listed
  <2>4. /\ Holders' = Holders \cup {w} /\ held'[w] = Head(connList)
        /\ \A v \in Holders : held'[v] = held[v] /\ v # w
    BY <2>1, <2>2, <1>0 DEF Holders
  <2>5. Given' = Given \cup {Head(connList)}
    BY <2>4 DEF Given
  <2>6. Listed \cap Given = {} /\ Listed \cup Given = open
    BY DEF ConnsAccounted, Listed, Given
  <2>7. Listed' \cap Given' = {} /\ Listed' \cup Given' = open'
    BY <2>1, <2>2, <2>3, <2>5, <2>6
  <2>8. \A u, v \in Holders' : held'[u] = held'[v] => u = v
    <3>1. \A v \in Holders : held[v] # Head(connList)
      BY <2>3, <2>6 DEF Given
    <3>2. \A u, v \in Holders : held[u] = held[v] => u = v
      BY DEF ConnsAccounted
    <3> QED BY <3>1, <3>2, <2>4
  <2>9. Cardinality(Holders') = Cardinality(Holders) + 1
    BY <2>1, <2>4, <1>0, FS_AddElement
  <2>10. freeConn = Len(connList) /\ curConn = Cardinality(Holders)
    BY DEF ConnsAccounted
  <2>11. freeConn' = Len(connList') /\ curConn' = Cardinality(Holders')
    BY <2>1, <2>2, <2>9, <2>10, <1>0
  <2> QED BY <2>2, <2>7, <2>8, <2>11 DEF ConnsAccounted, Listed, Given
<1>3. CASE ReleaseConnection(w)
  <2>1. w \in Holders /\ connList' = Append(connList, held[w]) /\ held[w] \in SqlConns
        /\ held' = [held EXCEPT ![w] = NoSql] /\ open' = open
        /\ freeConn' = freeConn + 1 /\ curConn' = curConn - 1
    BY <1>3, <1>0 DEF ReleaseConnection, SqlMove, HoldersHave, Holders
  <2>2. Listed \cap Given = {} /\ Listed \cup Given = open /\ held[w] \in Given
    BY <2>1 DEF ConnsAccounted, Listed, Given
  <2>3. /\ Len(connList') = Len(connList) + 1
        /\ \A i, j \in DOMAIN connList' : connList'[i] = connList'[j] => i = j
        /\ Listed' = Listed \cup {held[w]}
    BY <2>1, <2>2, <1>0, AppendRange DEF ConnsAccounted, Listed
  <2>4. Holders' = Holders \ {w} /\ \A v \in Holders' : held'[v] = held[v]
    BY <2>1, <1>0 DEF Holders
  <2>5. \A u, v \in Holders : held[u] = held[v] => u = v
    BY DEF ConnsAccounted
  <2>6. Given' = Given \ {held[w]}
    BY <2>1, <2>4, <2>5 DEF Given
  <2>7. Listed' \cap Given' = {} /\ Listed' \cup Given' = open'
    BY <2>1, <2>2, <2>3, <2>6
  <2>8. Cardinality(Holders') = Cardinality(Holders) - 1
    BY <2>1, <2>4, <1>0, FS_RemoveElement
  <2>9. freeConn = Len(connList) /\ curConn = Cardinality(Holders)
    BY DEF ConnsAccounted
  <2>10. freeConn' = Len(connList') /\ curConn' = Cardinality(Holders')
    BY <2>1, <2>3, <2>8, <2>9, <1>0
  <2>11. \A u, v \in Holders' : held'[u] = held'[v] => u = v
    BY <2>4, <2>5
  <2> QED BY <2>3, <2>7, <2>10, <2>11 DEF ConnsAccounted, Listed, Given
<1> QED BY <1>1, <1>2, <1>3 DEF SqlStep

\* A connection that is given back comes with a notification, and a handler that
\* is woken looks at the list before the next may sleep.
LEMMA StepKeepsSleeper ==
  ASSUME SqlInv, NEW w \in Workers, SqlStep(w)
  PROVE  NoSqlSleeper'
<1> USE DEF SqlInv
<1>0. /\ connList \in Seq(SqlConns) /\ Len(connList) \in Nat
      /\ Cardinality(In("lock")) \in Nat /\ Cardinality(In("notify")) \in Nat
  BY CountsNat, LenProperties DEF SqlTypeOK
<1>1. CASE Ask(w)
  <2>1. /\ In("wait")' = In("wait") /\ In("notify")' = In("notify")
        /\ Cardinality(In("lock"))' = Cardinality(In("lock")) + 1
    BY <1>1, MoveCounts DEF Ask, Places
  <2> QED BY <1>0, <1>1, <2>1 DEF Ask, NoSqlSleeper
<1>2. CASE Sleep(w)
  <2>1. Len(connList') = 0
    BY <1>2 DEF Sleep
  <2>2. Cardinality(In("lock"))' \in Nat /\ Cardinality(In("notify"))' \in Nat
    <3>1. Cardinality({v \in Workers : place'[v] = "lock"}) \in Nat
      BY FS_Subset, FS_CardinalityType
    <3>2. Cardinality({v \in Workers : place'[v] = "notify"}) \in Nat
      BY FS_Subset, FS_CardinalityType
    <3> QED BY <3>1, <3>2 DEF In
  <2> QED BY <2>1, <2>2 DEF NoSqlSleeper
<1>3. CASE WakeSpuriously(w)
  <2>1. /\ In("wait")' \subseteq In("wait") /\ In("notify")' = In("notify")
        /\ Cardinality(In("lock"))' = Cardinality(In("lock")) + 1
    BY <1>3, MoveCounts DEF WakeSpuriously, Places
  <2> QED BY <1>0, <1>3, <2>1 DEF WakeSpuriously, NoSqlSleeper
<1>4. CASE GetConnection(w)
  <2>1. /\ In("wait")' = In("wait") /\ In("notify")' = In("notify")
        /\ Cardinality(In("lock"))' = Cardinality(In("lock")) - 1
    BY <1>4, MoveCounts DEF GetConnection, Places
  <2>2. Len(connList') = Len(connList) - 1
    BY <1>0, <1>4, HeadTailProperties DEF GetConnection
  <2> QED BY <1>0, <2>1, <2>2 DEF NoSqlSleeper
<1>5. CASE ReleaseConnection(w)
  <2>1. /\ In("wait")' = In("wait") /\ In("lock")' = In("lock")
        /\ Cardinality(In("notify"))' = Cardinality(In("notify")) + 1
    BY <1>5, MoveCounts DEF ReleaseConnection, Places
  <2>2. held[w] \in SqlConns
    BY <1>5 DEF ReleaseConnection, SqlMove, HoldersHave, SqlTypeOK
  <2>3. Len(connList') = Len(connList) + 1
    BY <1>0, <1>5, <2>2, AppendProperties DEF ReleaseConnection
  <2> QED BY <1>0, <2>1, <2>3 DEF NoSqlSleeper
<1>6. CASE Notify(w)
  <2>1. CASE In("wait") = {}
    <3>1. SqlMove(w, "notify", "out")
      BY <1>6, <2>1 DEF Notify, SqlMove
    <3>2. In("wait")' = {}
      BY <2>1, <3>1, MoveCounts DEF Places
    <3> QED BY <3>2 DEF NoSqlSleeper
  <2>2. CASE In("wait") # {}
    <3>1. PICK v \in In("wait") : place' = [place EXCEPT ![w] = "out", ![v] = "lock"]
      BY <1>6, <2>2 DEF Notify
    <3>2. v \in Workers /\ place[v] = "wait" /\ place[w] = "notify" /\ v # w
      BY <1>6 DEF Notify, In
    <3>3. In("lock")' = In("lock") \cup {v} /\ v \notin In("lock")
      BY <3>1, <3>2 DEF In, SqlTypeOK
    <3>4. In("notify")' = In("notify") \ {w} /\ w \in In("notify")
      BY <3>1, <3>2 DEF In, SqlTypeOK
    <3>5. Cardinality(In("lock") \cup {v}) = Cardinality(In("lock")) + 1
      BY <3>3, CountsNat, FS_AddElement
    <3>6. Cardinality(In("notify") \ {w}) = Cardinality(In("notify")) - 1
      BY <3>4, CountsNat, FS_RemoveElement
    <3>7. connList' = connList
      BY <1>6 DEF Notify
    <3>8. /\ Cardinality(In("lock"))' = Cardinality(In("lock")) + 1
          /\ Cardinality(In("notify"))' = Cardinality(In("notify")) - 1
      BY <3>3, <3>4, <3>5, <3>6
    <3>9. Len(connList) <= Cardinality(In("lock")) + Cardinality(In("notify"))
      BY <2>2 DEF NoSqlSleeper
    <3>10. Len(connList') <= Cardinality(In("lock"))' + Cardinality(In("notify"))'
      BY <1>0, <3>7, <3>8, <3>9
    <3> QED BY <3>10 DEF NoSqlSleeper
  <2> QED BY <2>1, <2>2
<1> QED BY <1>1, <1>2, <1>3, <1>4, <1>5, <1>6 DEF SqlStep

\* Closing the list keeps the account, if nobody holds a connection, and then
\* every connection is closed.
LEMMA DestroyKeeps ==
  ASSUME SqlInv, Holders = {}, DestroyPool
  PROVE  SqlInv' /\ open' = {}
<1> USE DEF SqlInv
<1>1. connList' = <<>> /\ UNCHANGED <<place, held>> /\ Holders' = {}
  BY DEF DestroyPool, Holders
<1>2. Len(connList') = 0 /\ DOMAIN connList' = {} /\ connList' \in Seq(SqlConns)
  BY <1>1, EmptySeq
<1>3. open' = {}
  BY DEF DestroyPool, ConnsAccounted
<1>4. freeConn' = 0 /\ curConn' = 0
  <2>1. CASE connList = <<>>
    <3>1. Cardinality(Holders) = 0 /\ Len(connList) = 0
      BY <2>1, FS_EmptySet
    <3> QED BY <2>1, <3>1 DEF DestroyPool, ConnsAccounted
  <2>2. CASE connList # <<>>
    BY <2>2 DEF DestroyPool
  <2> QED BY <2>1, <2>2
<1>5. SqlTypeOK' /\ HoldersHave'
  BY <1>1, <1>2, <1>3, <1>4 DEF SqlTypeOK, HoldersHave
<1>6. ConnsAccounted'
  BY <1>1, <1>2, <1>3, <1>4, FS_EmptySet DEF ConnsAccounted
<1>7. NoSqlSleeper'
  <2>1. In("lock")' = In("lock") /\ In("notify")' = In("notify")
    BY <1>1 DEF In
  <2> QED BY <1>2, <2>1, CountsNat DEF NoSqlSleeper
<1> QED BY <1>3, <1>5, <1>6, <1>7

LEMMA InitHolds == SqlInit => SqlInv
<1> SUFFICES ASSUME SqlInit PROVE SqlInv
  OBVIOUS
<1> USE DEF SqlInit, IsListOf
<1>1. /\ Cardinality(SqlConns) \in Nat /\ connList \in Seq(SqlConns)
      /\ Len(connList) = Cardinality(SqlConns) /\ DOMAIN connList = 1 .. Cardinality(SqlConns)
  BY FS_CardinalityType, SeqDef, LenProperties
<1>2. Holders = {} /\ In("wait") = {}
  BY DEF Holders, In
<1>3. SqlTypeOK /\ HoldersHave
  BY <1>1 DEF SqlTypeOK, HoldersHave, Places
<1>4. \A i, j \in DOMAIN connList : connList[i] = connList[j] => i = j
  <2>1. IsFiniteSet(1 .. Cardinality(SqlConns))
        /\ Cardinality(1 .. Cardinality(SqlConns)) = Cardinality(SqlConns)
    BY ONLY <1>1, FS_Interval, 1 \in Int, Cardinality(SqlConns) \in Int
  <2>2. connList \in Surjection(1 .. Cardinality(SqlConns), SqlConns)
    BY <1>1 DEF Surjection
  <2>3. connList \in Injection(1 .. Cardinality(SqlConns), SqlConns)
    BY <2>1, <2>2, FS_SurjSameCardinalityImpliesInj
  <2> QED BY <1>1, <2>3, Fun_InjectionProperties
<1>5. ConnsAccounted
  BY <1>1, <1>2, <1>4, FS_EmptySet DEF ConnsAccounted
<1>6. NoSqlSleeper
  BY <1>2 DEF NoSqlSleeper
<1> QED BY <1>3, <1>5, <1>6 DEF SqlInv

-----------------------------------------------------------------------------
(* The server. *)

USE DEF NumReactorsAssumption, PipeAssumption, BoundsAssumption
USE NumReactorsAssumption, PipeAssumption, BoundsAssumption

JobRecords == [conn : Conns \cup {NoConn}, step : Steps, arg : Users \cup Nat]

\* A handler that has to do with a connection is one that asks for one, or one
\* that is about to answer.
PlaceInv ==
  \A w \in Workers :
    place[w] # "out" => job[w].step \in {"insert", "select", "store", "answer"}

JobInv ==
  /\ queue \in Seq(Conns)
  /\ job \in [Workers -> JobRecords]
  /\ PlaceInv

\* Who has ended when: the SubReactors before the pool is told to stop, the
\* workers after it, and with an empty queue.
Ending == mpc \in {"delete", "join", "close", "done", "crashed"}

EndInv ==
  /\ Ending => \A r \in Reactors : ~Looping(r)
  /\ (\E r \in Reactors : rpc[r] = "deleted") => Ending
  /\ poolStop => mpc \in {"join", "close", "done", "crashed"}
  /\ (\E w \in Workers : job[w].step = "exited") => poolStop /\ queue = <<>>
  /\ mpc \in {"close", "done"} => \A w \in Workers : job[w] = Gone
  /\ mpc = "done" => open = {}

\* The ids that exist are those that login has drawn, and the answers, the
\* clients and the logouts know no others.
Drawn == 1 .. Cardinality(logins)

DataInv ==
  /\ IsFiniteSet(logins) /\ logins \subseteq Drawn \X Users
  /\ known \subseteq Drawn /\ logouts \subseteq Drawn
  /\ \A w \in Workers :
       /\ job[w].step \in {"insert", "select"} => job[w].arg \in Users
       /\ job[w].step = "store" => job[w].arg \in users \cap Users
       /\ job[w].step = "erase" => job[w].arg \in Drawn
       /\ job[w].step = "answer" => job[w].arg \in Drawn \cup {0}
  /\ SessionsRight

ReactorTypes ==
  /\ rpc \in [Reactors -> {"poll", "batch", "ended", "deleted"}]
  /\ turn \in Nat

-----------------------------------------------------------------------------
\* What every step does to the database connections.
LEMMA SqlOfStep ==
  ASSUME [Next]_vars
  PROVE  \/ UNCHANGED sqlVars
         \/ \E w \in Workers : SqlStep(w)
         \/ ClosePool
<1> USE DEF SqlStep, sqlVars
<1>1. CASE \E w \in Workers : Connect(w) \/ Disconnect(w) \/ SpuriousWake(w)
  BY <1>1 DEF Connect, Disconnect, SpuriousWake
<1>2. CASE Alarm \/ Signal \/ Accept \/ LoopEnds
  BY <1>2 DEF Alarm, Signal, Raise, Interrupt, Accept, Give, LoopEnds
<1>3. CASE MainStep
  BY <1>3 DEF MainStep, Give, HandleSignal, Tell, Told, LoopEnds, JoinReactors,
              DeleteReactor, StopPool, JoinWorkers
<1>4. CASE \E r \in Reactors : ReactorStep(r) \/ \E c \in Conns : Dispatch(r, c)
  BY ZenonT(40), <1>4 DEF ReactorStep, ReadPipe, RunTasks, LoopTest, Dispatch
<1>5. ASSUME NEW w \in Workers,
             \/ TakeJob(w) \/ Insert(w) \/ Select(w) \/ StoreSession(w)
             \/ EraseSession(w) \/ PostAnswer(w) \/ ExitWorker(w)
      PROVE  UNCHANGED sqlVars
  BY <1>5 DEF TakeJob, Insert, Select, StoreSession, EraseSession, PostAnswer, ExitWorker
<1>6. CASE UNCHANGED vars
  BY <1>6 DEF vars
<1> QED BY <1>1, <1>2, <1>3, <1>4, <1>5, <1>6 DEF Next, WorkerStep

\* The main reactor and the loops of the SubReactors touch no handler and none of
\* the data, but for the queue that Dispatch appends to.
LEMMA OtherSteps ==
  ASSUME [Next]_vars
  PROVE  \/ UNCHANGED <<queue, job, place, dataVars>>
         \/ \E r \in Reactors, c \in Conns : Dispatch(r, c)
         \/ \E w \in Workers : WorkerStep(w) \/ SpuriousWake(w)
<1>1. CASE Alarm \/ Signal \/ Accept \/ LoopEnds
  BY <1>1 DEF Alarm, Signal, Raise, Interrupt, Accept, Give, LoopEnds, poolVars, sqlVars
<1>2. CASE MainStep
  BY <1>2 DEF MainStep, Give, HandleSignal, Tell, Told, LoopEnds, JoinReactors,
              DeleteReactor, StopPool, JoinWorkers, ClosePool, DestroyPool, poolVars, sqlVars
<1>3. CASE \E r \in Reactors : ReactorStep(r)
  BY <1>3 DEF ReactorStep, ReadPipe, RunTasks, LoopTest, poolVars, sqlVars
<1>4. CASE UNCHANGED vars
  BY <1>4 DEF vars, poolVars, sqlVars
<1> QED BY <1>1, <1>2, <1>3, <1>4 DEF Next

\* A job that is taken, and the end of one.
LEMMA JobsKeepRecords ==
  ASSUME JobInv, NEW w \in Workers, NEW rec \in JobRecords,
         job' = [job EXCEPT ![w] = rec]
  PROVE  /\ job' \in [Workers -> JobRecords] /\ job'[w] = rec
         /\ \A v \in Workers \ {w} : job'[v] = job[v]
BY DEF JobInv

\* A handler goes from one step to the next: the job keeps its type.
LEMMA StepKeepsRecords ==
  ASSUME JobInv, NEW w \in Workers, NEW from, NEW to \in Steps,
         NEW arg \in Users \cup Nat, Step(w, from, to, arg)
  PROVE  /\ job' \in [Workers -> JobRecords]
         /\ job'[w].step = to /\ job'[w].arg = arg /\ job'[w].conn = job[w].conn
         /\ \A v \in Workers \ {w} : job'[v] = job[v]
<1>1. job[w] \in JobRecords
  BY DEF JobInv
<1>2. job' = [job EXCEPT ![w] = [conn |-> job[w].conn, step |-> to, arg |-> arg]]
  BY <1>1 DEF Step, JobInv, JobRecords
<1> DEFINE rec == [conn |-> job[w].conn, step |-> to, arg |-> arg]
<1>3. rec \in JobRecords
  BY <1>1 DEF JobRecords
<1>4. /\ job' \in [Workers -> JobRecords] /\ job'[w] = rec
      /\ \A v \in Workers \ {w} : job'[v] = job[v]
  BY <1>2, <1>3, JobsKeepRecords
<1>5. rec.step = to /\ rec.arg = arg /\ rec.conn = job[w].conn
  OBVIOUS
<1> QED BY <1>4, <1>5

LEMMA JobInvKept ==
  ASSUME SqlTypeOK, JobInv, DataInv, [Next]_vars
  PROVE  JobInv'
<1> USE DEF PlaceInv
<1>0. Cardinality(logins) \in Nat /\ Drawn \subseteq Nat
      /\ Idle \in JobRecords /\ Gone \in JobRecords /\ Gone.step = "exited"
      /\ Idle.step = "idle"
  BY FS_CardinalityType DEF DataInv, Drawn, Idle, Gone, JobRecords, Steps
<1>1. CASE UNCHANGED <<queue, job, place, dataVars>>
  BY <1>1 DEF JobInv
<1>2. ASSUME NEW r \in Reactors, NEW c \in Conns, Dispatch(r, c)
      PROVE  JobInv'
  <2>1. queue' \in Seq(Conns)
    BY <1>2, AppendProperties DEF Dispatch, JobInv
  <2> QED BY <1>2, <2>1 DEF Dispatch, JobInv, sqlVars
<1>3. ASSUME NEW w \in Workers, TakeJob(w) PROVE JobInv'
  <2>1. queue' \in Seq(Conns) /\ Head(queue) \in Conns
    BY <1>3, HeadTailProperties DEF TakeJob, JobInv
  <2>2. PICK rec \in JobRecords : job' = [job EXCEPT ![w] = rec]
    <3>1. \A step \in Steps, arg \in Users \cup Nat :
            [conn |-> Head(queue), step |-> step, arg |-> arg] \in JobRecords
      BY <2>1 DEF JobRecords
    <3>2. known \subseteq Nat
      BY <1>0 DEF DataInv
    <3> QED BY <1>3, <3>1, <3>2 DEF TakeJob, Steps
  <2>3. place' = place /\ place[w] = "out"
    BY <1>3 DEF TakeJob, sqlVars, JobInv
  <2> QED BY <2>1, <2>2, <2>3, JobsKeepRecords DEF JobInv
<1>4. ASSUME NEW w \in Workers, Connect(w) PROVE JobInv'
  <2>1. UNCHANGED <<queue, job>> /\ \A v \in Workers \ {w} : place'[v] = place[v]
    BY <1>4 DEF Connect, poolVars, Ask, Sleep, GetConnection, SqlMove, SqlTypeOK
  <2> QED BY <1>4, <2>1 DEF Connect, JobInv
<1>5. ASSUME NEW w \in Workers, SpuriousWake(w) PROVE JobInv'
  BY <1>5 DEF SpuriousWake, WakeSpuriously, SqlMove, poolVars, JobInv, SqlTypeOK
<1>6. ASSUME NEW w \in Workers, NEW from, NEW to \in Steps, NEW arg \in Users \cup Nat,
             Step(w, from, to, arg), UNCHANGED <<queue, place>>,
             place[w] = "out" \/ to \in {"insert", "select", "store", "answer"}
      PROVE  JobInv'
  BY ZenonT(40), <1>6, StepKeepsRecords DEF JobInv
<1>7. ASSUME NEW w \in Workers, Insert(w) PROVE JobInv'
  BY <1>6, <1>7, "answer" \in Steps DEF Insert, sqlVars, Steps
<1>8. ASSUME NEW w \in Workers, Select(w) PROVE JobInv'
  <2>1. job[w].arg \in Users \cup Nat
    BY DEF JobInv, JobRecords
  <2> QED BY <1>6, <1>8, <2>1 DEF Select, sqlVars, Steps
<1>9. ASSUME NEW w \in Workers, StoreSession(w) PROVE JobInv'
  BY <1>0, <1>6, <1>9 DEF StoreSession, sqlVars, Steps
<1>10. ASSUME NEW w \in Workers, EraseSession(w) PROVE JobInv'
  BY <1>6, <1>10 DEF EraseSession, sqlVars, Steps
<1>11. ASSUME NEW w \in Workers, Disconnect(w) PROVE JobInv'
  <2>1. UNCHANGED <<queue, job>> /\ job[w].step = "answer"
    BY <1>11 DEF Disconnect, poolVars
  <2>2. \A v \in Workers \ {w} : place'[v] = "out" \/ place[v] # "out"
    BY <1>11 DEF Disconnect, ReleaseConnection, Notify, In, SqlMove, SqlTypeOK
  <2> QED BY <2>1, <2>2 DEF JobInv
<1>12. ASSUME NEW w \in Workers, PostAnswer(w) \/ ExitWorker(w) PROVE JobInv'
  <2>1. PICK rec \in JobRecords : job' = [job EXCEPT ![w] = rec]
    BY <1>0, <1>12 DEF PostAnswer, ExitWorker
  <2>2. UNCHANGED <<queue, place>> /\ place[w] = "out"
    BY <1>12 DEF PostAnswer, ExitWorker, sqlVars, JobInv
  <2> QED BY <2>1, <2>2, JobsKeepRecords DEF JobInv
<1> QED
  BY <1>1, <1>2, <1>3, <1>4, <1>5, <1>7, <1>8, <1>9, <1>10, <1>11, <1>12, OtherSteps
  DEF WorkerStep

\* What the main thread and the loops of the SubReactors do.
LEMMA ReactorTypesKept == ReactorTypes /\ [Next]_vars => ReactorTypes'
<1> SUFFICES ASSUME ReactorTypes, [Next]_vars PROVE ReactorTypes'
  OBVIOUS
<1> USE DEF ReactorTypes, mainVars, loopVars
<1>1. CASE Alarm \/ Signal \/ Accept \/ LoopEnds
  BY <1>1 DEF Alarm, Signal, Raise, Interrupt, Accept, Give, Write, LoopEnds
<1>2. CASE MainStep
  <2>1. CASE Give(accepted + 1) \/ HandleSignal \/ Tell \/ Told \/ LoopEnds
    BY <2>1 DEF Give, Write, HandleSignal, Tell, Told, LoopEnds
  <2>2. CASE JoinReactors \/ DeleteReactor \/ StopPool \/ JoinWorkers \/ ClosePool
    BY <2>2 DEF JoinReactors, DeleteReactor, StopPool, JoinWorkers, ClosePool
  <2> QED BY <1>2, <2>1, <2>2 DEF MainStep
<1>3. CASE \E r \in Reactors : ReactorStep(r) \/ \E c \in Conns : Dispatch(r, c)
  BY <1>3 DEF ReactorStep, ReadPipe, RunTasks, LoopTest, Dispatch
<1>4. ASSUME NEW w \in Workers, WorkerStep(w) \/ SpuriousWake(w) PROVE ReactorTypes'
  BY <1>4 DEF WorkerStep, TakeJob, Connect, Insert, Select, StoreSession, EraseSession,
              Disconnect, PostAnswer, ExitWorker, SpuriousWake
<1>5. CASE UNCHANGED vars
  BY <1>5 DEF vars
<1> QED BY <1>1, <1>2, <1>3, <1>4, <1>5 DEF Next

\* When every worker has gone, nobody holds a connection.
LEMMA GoneHoldNothing ==
  ASSUME HoldersHave, JobInv, \A w \in Workers : job[w] = Gone
  PROVE  Holders = {}
BY DEF HoldersHave, JobInv, PlaceInv, Gone, Idle, Holders

LEMMA EndInvKept ==
  ASSUME SqlInv, JobInv, ReactorTypes, EndInv, [Next]_vars
  PROVE  EndInv'
<1> USE DEF EndInv, Ending, poolVars, sqlVars
<1>0. Gone.step = "exited"
  BY DEF Gone, Idle
<1>1. ASSUME ~Ending, ~Ending', UNCHANGED <<rpc, queue, poolStop, job>>
      PROVE  EndInv'
  BY <1>1
<1>2. CASE Alarm \/ Signal
  BY <1>2 DEF Alarm, Signal, Raise, Interrupt, loopVars, Looping
<1>3. CASE Accept \/ LoopEnds \/ HandleSignal \/ Tell \/ Told
           \/ (mpc = "give" /\ Give(accepted + 1))
  BY <1>1, <1>3 DEF Accept, Give, Write, loopVars, LoopEnds, HandleSignal, Tell, Told, Go
<1>4. CASE JoinReactors
  BY <1>4 DEF JoinReactors, Go, Looping, loopVars
<1>5. CASE DeleteReactor
  BY <1>5 DEF DeleteReactor, Looping, ReactorTypes
<1>6. CASE StopPool
  BY <1>6 DEF StopPool, Go, Looping, loopVars
<1>7. CASE JoinWorkers
  BY <1>7 DEF JoinWorkers, Go, Looping, loopVars
<1>8. CASE ClosePool
  <2>1. open' = {}
    BY <1>8, GoneHoldNothing, DestroyKeeps DEF ClosePool, Go, SqlInv
  <2> QED BY <1>8, <2>1 DEF ClosePool, Go, Looping, loopVars
<1>9. ASSUME NEW r \in Reactors, Looping(r), rpc'[r] # "deleted", mpc' = mpc,
             \A q \in Reactors \ {r} : rpc'[q] = rpc[q], UNCHANGED <<poolStop, job>>
      PROVE  EndInv'
  BY <1>9
<1>10. ASSUME NEW r \in Reactors, ReactorStep(r) \/ \E c \in Conns : Dispatch(r, c)
       PROVE  EndInv'
  <2>1. Looping(r)
    BY <1>10 DEF ReactorStep, ReadPipe, RunTasks, LoopTest, Dispatch, Looping
  <2>2. mpc' = mpc /\ UNCHANGED <<poolStop, job>>
    BY <1>10 DEF ReactorStep, ReadPipe, RunTasks, LoopTest, Dispatch, mainVars
  <2>3. rpc'[r] # "deleted" /\ \A q \in Reactors \ {r} : rpc'[q] = rpc[q]
    BY <1>10 DEF ReactorStep, ReadPipe, RunTasks, LoopTest, Dispatch, ReactorTypes
  <2> QED BY <1>9, <1>10, <2>1, <2>2, <2>3
<1>11. ASSUME NEW w \in Workers, Connect(w) \/ Disconnect(w) \/ SpuriousWake(w)
       PROVE  EndInv'
  <2>1. UNCHANGED <<mainVars, loopVars, poolVars, open>>
    BY <1>11 DEF Connect, Disconnect, SpuriousWake, Ask, Sleep, GetConnection,
                 ReleaseConnection, Notify, WakeSpuriously
  <2> QED BY <2>1 DEF mainVars, loopVars, Looping
<1>12. ASSUME NEW w \in Workers, job[w].step # "exited", job'[w].step # "exited",
              \A v \in Workers \ {w} : job'[v] = job[v],
              mpc' = mpc \/ (mpc' = "crashed" /\ Ending),
              UNCHANGED <<rpc, poolStop>>, queue' = queue \/ queue # <<>>
       PROVE  EndInv'
  BY <1>0, <1>12 DEF Looping
<1>13. ASSUME NEW w \in Workers,
              \/ Insert(w) \/ Select(w) \/ StoreSession(w) \/ EraseSession(w)
       PROVE  EndInv'
  <2>1. PICK arg : \E to, from \in Steps \ {"exited"} : Step(w, from, to, arg)
    BY <1>13 DEF Insert, Select, StoreSession, EraseSession, Steps
  <2>2. /\ job[w].step # "exited" /\ job'[w].step # "exited"
        /\ \A v \in Workers \ {w} : job'[v] = job[v]
    BY <2>1 DEF Step, JobInv
  <2> QED
    BY <1>12, <1>13, <2>2
    DEF Insert, Select, StoreSession, EraseSession, mainVars, loopVars
<1>14. ASSUME NEW w \in Workers, TakeJob(w) \/ PostAnswer(w) PROVE EndInv'
  <2>1. /\ job[w].step # "exited" /\ job'[w].step # "exited"
        /\ \A v \in Workers \ {w} : job'[v] = job[v]
    BY <1>14 DEF TakeJob, PostAnswer, JobInv, Idle
  <2>2. mpc' = mpc \/ (mpc' = "crashed" /\ Ending)
    <3>1. CASE TakeJob(w)
      BY <3>1 DEF TakeJob, mainVars
    <3>2. CASE PostAnswer(w)
      <4>1. job[w].conn \in Int
        BY DEF JobInv, JobRecords, Conns, NoConn
      <4>2. Home(job[w].conn) \in Reactors
        BY <4>1 DEF Home, Reactors
      <4> QED BY <3>2, <4>2 DEF PostAnswer
    <3> QED BY <1>14, <3>1, <3>2
  <2> QED BY <1>12, <1>14, <2>1, <2>2 DEF TakeJob, PostAnswer, mainVars, loopVars
<1>15. ASSUME NEW w \in Workers, ExitWorker(w) PROVE EndInv'
  <2>1. /\ job[w].step # "exited" /\ UNCHANGED <<mpc, rpc, queue, poolStop>>
        /\ poolStop /\ queue = <<>>
    BY <1>15 DEF ExitWorker, mainVars, loopVars
  <2> QED BY <1>0, <2>1 DEF Looping
<1>16. CASE UNCHANGED vars
  BY <1>16 DEF vars, mainVars, loopVars, Looping
<1> QED
  BY <1>2, <1>3, <1>4, <1>5, <1>6, <1>7, <1>8, <1>10, <1>11, <1>13, <1>14, <1>15, <1>16
  DEF Next, MainStep, WorkerStep

-----------------------------------------------------------------------------
\* The id that login draws is new: to the sessions, the clients and the logouts.
LEMMA LoginKeepsData ==
  ASSUME JobInv, DataInv, NEW w \in Workers, StoreSession(w)
  PROVE  DataInv'
<1> DEFINE n == Cardinality(logins)
           new == <<n + 1, job[w].arg>>
<1> USE DEF DataInv
<1>1. n \in Nat /\ n + 1 \notin Drawn /\ n + 1 \in Users \cup Nat
  BY FS_CardinalityType DEF Drawn
<1>2. /\ Step(w, "store", "answer", n + 1) /\ logins' = logins \cup {new}
      /\ sessions' = {s \in sessions : s[1] # n + 1} \cup {new}
      /\ UNCHANGED <<users, known, logouts>>
  BY DEF StoreSession
<1>3. job[w].step = "store" /\ job[w].arg \in users \cap Users
  BY <1>2 DEF Step
<1>4. /\ job'[w].step = "answer" /\ job'[w].arg = n + 1
      /\ \A v \in Workers \ {w} : job'[v] = job[v]
  BY ZenonT(40), <1>1, <1>2, StepKeepsRecords DEF Steps
<1>5. new \notin logins /\ \A s \in logins : s[1] # n + 1
  BY <1>1
<1>6. IsFiniteSet(logins') /\ Cardinality(logins') = n + 1
  BY <1>2, <1>5, FS_AddElement
<1>7. Drawn' = Drawn \cup {n + 1}
  BY <1>1, <1>6 DEF Drawn
<1>8. new \in Drawn' \X Users /\ new[1] = n + 1 /\ new[2] \in users
  BY <1>3, <1>7
<1>9. logins' \subseteq Drawn' \X Users
  BY <1>2, <1>7, <1>8
<1>10. SessionsRight'
  <2>1. sessions' = {s \in logins' : s[1] \notin logouts'}
    BY <1>1, <1>2, <1>5, <1>8 DEF SessionsRight
  <2>2. \A s, t \in logins' : s[1] = t[1] => s = t
    BY <1>2, <1>5, <1>8 DEF SessionsRight
  <2>3. \A s \in logins' : s[2] \in users'
    BY <1>2, <1>8 DEF SessionsRight
  <2> QED BY <2>1, <2>2, <2>3 DEF SessionsRight
<1>11. \A v \in Workers :
         /\ job'[v].step \in {"insert", "select"} => job'[v].arg \in Users
         /\ job'[v].step = "store" => job'[v].arg \in users' \cap Users
         /\ job'[v].step = "erase" => job'[v].arg \in Drawn'
         /\ job'[v].step = "answer" => job'[v].arg \in Drawn' \cup {0}
  BY <1>2, <1>4, <1>7
<1> QED BY <1>2, <1>6, <1>7, <1>9, <1>10, <1>11

\* An id that is logged out opens nothing from then on.
LEMMA LogoutKeepsData ==
  ASSUME JobInv, DataInv, NEW w \in Workers, EraseSession(w)
  PROVE  DataInv'
<1> USE DEF DataInv
<1>1. /\ Step(w, "erase", "answer", 0) /\ sessions' = {s \in sessions : s[1] # job[w].arg}
      /\ logouts' = logouts \cup {job[w].arg} /\ UNCHANGED <<users, logins, known>>
  BY DEF EraseSession
<1>2. Drawn' = Drawn /\ job[w].arg \in Drawn
  BY <1>1 DEF Step, Drawn
<1>3. /\ job'[w].step = "answer" /\ job'[w].arg = 0
      /\ \A v \in Workers \ {w} : job'[v] = job[v]
  BY SMTT(40), <1>1, StepKeepsRecords DEF Steps
<1>4. SessionsRight'
  BY <1>1 DEF SessionsRight
<1> QED BY <1>1, <1>2, <1>3, <1>4

LEMMA DataInvKept ==
  ASSUME SqlTypeOK, JobInv, DataInv, [Next]_vars
  PROVE  DataInv'
<1> USE DEF DataInv
<1>1. ASSUME UNCHANGED <<job, users, sessions, logins, known, logouts>> PROVE DataInv'
  BY <1>1 DEF Drawn, SessionsRight
<1>2. ASSUME NEW r \in Reactors, NEW c \in Conns, Dispatch(r, c) PROVE DataInv'
  BY <1>1, <1>2 DEF Dispatch, dataVars
<1>3. ASSUME NEW w \in Workers, Connect(w) \/ Disconnect(w) \/ SpuriousWake(w)
      PROVE  DataInv'
  BY <1>1, <1>3 DEF Connect, Disconnect, SpuriousWake, poolVars, dataVars
<1>4. ASSUME NEW w \in Workers, TakeJob(w) PROVE DataInv'
  <2>1. PICK rec : /\ job' = [job EXCEPT ![w] = rec]
                   /\ \/ rec.step = "answer" /\ rec.arg = 0
                      \/ rec.step \in {"insert", "select"} /\ rec.arg \in Users
                      \/ rec.step = "erase" /\ rec.arg \in known
    BY ZenonT(40), <1>4 DEF TakeJob
  <2>2. UNCHANGED <<users, sessions, logins, known, logouts>> /\ Drawn' = Drawn
    BY <1>4 DEF TakeJob, dataVars, Drawn
  <2>3. SessionsRight'
    BY <2>2 DEF SessionsRight
  <2>4. job'[w] = rec /\ \A v \in Workers \ {w} : job'[v] = job[v]
    BY <2>1 DEF JobInv
  <2> QED BY <2>1, <2>2, <2>3, <2>4
<1>5. ASSUME NEW w \in Workers, Insert(w) PROVE DataInv'
  <2>1. /\ users \subseteq users' /\ UNCHANGED <<sessions, logins, known, logouts>>
        /\ Drawn' = Drawn /\ Step(w, "insert", "answer", 0)
    BY <1>5 DEF Insert, Drawn
  <2>2. /\ job'[w].step = "answer" /\ job'[w].arg = 0
        /\ \A v \in Workers \ {w} : job'[v] = job[v]
    BY ZenonT(40), <2>1, StepKeepsRecords DEF Steps
  <2>3. SessionsRight'
    BY <2>1 DEF SessionsRight
  <2> QED BY <2>1, <2>2, <2>3
<1>6. ASSUME NEW w \in Workers, Select(w) PROVE DataInv'
  <2>1. UNCHANGED <<users, sessions, logins, known, logouts>> /\ Drawn' = Drawn
    BY <1>6 DEF Select, dataVars, Drawn
  <2>2. SessionsRight'
    BY <2>1 DEF SessionsRight
  <2>3. CASE Step(w, "select", "answer", 0)
    <3>1. /\ job'[w].step = "answer" /\ job'[w].arg = 0
          /\ \A v \in Workers \ {w} : job'[v] = job[v]
      BY ZenonT(40), <2>3, StepKeepsRecords DEF Steps
    <3> QED BY <2>1, <2>2, <3>1
  <2>4. CASE Step(w, "select", "store", job[w].arg) /\ job[w].arg \in users
    <3>1. job[w].step = "select" /\ job[w].arg \in users \cap Users
      BY <2>4 DEF Step
    <3>2. /\ job'[w].step = "store" /\ job'[w].arg = job[w].arg
          /\ \A v \in Workers \ {w} : job'[v] = job[v]
      BY SMTT(40), <2>4, <3>1, StepKeepsRecords DEF Steps
    <3> QED BY <2>1, <2>2, <3>1, <3>2
  <2> QED BY <1>6, <2>3, <2>4 DEF Select
<1>7. ASSUME NEW w \in Workers, PostAnswer(w) PROVE DataInv'
  <2>1. /\ job' = [job EXCEPT ![w] = Idle] /\ job[w].step = "answer"
        /\ known' = known \cup ({job[w].arg} \ {0})
        /\ UNCHANGED <<users, sessions, logins, logouts>> /\ Drawn' = Drawn
    BY <1>7 DEF PostAnswer, Drawn
  <2>2. job'[w].step = "idle" /\ \A v \in Workers \ {w} : job'[v] = job[v]
    BY <2>1 DEF JobInv, Idle
  <2>3. known' \subseteq Drawn'
    BY <2>1
  <2>4. SessionsRight'
    BY <2>1 DEF SessionsRight
  <2> QED BY <2>1, <2>2, <2>3, <2>4
<1>8. ASSUME NEW w \in Workers, ExitWorker(w) PROVE DataInv'
  <2>1. /\ job' = [job EXCEPT ![w] = Gone] /\ Drawn' = Drawn
        /\ UNCHANGED <<users, sessions, logins, known, logouts>>
    BY <1>8 DEF ExitWorker, dataVars, Drawn
  <2>2. job'[w].step = "exited" /\ \A v \in Workers \ {w} : job'[v] = job[v]
    BY <2>1 DEF JobInv, Gone, Idle
  <2>3. SessionsRight'
    BY <2>1 DEF SessionsRight
  <2> QED BY <2>1, <2>2, <2>3
<1> QED
  BY <1>1, <1>2, <1>3, <1>4, <1>5, <1>6, <1>7, <1>8, LoginKeepsData, LogoutKeepsData,
     OtherSteps
  DEF WorkerStep, dataVars

-----------------------------------------------------------------------------
(* The types, which bound how many sessions there can be. *)

\* The requests that may still open a session once they are with a worker.
Pending == {w \in Workers : job[w].step \in {"select", "store"}}

\* Each request opens one session at most.
Budget == Cardinality(logins) + Cardinality(Pending) + Len(queue) <= jobs

HandlerTypes ==
  /\ jobs \in 0 .. MaxJobs /\ users \subseteq Users
  /\ \A w \in Workers :
       IF job[w].step \in {"idle", "exited"} THEN job[w].arg = 0
       ELSE job[w].conn \in Conns

MainTypes ==
  /\ mpc \in {"loop", "give", "tick", "stop", "destroy", "delete", "join", "close",
              "done", "crashed"}
  /\ turn \in 1 .. NumReactors + 1
  /\ raised \in 0 .. MaxEvents + 1 /\ accepted \in 0 .. MaxEvents
  /\ mpc = "give" => accepted < MaxEvents
  /\ sigs \in Seq({Stop, Tick})
  /\ alarm \in BOOLEAN /\ stop \in BOOLEAN /\ poolStop \in BOOLEAN
  /\ pipe \in [Reactors -> Seq(Conns \cup {Stop, Tick})]
  /\ \A r \in Reactors : Len(pipe[r]) <= PipeCap
  /\ conn \in [Conns -> {"none", "dispatched", "armed", "busy"}]
  /\ tasks \in [Reactors -> SUBSET Conns]

\* How the number of pending requests changes with the job of one worker.
LEMMA PendingStep ==
  ASSUME NEW w \in Workers, \A v \in Workers \ {w} : job'[v] = job[v]
  PROVE  /\ Cardinality(Pending) \in Nat /\ Cardinality(Pending') \in Nat
         /\ (w \in Pending <=> w \in Pending') => Cardinality(Pending') = Cardinality(Pending)
         /\ w \in Pending /\ w \notin Pending' =>
              Cardinality(Pending') = Cardinality(Pending) - 1
         /\ w \notin Pending => Cardinality(Pending') <= Cardinality(Pending) + 1
<1>1. IsFiniteSet(Pending) /\ IsFiniteSet(Pending')
  BY FS_Subset DEF Pending
<1>2. Cardinality(Pending) \in Nat /\ Cardinality(Pending') \in Nat
  BY <1>1, FS_CardinalityType
<1>3. Pending' \ {w} = Pending \ {w}
  BY DEF Pending
<1>4. (w \in Pending <=> w \in Pending') => Pending' = Pending
  BY <1>3
<1>5. CASE w \in Pending /\ w \notin Pending'
  <2>1. Pending' = Pending \ {w}
    BY <1>3, <1>5
  <2> QED BY <1>1, <1>2, <1>5, <2>1, FS_RemoveElement
<1>6. CASE w \notin Pending
  <2>1. Pending' = Pending \/ Pending' = Pending \cup {w}
    BY <1>3, <1>6
  <2>2. Cardinality(Pending \cup {w}) = Cardinality(Pending) + 1
    BY <1>1, <1>6, FS_AddElement
  <2>3. Cardinality(Pending') <= Cardinality(Pending) + 1
    <3>1. CASE Pending' = Pending
      BY <1>2, <3>1
    <3>2. CASE Pending' = Pending \cup {w}
      BY <1>2, <2>2, <3>2
    <3> QED BY <2>1, <3>1, <3>2
  <2> QED BY <1>2, <1>4, <1>6, <2>3
<1> QED BY <1>2, <1>4, <1>5, <1>6

\* A request is counted in the queue, with its worker, or as the session it opened.
LEMMA BudgetKept ==
  ASSUME JobInv, DataInv, HandlerTypes, Budget, [Next]_vars
  PROVE  Budget' /\ jobs' \in 0 .. MaxJobs
<1>0. /\ Cardinality(logins) \in Nat /\ Len(queue) \in Nat /\ jobs \in Nat
      /\ jobs \in 0 .. MaxJobs /\ queue \in Seq(Conns)
  BY FS_CardinalityType, LenProperties DEF DataInv, JobInv, HandlerTypes
<1>1. UNCHANGED <<logins, job, queue, jobs>> => Budget' /\ jobs' \in 0 .. MaxJobs
  BY <1>0 DEF Budget, Pending
<1>2. ASSUME NEW r \in Reactors, NEW c \in Conns, Dispatch(r, c)
      PROVE  Budget' /\ jobs' \in 0 .. MaxJobs
  <2>1. /\ UNCHANGED <<logins, job>> /\ jobs' = jobs + 1 /\ jobs < MaxJobs
        /\ queue' = Append(queue, c)
    BY <1>2 DEF Dispatch, dataVars
  <2>2. Pending' = Pending /\ Len(queue') = Len(queue) + 1
    BY <1>0, <2>1, AppendProperties DEF Pending
  <2>3. Cardinality(Pending) \in Nat
    BY FS_Subset, FS_CardinalityType DEF Pending
  <2>4. Budget'
    BY <1>0, <2>1, <2>2, <2>3 DEF Budget
  <2> QED BY <1>0, <2>1, <2>4
<1>3. ASSUME NEW w \in Workers, TakeJob(w)
      PROVE  Budget' /\ jobs' \in 0 .. MaxJobs
  <2>1. /\ UNCHANGED <<logins, jobs>> /\ queue # <<>> /\ queue' = Tail(queue)
        /\ job[w].step = "idle" /\ \A v \in Workers \ {w} : job'[v] = job[v]
    BY <1>3 DEF TakeJob, dataVars, JobInv
  <2>2. Len(queue') = Len(queue) - 1
    BY <1>0, <2>1, HeadTailProperties
  <2>3. w \notin Pending
    BY <2>1 DEF Pending
  <2>4. /\ Cardinality(Pending) \in Nat /\ Cardinality(Pending') \in Nat
        /\ Cardinality(Pending') <= Cardinality(Pending) + 1
    BY <2>1, <2>3, PendingStep
  <2>5. Budget'
    BY <1>0, <2>1, <2>2, <2>4 DEF Budget
  <2> QED BY <1>0, <2>1, <2>5
<1>4. ASSUME NEW w \in Workers, NEW from, NEW to \in Steps, NEW arg \in Users \cup Nat,
             Step(w, from, to, arg), UNCHANGED <<logins, queue, jobs>>,
             to \in {"select", "store"} => from \in {"select", "store"}
      PROVE  Budget' /\ jobs' \in 0 .. MaxJobs
  <2>1. /\ job[w].step = from /\ job'[w].step = to
        /\ \A v \in Workers \ {w} : job'[v] = job[v]
    BY ZenonT(40), <1>4, StepKeepsRecords DEF Step
  <2>2. w \in Pending' => w \in Pending
    BY <1>4, <2>1 DEF Pending
  <2>3. /\ Cardinality(Pending) \in Nat /\ Cardinality(Pending') \in Nat
        /\ Cardinality(Pending') <= Cardinality(Pending)
    BY <2>1, <2>2, PendingStep
  <2>4. Budget'
    BY <1>0, <1>4, <2>3 DEF Budget
  <2> QED BY <1>0, <1>4, <2>4
<1>5. ASSUME NEW w \in Workers, Insert(w) \/ EraseSession(w) \/ Select(w)
      PROVE  Budget' /\ jobs' \in 0 .. MaxJobs
  <2>1. UNCHANGED <<logins, queue, jobs>> /\ job[w].arg \in Users \cup Nat
    BY <1>5 DEF Insert, EraseSession, Select, dataVars, JobInv, JobRecords
  <2> QED BY <1>4, <1>5, <2>1 DEF Insert, EraseSession, Select, Steps
<1>6. ASSUME NEW w \in Workers, StoreSession(w)
      PROVE  Budget' /\ jobs' \in 0 .. MaxJobs
  <2> DEFINE id == Cardinality(logins) + 1
  <2>1. /\ Step(w, "store", "answer", id) /\ UNCHANGED <<queue, jobs>>
        /\ logins' = logins \cup {<<id, job[w].arg>>}
    BY <1>6 DEF StoreSession
  <2>2. Cardinality(logins') <= Cardinality(logins) + 1 /\ Cardinality(logins') \in Nat
    <3>1. IsFiniteSet(logins)
      BY DEF DataInv
    <3>2. \/ Cardinality(logins') = Cardinality(logins)
          \/ Cardinality(logins') = Cardinality(logins) + 1
      BY <2>1, <3>1, FS_AddElement
    <3> QED BY <1>0, <3>2
  <2>3. /\ job[w].step = "store" /\ job'[w].step = "answer"
        /\ \A v \in Workers \ {w} : job'[v] = job[v]
    <3>1. id \in Users \cup Nat /\ "answer" \in Steps
      BY <1>0 DEF Steps
    <3> HIDE DEF id
    <3> QED BY ZenonT(40), <2>1, <3>1, StepKeepsRecords DEF Step
  <2>4. w \in Pending /\ w \notin Pending'
    BY <2>3 DEF Pending
  <2>5. /\ Cardinality(Pending) \in Nat
        /\ Cardinality(Pending') = Cardinality(Pending) - 1
    BY <2>3, <2>4, PendingStep
  <2>6. Budget'
    BY <1>0, <2>1, <2>2, <2>5 DEF Budget
  <2> QED BY <1>0, <2>1, <2>6
<1>7. ASSUME NEW w \in Workers, PostAnswer(w) \/ ExitWorker(w)
      PROVE  Budget' /\ jobs' \in 0 .. MaxJobs
  <2>1. /\ UNCHANGED <<logins, queue, jobs>>
        /\ job[w].step \in {"answer", "idle"} /\ job'[w].step \in {"idle", "exited"}
        /\ \A v \in Workers \ {w} : job'[v] = job[v]
    BY <1>7 DEF PostAnswer, ExitWorker, dataVars, JobInv, Idle, Gone
  <2>2. w \notin Pending /\ w \notin Pending'
    BY <2>1 DEF Pending
  <2>3. Cardinality(Pending') = Cardinality(Pending)
    BY <2>1, <2>2, PendingStep
  <2>4. Budget'
    BY <1>0, <2>1, <2>3 DEF Budget
  <2> QED BY <1>0, <2>1, <2>4
<1>8. \/ UNCHANGED <<logins, job, queue, jobs>>
      \/ \E r \in Reactors, c \in Conns : Dispatch(r, c)
      \/ \E w \in Workers : WorkerStep(w)
  <2>1. CASE Alarm \/ Signal \/ Accept \/ LoopEnds
    BY <2>1 DEF Alarm, Signal, Raise, Interrupt, Accept, Give, LoopEnds, poolVars, dataVars
  <2>2. CASE MainStep
    BY <2>2 DEF MainStep, Give, HandleSignal, Tell, Told, LoopEnds, JoinReactors,
                DeleteReactor, StopPool, JoinWorkers, ClosePool, poolVars, dataVars
  <2>3. CASE \E r \in Reactors : ReactorStep(r)
    BY <2>3 DEF ReactorStep, ReadPipe, RunTasks, LoopTest, poolVars, dataVars
  <2>4. CASE (\E w \in Workers : SpuriousWake(w)) \/ UNCHANGED vars
    BY <2>4 DEF SpuriousWake, vars, poolVars, dataVars
  <2> QED BY <2>1, <2>2, <2>3, <2>4 DEF Next
<1>9. ASSUME NEW w \in Workers, Connect(w) \/ Disconnect(w)
       PROVE  UNCHANGED <<logins, job, queue, jobs>>
  BY <1>9 DEF Connect, Disconnect, poolVars, dataVars
<1> QED
  BY <1>1, <1>2, <1>3, <1>5, <1>6, <1>7, <1>8, <1>9 DEF WorkerStep

\* A handler has the connection it was queued with until it has answered.
LEMMA HandlerTypesKept ==
  ASSUME JobInv, DataInv, HandlerTypes, Budget, [Next]_vars
  PROVE  HandlerTypes'
<1>0. jobs' \in 0 .. MaxJobs
  BY BudgetKept
<1>1. ASSUME UNCHANGED <<job, users>> PROVE HandlerTypes'
  BY <1>0, <1>1 DEF HandlerTypes
<1>2. ASSUME NEW w \in Workers, \A v \in Workers \ {w} : job'[v] = job[v],
             users' \subseteq Users,
             IF job'[w].step \in {"idle", "exited"} THEN job'[w].arg = 0
             ELSE job'[w].conn \in Conns
      PROVE  HandlerTypes'
  BY <1>0, <1>2 DEF HandlerTypes
<1>3. ASSUME NEW w \in Workers, NEW from, NEW to \in Steps, NEW arg \in Users \cup Nat,
             Step(w, from, to, arg), users' \subseteq Users,
             from \notin {"idle", "exited"}, to \notin {"idle", "exited"}
      PROVE  HandlerTypes'
  <2>1. /\ job[w].step = from /\ job'[w].step = to /\ job'[w].conn = job[w].conn
        /\ \A v \in Workers \ {w} : job'[v] = job[v]
    BY ZenonT(40), <1>3, StepKeepsRecords DEF Step
  <2>2. job[w].conn \in Conns
    BY <1>3, <2>1 DEF HandlerTypes
  <2> QED BY <1>2, <1>3, <2>1, <2>2
<1>4. ASSUME NEW w \in Workers, TakeJob(w) PROVE HandlerTypes'
  <2>1. Head(queue) \in Conns
    BY <1>4, HeadTailProperties DEF TakeJob, JobInv
  <2>2. users' = users
    BY <1>4 DEF TakeJob, dataVars
  <2>3. /\ \A v \in Workers \ {w} : job'[v] = job[v]
        /\ job'[w].conn = Head(queue) /\ job'[w].step \notin {"idle", "exited"}
    BY <1>4 DEF TakeJob, JobInv
  <2> QED BY <1>2, <2>1, <2>2, <2>3 DEF HandlerTypes
<1>5. ASSUME NEW w \in Workers, Insert(w) PROVE HandlerTypes'
  <2>1. Step(w, "insert", "answer", 0) /\ users' \in {users, users \cup {job[w].arg}}
    BY <1>5 DEF Insert
  <2>2. job[w].arg \in Users
    BY <2>1 DEF Step, DataInv
  <2>3. users' \subseteq Users /\ "answer" \in Steps /\ 0 \in Users \cup Nat
    BY <2>1, <2>2 DEF Steps, HandlerTypes
  <2> QED BY <1>3, <2>1, <2>3
<1>6. ASSUME NEW w \in Workers, EraseSession(w) \/ Select(w) PROVE HandlerTypes'
  <2>1. users' \subseteq Users /\ job[w].arg \in Users \cup Nat
    BY <1>6 DEF EraseSession, Select, dataVars, HandlerTypes, JobInv, JobRecords
  <2> QED BY ZenonT(40), <1>3, <1>6, <2>1 DEF EraseSession, Select, Steps
<1>7. ASSUME NEW w \in Workers, StoreSession(w) PROVE HandlerTypes'
  <2> DEFINE id == Cardinality(logins) + 1
  <2>1. Step(w, "store", "answer", id) /\ users' = users
    BY <1>7 DEF StoreSession
  <2>2. id \in Users \cup Nat /\ "answer" \in Steps
    BY FS_CardinalityType DEF DataInv, Steps
  <2> HIDE DEF id
  <2> QED BY <1>3, <2>1, <2>2 DEF HandlerTypes
<1>8. ASSUME NEW w \in Workers, PostAnswer(w) \/ ExitWorker(w) PROVE HandlerTypes'
  <2>1. /\ users' = users /\ job'[w].step \in {"idle", "exited"} /\ job'[w].arg = 0
        /\ \A v \in Workers \ {w} : job'[v] = job[v]
    BY <1>8 DEF PostAnswer, ExitWorker, dataVars, JobInv, Idle, Gone
  <2> QED BY <1>2, <2>1 DEF HandlerTypes
<1>9. ASSUME NEW w \in Workers, Connect(w) \/ Disconnect(w) \/ SpuriousWake(w)
      PROVE  UNCHANGED <<job, users>>
  BY <1>9 DEF Connect, Disconnect, SpuriousWake, poolVars, dataVars
<1>10. ASSUME NEW r \in Reactors, NEW c \in Conns, Dispatch(r, c)
       PROVE  UNCHANGED <<job, users>>
  BY <1>10 DEF Dispatch, dataVars
<1> QED
  BY <1>1, <1>4, <1>5, <1>6, <1>7, <1>8, <1>9, <1>10, OtherSteps DEF WorkerStep, dataVars

\* A connection has a SubReactor.
LEMMA HomeType ==
  ASSUME NEW c \in Int
  PROVE  Home(c) \in Reactors
  BY DEF Home, Reactors

\* A message is written when the pipe has room for it.
LEMMA WriteTypes ==
  ASSUME MainTypes, NEW r \in Reactors, NEW m \in Conns \cup {Stop, Tick}, Write(r, m)
  PROVE  /\ pipe' \in [Reactors -> Seq(Conns \cup {Stop, Tick})]
         /\ \A q \in Reactors : Len(pipe'[q]) <= PipeCap
         /\ tasks' = tasks
<1> DEFINE M == Conns \cup {Stop, Tick}
<1>1. pipe[r] \in Seq(M) /\ Len(pipe[r]) \in Nat /\ Len(pipe[r]) < PipeCap
  BY LenProperties DEF Write, MainTypes
<1>2. Append(pipe[r], m) \in Seq(M) /\ Len(Append(pipe[r], m)) = Len(pipe[r]) + 1
  BY <1>1, AppendProperties
<1>3. Len(Append(pipe[r], m)) <= PipeCap
  BY <1>1, <1>2
<1> HIDE DEF M
<1>4. /\ pipe' = [pipe EXCEPT ![r] = Append(pipe[r], m)] /\ tasks' = tasks
      /\ pipe \in [Reactors -> Seq(M)]
  BY DEF Write, MainTypes, M
<1>5. pipe' \in [Reactors -> Seq(M)]
  BY <1>2, <1>4
<1>6. \A q \in Reactors : Len(pipe'[q]) <= PipeCap
  BY <1>3, <1>4 DEF MainTypes
<1> QED BY <1>4, <1>5, <1>6 DEF M

\* The main thread, the pipes and the loops, action by action.
LEMMA MainTypesKept ==
  ASSUME JobInv, HandlerTypes, MainTypes, [Next]_vars
  PROVE  MainTypes'
<1>t. /\ turn \in Int /\ 1 <= turn /\ turn <= NumReactors + 1
      /\ accepted \in Nat /\ accepted <= MaxEvents /\ raised \in Nat /\ raised <= MaxEvents + 1
      /\ sigs \in Seq({Stop, Tick})
      /\ pipe \in [Reactors -> Seq(Conns \cup {Stop, Tick})]
      /\ tasks \in [Reactors -> SUBSET Conns]
      /\ conn \in [Conns -> {"none", "dispatched", "armed", "busy"}]
  BY DEF MainTypes
<1>a. ASSUME accepted < MaxEvents, Give(accepted + 1)
      PROVE  MainTypes'
  <2>1. accepted + 1 \in Conns /\ accepted + 1 \in 0 .. MaxEvents
        /\ Home(accepted + 1) \in Reactors
    BY <1>a, <1>t, HomeType DEF Conns
  <2>2. /\ pipe' \in [Reactors -> Seq(Conns \cup {Stop, Tick})]
        /\ \A q \in Reactors : Len(pipe'[q]) <= PipeCap
        /\ tasks' = tasks
    BY <1>a, <2>1, WriteTypes DEF Give
  <2>3. /\ mpc' = "loop" /\ accepted' = accepted + 1
        /\ conn' = [conn EXCEPT ![accepted + 1] = "dispatched"]
        /\ UNCHANGED <<turn, sigs, alarm, raised, stop, poolStop>>
    BY <1>a DEF Give, poolVars
  <2> QED BY <2>1, <2>2, <2>3 DEF MainTypes
<1>b. UNCHANGED <<mainVars, loopVars, poolStop>> => MainTypes'
  BY DEF MainTypes, mainVars, loopVars
<1>c. ASSUME NEW m \in {Stop, Tick}, Raise(m), accepted + raised <= MaxEvents, alarm' \in BOOLEAN
      PROVE  MainTypes'
  <2>1. sigs' \in Seq({Stop, Tick})
    <3>1. Append(sigs, m) \in Seq({Stop, Tick}) /\ <<>> \in Seq({Stop, Tick})
      BY <1>t, AppendProperties
    <3> QED BY <1>c, <3>1 DEF Raise
  <2>2. raised' \in 0 .. MaxEvents + 1
    BY <1>c, <1>t DEF Raise
  <2>3. /\ mpc' \in {mpc, "loop"} /\ turn' \in 1 .. NumReactors + 1
        /\ accepted' \in 0 .. MaxEvents
        /\ mpc' = "give" => accepted' < MaxEvents
    <3>1. CASE UNCHANGED <<mpc, turn, accepted>>
      BY <3>1 DEF MainTypes
    <3>2. CASE Blocked /\ mpc = "give" /\ mpc' = "loop" /\ accepted' = accepted + 1 /\ turn' = turn
      BY <3>2, <1>t DEF MainTypes
    <3>3. CASE /\ Blocked /\ mpc # "give"
               /\ turn' = turn + 1 /\ mpc' = mpc /\ accepted' = accepted
      BY <3>3, <1>t DEF Blocked, Target, Reactors, MainTypes
    <3> QED BY <1>c, <3>1, <3>2, <3>3 DEF Raise, Interrupt
  <2>4. UNCHANGED <<stop, loopVars, poolStop>>
    BY <1>c DEF Raise, poolVars
  <2> QED BY <1>c, <2>1, <2>2, <2>3, <2>4 DEF MainTypes, loopVars
<1>1. CASE Alarm \/ Signal
  <2>1. CASE Alarm
    <3>1. Raise(Tick) /\ alarm' = FALSE /\ accepted + raised < MaxEvents
      BY <2>1 DEF Alarm
    <3>2. accepted + raised <= MaxEvents
      BY <3>1, <1>t
    <3>3. alarm' \in BOOLEAN /\ Tick \in {Stop, Tick}
      BY <3>1
    <3> QED BY <3>1, <3>2, <3>3, <1>c
  <2>2. CASE Signal
    BY <2>2, <1>c DEF Signal, MainTypes
  <2> QED BY <1>1, <2>1, <2>2
<1>2. CASE Accept
  <2>1. accepted < MaxEvents
    BY <1>2, <1>t DEF Accept
  <2>2. CASE Give(accepted + 1)
    BY <1>a, <2>1, <2>2
  <2>3. CASE ~Give(accepted + 1)
    <3>1. /\ mpc' = "give"
          /\ UNCHANGED <<turn, sigs, alarm, raised, stop, accepted, loopVars, poolStop>>
      BY <1>2, <2>3 DEF Accept, poolVars
    <3> QED BY <2>1, <3>1 DEF MainTypes, loopVars
  <2> QED BY <2>2, <2>3
<1>3. CASE mpc = "give" /\ Give(accepted + 1)
  BY <1>a, <1>3 DEF MainTypes
<1>4. CASE HandleSignal
  <2>1. sigs' \in Seq({Stop, Tick})
    BY <1>4, <1>t, HeadTailProperties DEF HandleSignal
  <2>2. /\ mpc' \in {"stop", "tick"} /\ stop' \in BOOLEAN
        /\ UNCHANGED <<turn, alarm, raised, accepted, loopVars, poolStop>>
    BY <1>4 DEF HandleSignal, Go, poolVars, MainTypes
  <2> QED BY <2>1, <2>2 DEF MainTypes, loopVars
<1>5. CASE Tell
  <2>1. turn \in Reactors /\ turn + 1 \in 1 .. NumReactors + 1
    BY <1>5, <1>t DEF Tell, Reactors
  <2>2. /\ pipe' \in [Reactors -> Seq(Conns \cup {Stop, Tick})]
        /\ \A q \in Reactors : Len(pipe'[q]) <= PipeCap
        /\ tasks' = tasks
    BY <1>5, <2>1, WriteTypes DEF Tell
  <2>3. UNCHANGED <<mpc, sigs, alarm, raised, stop, accepted, conn, poolStop>>
        /\ turn' = turn + 1
    BY <1>5 DEF Tell, poolVars
  <2> QED BY <2>1, <2>2, <2>3 DEF MainTypes
<1>6. CASE Told \/ LoopEnds
  <2>1. /\ mpc' \in {"loop", "destroy"} /\ turn' \in {turn, 1}
        /\ stop' \in BOOLEAN /\ alarm' \in BOOLEAN
        /\ sigs' \in {sigs, <<>>} /\ UNCHANGED <<raised, accepted, loopVars, poolStop>>
    BY <1>6 DEF Told, LoopEnds, Go, poolVars, MainTypes
  <2>2. turn' \in 1 .. NumReactors + 1
    BY <2>1, <1>t
  <2>3. sigs' \in Seq({Stop, Tick})
    <3>1. <<>> \in Seq({Stop, Tick})
      OBVIOUS
    <3> QED BY <2>1, <3>1, <1>t
  <2> QED BY <2>1, <2>2, <2>3 DEF MainTypes, loopVars
<1>7. CASE JoinReactors \/ StopPool \/ JoinWorkers \/ ClosePool
  <2>1. /\ mpc' \in {"delete", "join", "close", "done"} /\ turn' \in {turn, 1}
        /\ poolStop' \in BOOLEAN
        /\ UNCHANGED <<sigs, alarm, raised, stop, accepted, loopVars>>
    BY <1>7 DEF JoinReactors, StopPool, JoinWorkers, ClosePool, Go, poolVars, MainTypes
  <2>2. turn' \in 1 .. NumReactors + 1
    BY <2>1, <1>t
  <2> QED BY <2>1, <2>2 DEF MainTypes, loopVars
<1>8. CASE DeleteReactor
  <2>1. turn + 1 \in 1 .. NumReactors + 1
    BY <1>8, <1>t DEF DeleteReactor
  <2>2. tasks' \in [Reactors -> SUBSET Conns] /\ turn' = turn + 1
        /\ UNCHANGED <<mpc, sigs, alarm, raised, stop, accepted, conn, poolStop>>
    BY <1>8, <1>t DEF DeleteReactor, poolVars
  <2>3. /\ pipe' \in [Reactors -> Seq(Conns \cup {Stop, Tick})]
        /\ \A q \in Reactors : Len(pipe'[q]) <= PipeCap
    <3>1. <<>> \in Seq(Conns \cup {Stop, Tick}) /\ Len(<<>>) <= PipeCap
      OBVIOUS
    <3>2. pipe' = [pipe EXCEPT ![turn] = <<>>]
      BY <1>8 DEF DeleteReactor
    <3> QED BY <1>t, <3>1, <3>2 DEF MainTypes
  <2> QED BY <2>1, <2>2, <2>3 DEF MainTypes
<1>9. ASSUME NEW r \in Reactors, ReadPipe(r)
      PROVE  MainTypes'
  <2> DEFINE n == IF Len(pipe[r]) < Batch THEN Len(pipe[r]) ELSE Batch
             rest == SubSeq(pipe[r], n + 1, Len(pipe[r]))
  <2>1. Len(pipe[r]) \in Nat /\ n \in Nat /\ n <= Len(pipe[r])
    BY <1>t, LenProperties
  <2>2. rest \in Seq(Conns \cup {Stop, Tick}) /\ Len(rest) <= Len(pipe[r])
    BY <1>t, <2>1, SubSeqProperties
  <2>3. pipe' = [pipe EXCEPT ![r] = rest]
    BY <1>9 DEF ReadPipe
  <2> HIDE DEF rest, n
  <2>4. Len(rest) <= PipeCap
    BY <2>1, <2>2, LenProperties DEF MainTypes
  <2>5. /\ pipe' \in [Reactors -> Seq(Conns \cup {Stop, Tick})]
        /\ \A q \in Reactors : Len(pipe'[q]) <= PipeCap
    BY <1>t, <2>2, <2>3, <2>4 DEF MainTypes
  <2>6. stop' \in BOOLEAN
    BY <1>9 DEF ReadPipe, MainTypes
  <2>7. conn' \in [Conns -> {"none", "dispatched", "armed", "busy"}]
    BY <1>9, <1>t DEF ReadPipe
  <2>8. UNCHANGED <<mpc, turn, sigs, alarm, raised, accepted, tasks, poolStop>>
    BY <1>9 DEF ReadPipe, poolVars
  <2> QED BY <2>5, <2>6, <2>7, <2>8 DEF MainTypes
<1>10. ASSUME NEW r \in Reactors, RunTasks(r)
       PROVE  MainTypes'
  <2>1. /\ conn' \in [Conns -> {"none", "dispatched", "armed", "busy"}]
        /\ tasks' \in [Reactors -> SUBSET Conns]
        /\ UNCHANGED <<mainVars, pipe, poolStop>>
    BY <1>10, <1>t DEF RunTasks, poolVars
  <2> QED BY <2>1 DEF MainTypes, mainVars
<1>11. ASSUME NEW r \in Reactors, LoopTest(r) \/ \E c \in Conns : Dispatch(r, c)
       PROVE  MainTypes'
  <2>1. /\ conn' \in [Conns -> {"none", "dispatched", "armed", "busy"}]
        /\ UNCHANGED <<mainVars, pipe, tasks, poolStop>>
    BY <1>11, <1>t DEF LoopTest, Dispatch, poolVars
  <2> QED BY <2>1 DEF MainTypes, mainVars
<1>12. ASSUME NEW w \in Workers, PostAnswer(w)
       PROVE  MainTypes'
  <2> DEFINE c == job[w].conn
             r == Home(c)
  <2>1. c \in Conns
    BY <1>12 DEF PostAnswer, HandlerTypes
  <2>2. r \in Reactors
    BY <2>1, HomeType DEF Conns
  <2>3. /\ mpc' \in {mpc, "crashed"}
        /\ tasks' = tasks \/ tasks' = [tasks EXCEPT ![r] = @ \cup {c}]
        /\ UNCHANGED <<turn, sigs, alarm, raised, stop, accepted, pipe, conn, poolStop>>
    BY <1>12 DEF PostAnswer
  <2> HIDE DEF c, r
  <2>4. tasks' \in [Reactors -> SUBSET Conns]
    BY SMTT(40), <1>t, <2>1, <2>2, <2>3
  <2> QED BY <2>3, <2>4 DEF MainTypes
<1>13. ASSUME NEW w \in Workers,
              \/ TakeJob(w) \/ Connect(w) \/ Insert(w) \/ Select(w) \/ StoreSession(w)
              \/ EraseSession(w) \/ Disconnect(w) \/ ExitWorker(w) \/ SpuriousWake(w)
       PROVE  UNCHANGED <<mainVars, loopVars, poolStop>>
  BY <1>13 DEF TakeJob, Connect, Insert, Select, StoreSession, EraseSession, Disconnect,
               ExitWorker, SpuriousWake, poolVars
<1>14. UNCHANGED vars => UNCHANGED <<mainVars, loopVars, poolStop>>
  BY DEF vars, poolVars
<1> QED
  BY <1>b, <1>1, <1>2, <1>3, <1>4, <1>5, <1>6, <1>7, <1>8, <1>9, <1>10, <1>11, <1>12,
     <1>13, <1>14
     DEF Next, MainStep, ReactorStep, WorkerStep

-----------------------------------------------------------------------------
SafeInv == SqlInv /\ JobInv /\ EndInv /\ DataInv /\ ReactorTypes

LEMMA SqlInvKept ==
  ASSUME SafeInv, [Next]_vars
  PROVE  SqlInv'
<1> USE DEF SafeInv
<1>1. CASE UNCHANGED sqlVars
  <2>1. SqlTypeOK' /\ HoldersHave'
    BY <1>1 DEF sqlVars, SqlInv, SqlTypeOK, HoldersHave
  <2>2. Holders' = Holders /\ \A p : In(p)' = In(p)
    BY <1>1 DEF sqlVars, Holders, In
  <2>3. ConnsAccounted'
    BY <1>1, <2>2 DEF sqlVars, SqlInv, ConnsAccounted
  <2>4. NoSqlSleeper'
    BY <1>1, <2>2 DEF sqlVars, SqlInv, NoSqlSleeper
  <2> QED BY <2>1, <2>3, <2>4 DEF SqlInv
<1>2. ASSUME NEW w \in Workers, SqlStep(w) PROVE SqlInv'
  BY <1>2, StepKeepsTypes, StepKeepsAccount, StepKeepsSleeper DEF SqlInv
<1>3. CASE ClosePool
  <2>1. \A w \in Workers : job[w] = Gone
    BY <1>3 DEF ClosePool, Go, EndInv
  <2> QED BY <1>3, <2>1, GoneHoldNothing, DestroyKeeps DEF ClosePool, SqlInv
<1> QED BY <1>1, <1>2, <1>3, SqlOfStep

LEMMA SafeInductive == Safe => []SafeInv
<1>1. Init => SafeInv
  <2> SUFFICES ASSUME Init PROVE SafeInv
    OBVIOUS
  <2>1. SqlInv
    BY InitHolds DEF Init
  <2>2. JobInv
    <3>1. Idle \in JobRecords
      BY DEF Idle, JobRecords, Steps
    <3> QED BY <3>1, EmptySeq DEF Init, SqlInit, JobInv, PlaceInv
  <2>3. EndInv
    BY DEF Init, EndInv, Ending, Idle
  <2>4. DataInv
    BY FS_EmptySet DEF Init, DataInv, SessionsRight, Drawn, Idle
  <2>5. ReactorTypes
    BY DEF Init, ReactorTypes
  <2> QED BY <2>1, <2>2, <2>3, <2>4, <2>5 DEF SafeInv
<1>2. SafeInv /\ [Next]_vars => SafeInv'
  BY SqlInvKept, JobInvKept, EndInvKept, DataInvKept, ReactorTypesKept DEF SafeInv, SqlInv
<1> QED BY <1>1, <1>2, PTL DEF Safe

\* Every connection to the database is in the list or in one hand, whatever the
\* order in which handlers come, sleep and go, until the pool is destroyed.
THEOREM AccountKept == Safe => []ConnsAccounted
<1>1. SafeInv => ConnsAccounted
  BY DEF SafeInv, SqlInv
<1> QED BY <1>1, SafeInductive, PTL

\* No handler sleeps in GetConnection beside a free connection with nobody on the
\* way to the list or to a notification.
THEOREM NoSleeperLeft == Safe => []NoSqlSleeper
<1>1. SafeInv => NoSqlSleeper
  BY DEF SafeInv, SqlInv
<1> QED BY <1>1, SafeInductive, PTL

\* An id opens the session of who logged in with it, until it is logged out.
THEOREM SessionsKept == Safe => []SessionsRight
<1>1. SafeInv => SessionsRight
  BY DEF SafeInv, DataInv
<1> QED BY <1>1, SafeInductive, PTL

\* The destructor ends after the last handler and leaves no connection open.
THEOREM ExitClean == Safe => []ClosedAtExit
<1>1. SafeInv => ClosedAtExit
  <2> SUFFICES ASSUME SafeInv, mpc = "done"
               PROVE  open = {} /\ queue = <<>> /\ \A w \in Workers : job[w] = Gone
    BY DEF ClosedAtExit
  <2>1. open = {} /\ \A w \in Workers : job[w] = Gone
    BY DEF SafeInv, EndInv
  <2>2. \E w \in Workers : job[w].step = "exited"
    BY <2>1, WorkersAssumption DEF Gone, Idle
  <2>3. queue = <<>>
    BY <2>2 DEF SafeInv, EndInv
  <2> QED BY <2>1, <2>3
<1> QED BY <1>1, SafeInductive, PTL

\* The main thread, the loops, the queue and the handlers keep their types; no
\* more sessions are opened than requests came, and no connection is accepted
\* beyond the bound, however long it waits for room in a pipe.
THEOREM TypeCorrect == Safe => []TypeOK
<1> DEFINE I == HandlerTypes /\ Budget /\ MainTypes
<1>1. Init => I
  <2> SUFFICES ASSUME Init PROVE I
    OBVIOUS
  <2>1. \A w \in Workers : job[w] = Idle
    BY DEF Init
  <2>2. HandlerTypes
    BY <2>1 DEF Init, HandlerTypes, Idle
  <2>3. Budget
    <3>1. Pending = {}
      BY <2>1 DEF Pending, Idle
    <3> QED BY <3>1, FS_EmptySet, EmptySeq DEF Init, Budget
  <2>4. MainTypes
    <3>1. <<>> \in Seq({Stop, Tick}) /\ <<>> \in Seq(Conns \cup {Stop, Tick})
          /\ Len(<<>>) = 0 /\ 0 <= PipeCap
      OBVIOUS
    <3>2. 1 \in 1 .. NumReactors + 1 /\ 0 \in 0 .. MaxEvents /\ 0 \in 0 .. MaxEvents + 1
      OBVIOUS
    <3>3. /\ turn = 1 /\ raised = 0 /\ accepted = 0 /\ sigs = <<>> /\ mpc = "loop"
          /\ pipe = [r \in Reactors |-> <<>>] /\ tasks = [r \in Reactors |-> {}]
          /\ conn = [c \in Conns |-> "none"]
          /\ alarm \in BOOLEAN /\ stop \in BOOLEAN /\ poolStop \in BOOLEAN
      BY DEF Init
    <3> QED BY <3>1, <3>2, <3>3 DEF MainTypes
  <2> QED BY <2>2, <2>3, <2>4
<1>2. SafeInv /\ I /\ [Next]_vars => I'
  BY BudgetKept, HandlerTypesKept, MainTypesKept DEF SafeInv
<1>3. SafeInv /\ I => TypeOK
  <2> SUFFICES ASSUME SafeInv, I PROVE TypeOK
    OBVIOUS
  <2>1. Drawn \subseteq Ids
    <3>1. Cardinality(logins) \in Nat /\ Len(queue) \in Nat /\ Cardinality(Pending) \in Nat
      BY FS_CardinalityType, FS_Subset, LenProperties DEF SafeInv, DataInv, JobInv, Pending
    <3>2. Cardinality(logins) <= jobs /\ jobs <= MaxJobs
      BY <3>1 DEF Budget, HandlerTypes
    <3> QED BY <3>1, <3>2 DEF Drawn, Ids, HandlerTypes
  <2>2. /\ logins \subseteq Ids \X Users /\ known \subseteq Ids /\ logouts \subseteq Ids
        /\ sessions \subseteq Ids \X Users
    BY <2>1 DEF SafeInv, DataInv, SessionsRight
  <2>3. job \in [Workers -> [conn : Conns \cup {NoConn}, step : Steps,
                             arg : Users \cup Ids \cup {0}]]
    <3>1. job \in [Workers -> JobRecords]
      BY DEF SafeInv, JobInv
    <3>2. \A w \in Workers : job[w].arg \in Users \cup Ids \cup {0}
      <4> SUFFICES ASSUME NEW w \in Workers
                   PROVE  job[w].arg \in Users \cup Ids \cup {0}
        OBVIOUS
      <4>1. job[w].step \in Steps
        BY <3>1 DEF JobRecords
      <4> QED BY <2>1, <4>1 DEF Steps, HandlerTypes, SafeInv, DataInv
    <3> QED BY <3>1, <3>2 DEF JobRecords
  <2> QED BY <2>2, <2>3
        DEF SafeInv, SqlInv, JobInv, HandlerTypes, MainTypes, ReactorTypes, TypeOK
<1> HIDE DEF I
<1> QED BY <1>1, <1>2, <1>3, SafeInductive, PTL DEF Safe

-----------------------------------------------------------------------------
(* The pool as the server uses it. *)

\* What the step of a job is seen as.
Seen(step) ==
  CASE step = "idle" -> "nothing" [] step = "exited" -> "left" [] OTHER -> "job"

LEMMA SeenAre ==
  /\ Seen("idle") = "nothing" /\ Seen("exited") = "left"
  /\ \A s \in {"insert", "select", "store", "erase", "answer"} : Seen(s) = "job"
BY DEF Seen

LEMMA DoingIs == Doing = [w \in Workers |-> Seen(job[w].step)]
BY DEF Doing, Seen

\* The job of a worker changes.
LEMMA SeenMove ==
  ASSUME JobInv, NEW w \in Workers, NEW j, job' = [job EXCEPT ![w] = j]
  PROVE  /\ Doing[w] = Seen(job[w].step)
         /\ Doing' = [Doing EXCEPT ![w] = Seen(j.step)]
         /\ Seen(j.step) = Seen(job[w].step) => Doing' = Doing
<1>1. Doing' = [v \in Workers |-> Seen(job'[v].step)]
  BY DEF Doing, Seen
<1>2. job'[w] = j /\ \A v \in Workers : v # w => job'[v] = job[v]
  BY DEF JobInv
<1> QED BY <1>1, <1>2, DoingIs

\* A handler goes on from one of its steps to the next.
LEMMA StepUnseen ==
  ASSUME JobInv, NEW w \in Workers, NEW from, NEW to, NEW arg, Step(w, from, to, arg),
         from \in {"insert", "select", "store", "erase", "answer"},
         to \in {"insert", "select", "store", "erase", "answer"}
  PROVE  Doing' = Doing
<1> DEFINE j == [conn |-> job[w].conn, step |-> to, arg |-> arg]
<1>1. job[w].step = from /\ job' = [job EXCEPT ![w] = j]
  BY DEF Step
<1>2. Seen(j.step) = Seen(job[w].step)
  BY <1>1, SeenAre
<1> HIDE DEF j
<1> QED BY <1>1, <1>2, SeenMove

\* The server uses the pool as ThreadPool supposes: no loop is left to append a job
\* when the destructor tells the pool to stop, and it does so once.
THEOREM PoolUsedRightly == Safe => Pool!Safe
<1>1. Init => Pool!Init
  <2> SUFFICES ASSUME Init PROVE Pool!Init
    OBVIOUS
  <2>1. \A w \in Workers : job[w].step = "idle"
    BY DEF Init, Idle
  <2>2. Doing = [w \in Workers |-> "nothing"]
    BY <2>1, DoingIs, SeenAre
  <2> QED BY <2>2 DEF Init, Pool!Init
<1>2. SafeInv /\ TypeOK /\ [Next]_vars => [Pool!Next]_Pool!poolVars
  <2> SUFFICES ASSUME SafeInv, TypeOK, [Next]_vars
               PROVE  Pool!Next \/ UNCHANGED <<queue, poolStop, Doing>>
    BY DEF Pool!poolVars
  <2>0. JobInv /\ EndInv /\ poolStop \in BOOLEAN
    BY DEF SafeInv, TypeOK
  <2>1. ASSUME UNCHANGED <<queue, poolStop, job>>
        PROVE  UNCHANGED <<queue, poolStop, Doing>>
    BY <2>1 DEF Doing
  <2>2. ASSUME NEW r \in Reactors, NEW c \in Conns, Dispatch(r, c) PROVE Pool!Next
    <3>1. Looping(r) /\ queue' = Append(queue, c) /\ UNCHANGED <<poolStop, job>>
      BY <2>2 DEF Dispatch
    <3>2. ~poolStop
      BY <2>0, <3>1 DEF EndInv, Ending
    <3>3. Pool!Put(c)
      BY <3>1, <3>2 DEF Pool!Put, Doing
    <3> QED BY <3>3 DEF Pool!Next
  <2>3. ASSUME NEW w \in Workers, TakeJob(w) PROVE Pool!Next
    <3>1. PICK s \in {"insert", "select", "erase", "answer"}, a \in Users \cup Ids \cup {0} :
            job' = [job EXCEPT ![w] = [conn |-> Head(queue), step |-> s, arg |-> a]]
      BY <2>3 DEF TakeJob, TypeOK
    <3>2. job[w].step = "idle" /\ queue # <<>> /\ queue' = Tail(queue) /\ UNCHANGED poolStop
      BY <2>3 DEF TakeJob
    <3> DEFINE j == [conn |-> Head(queue), step |-> s, arg |-> a]
    <3>3. j.step = s /\ job' = [job EXCEPT ![w] = j]
      BY <3>1
    <3> HIDE DEF j
    <3>4. Doing[w] = Seen("idle") /\ Doing' = [Doing EXCEPT ![w] = Seen(s)]
      <4>1. Doing[w] = Seen(job[w].step) /\ Doing' = [Doing EXCEPT ![w] = Seen(j.step)]
        BY <2>0, <3>3, SeenMove
      <4> QED BY <3>2, <3>3, <4>1
    <3>5. Pool!Take(w)
      BY <3>2, <3>4, SeenAre DEF Pool!Take, Pool!Turns
    <3> QED BY <3>5 DEF Pool!Next
  <2>4. ASSUME NEW w \in Workers, Connect(w) \/ Disconnect(w) \/ SpuriousWake(w)
        PROVE  UNCHANGED <<queue, poolStop, job>>
    BY <2>4 DEF Connect, Disconnect, SpuriousWake, poolVars
  <2>5. ASSUME NEW w \in Workers,
               Insert(w) \/ Select(w) \/ StoreSession(w) \/ EraseSession(w)
        PROVE  UNCHANGED <<queue, poolStop, Doing>>
    <3>1. UNCHANGED <<queue, poolStop>>
      BY <2>5 DEF Insert, Select, StoreSession, EraseSession
    <3>2. CASE Insert(w)
      BY <2>0, <3>1, <3>2, StepUnseen DEF Insert
    <3>3. CASE Select(w)
      BY <2>0, <3>1, <3>3, StepUnseen DEF Select
    <3>4. CASE StoreSession(w)
      BY <2>0, <3>1, <3>4, StepUnseen DEF StoreSession
    <3>5. CASE EraseSession(w)
      BY <2>0, <3>1, <3>5, StepUnseen DEF EraseSession
    <3> QED BY <2>5, <3>2, <3>3, <3>4, <3>5
  <2>6. ASSUME NEW w \in Workers, PostAnswer(w) PROVE Pool!Next
    <3>1. /\ job[w].step = "answer" /\ job' = [job EXCEPT ![w] = Idle]
          /\ UNCHANGED <<queue, poolStop>> /\ Idle.step = "idle"
      BY <2>6 DEF PostAnswer, Idle
    <3>2. Doing[w] = Seen("answer") /\ Doing' = [Doing EXCEPT ![w] = Seen("idle")]
      <4>1. /\ Doing[w] = Seen(job[w].step)
            /\ Doing' = [Doing EXCEPT ![w] = Seen(Idle.step)]
        BY <2>0, <3>1, SeenMove
      <4> QED BY <3>1, <4>1
    <3>3. Pool!End(w)
      BY <3>1, <3>2, SeenAre DEF Pool!End, Pool!Turns
    <3> QED BY <3>3 DEF Pool!Next
  <2>7. ASSUME NEW w \in Workers, ExitWorker(w) PROVE Pool!Next
    <3>1. /\ poolStop /\ queue = <<>> /\ job[w].step = "idle"
          /\ job' = [job EXCEPT ![w] = Gone]
          /\ UNCHANGED <<queue, poolStop>> /\ Gone.step = "exited"
      BY <2>7 DEF ExitWorker, Gone, Idle
    <3>2. Doing[w] = Seen("idle") /\ Doing' = [Doing EXCEPT ![w] = Seen("exited")]
      <4>1. /\ Doing[w] = Seen(job[w].step)
            /\ Doing' = [Doing EXCEPT ![w] = Seen(Gone.step)]
        BY <2>0, <3>1, SeenMove
      <4> QED BY <3>1, <4>1
    <3>3. Pool!Leave(w)
      BY <3>1, <3>2, SeenAre DEF Pool!Leave, Pool!Turns
    <3> QED BY <3>3 DEF Pool!Next
  <2>8. CASE StopPool
    <3>1. mpc = "delete" /\ poolStop' = TRUE /\ UNCHANGED <<queue, job>>
      BY <2>8 DEF StopPool, Go
    <3>2. ~poolStop
      BY <2>0, <3>1 DEF EndInv
    <3>3. Pool!Stop
      BY <3>1, <3>2 DEF Pool!Stop, Doing
    <3> QED BY <3>3 DEF Pool!Next
  <2>9. ASSUME NEW r \in Reactors, ReactorStep(r)
        PROVE  UNCHANGED <<queue, poolStop, job>>
    BY <2>9 DEF ReactorStep, ReadPipe, RunTasks, LoopTest, poolVars
  <2>10. ASSUME \/ Alarm \/ Signal \/ Accept \/ LoopEnds \/ (mpc = "give" /\ Give(accepted + 1))
                \/ HandleSignal \/ Tell \/ Told \/ JoinReactors \/ DeleteReactor
                \/ JoinWorkers \/ ClosePool \/ UNCHANGED vars
         PROVE  UNCHANGED <<queue, poolStop, job>>
    BY <2>10 DEF Alarm, Signal, Raise, Interrupt, Accept, Give, LoopEnds, HandleSignal, Tell, Told, JoinReactors,
                 DeleteReactor, JoinWorkers, ClosePool, vars, poolVars
  <2> QED BY <2>1, <2>2, <2>3, <2>4, <2>5, <2>6, <2>7, <2>8, <2>9, <2>10
          DEF Next, MainStep, WorkerStep
<1> QED BY <1>1, <1>2, SafeInductive, TypeCorrect, PTL DEF Safe, Pool!Safe
=============================================================================
