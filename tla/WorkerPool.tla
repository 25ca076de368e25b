----------------------------- MODULE WorkerPool -----------------------------
(***************************************************************************)
(* What the rest of the server relies on of the worker pool: jobs wait in  *)
(* one queue, a worker that is free takes the oldest, jobs come until the  *)
(* pool is told to stop, and then a worker leaves when the queue is empty. *)
(* Mutexes, sleeping and notifications are the business of ThreadPool.     *)
(***************************************************************************)
EXTENDS Sequences

CONSTANTS Workers, Items

VARIABLES queue,     \* the jobs that wait, in order
          stopped,   \* the pool was told to stop
          doing      \* doing[w]: "nothing", "job", or "left"

poolVars == <<queue, stopped, doing>>

Init ==
  /\ queue = <<>> /\ stopped = FALSE
  /\ doing = [w \in Workers |-> "nothing"]

Turns(w, from, to) ==
  doing[w] = from /\ doing' = [doing EXCEPT ![w] = to]

Put(i) ==
  /\ ~stopped
  /\ queue' = Append(queue, i)
  /\ UNCHANGED <<stopped, doing>>

Take(w) ==
  /\ queue # <<>> /\ Turns(w, "nothing", "job")
  /\ queue' = Tail(queue)
  /\ UNCHANGED stopped

End(w) == Turns(w, "job", "nothing") /\ UNCHANGED <<queue, stopped>>

Leave(w) ==
  /\ stopped /\ queue = <<>> /\ Turns(w, "nothing", "left")
  /\ UNCHANGED <<queue, stopped>>

Stop ==
  /\ ~stopped /\ stopped' = TRUE
  /\ UNCHANGED <<queue, doing>>

Next ==
  \/ Stop \/ \E i \in Items : Put(i)
  \/ \E w \in Workers : Take(w) \/ End(w) \/ Leave(w)

Safe == Init /\ [][Next]_poolVars
=============================================================================
