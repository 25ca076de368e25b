------------------------------- MODULE Mailbox -------------------------------
(***************************************************************************)
(* What a SubReactor relies on of its task queue: any thread posts, the    *)
(* loop takes everything at once, and runs it from the front before it     *)
(* takes again.  That it is woken for it is the business of TaskQueue.     *)
(***************************************************************************)
EXTENDS Sequences

CONSTANT Items

VARIABLES waiting,   \* the tasks posted and not yet taken
          running    \* the tasks taken and not yet run

mailVars == <<waiting, running>>

Init == waiting = <<>> /\ running = <<>>

Post(i) == waiting' = Append(waiting, i) /\ UNCHANGED running

TakeAll == running = <<>> /\ running' = waiting /\ waiting' = <<>>

RunOne == running # <<>> /\ running' = Tail(running) /\ UNCHANGED waiting

Next == TakeAll \/ RunOne \/ \E i \in Items : Post(i)

Safe == Init /\ [][Next]_mailVars
=============================================================================
