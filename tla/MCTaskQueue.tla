---------------------------- MODULE MCTaskQueue ----------------------------
(* A reactor, two worker threads and two tasks from each of them. *)
EXTENDS TaskQueue, TLC

CONSTANTS w1, w2, r

MCPosters == {w1, w2, r}
=============================================================================
