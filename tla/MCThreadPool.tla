---------------------------- MODULE MCThreadPool ----------------------------
(* Two or three workers behind a list of two tasks, two SubReactors. *)
EXTENDS ThreadPool, TLC

CONSTANTS w1, w2, w3, r1, r2

MCWorkers == {w1, w2, w3}
MCAppenders == {r1, r2}
=============================================================================
