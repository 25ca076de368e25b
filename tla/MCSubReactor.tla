---------------------------- MODULE MCSubReactor ----------------------------
(* Small SubReactors: two workers, two or three connections, and a choice of *)
(* what the environment does (timeouts, upgrades, reuse of numbers).        *)
EXTENDS SubReactor, TLC

CONSTANTS w1, w2

MCWorkers == {w1, w2}
MCSymmetry == Permutations(MCWorkers)
=============================================================================
