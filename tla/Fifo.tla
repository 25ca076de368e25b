------------------------------- MODULE Fifo -------------------------------
(***************************************************************************)
(* What a hand-over queue between threads promises, whatever the locks,    *)
(* condition variables or event descriptors behind it: the items that were *)
(* accepted are delivered once each, in the order in which they were       *)
(* accepted, and none of them is left behind.                              *)
(***************************************************************************)
EXTENDS Naturals, Sequences

CONSTANT Items

VARIABLES accepted,    \* every item accepted so far, in order
          delivered    \* every item handed to the consumer so far, in order

fifoVars == <<accepted, delivered>>

Init == accepted = <<>> /\ delivered = <<>>

Put(i) == accepted' = Append(accepted, i) /\ UNCHANGED delivered

Get ==
  /\ Len(delivered) < Len(accepted)
  /\ delivered' = Append(delivered, accepted[Len(delivered) + 1])
  /\ UNCHANGED accepted

Next == Get \/ \E i \in Items : Put(i)

Safe == Init /\ [][Next]_fifoVars

Spec == Safe /\ WF_fifoVars(Get)
=============================================================================
