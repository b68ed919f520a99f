---------------------------- MODULE MCBinaryHeap ----------------------------
(* BinaryHeap with nine items, some of equal weight. *)
EXTENDS BinaryHeap

MCItem == 1..9
MCweight == [x \in MCItem |-> x \div 2]
=============================================================================
