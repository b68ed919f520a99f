---------------------------- MODULE PriorityQueue ----------------------------
(***************************************************************************)
(* What a BinaryHeap promises its callers, the agenda of the search and    *)
(* the sorting of assignments: a collection of pointers that gives back    *)
(* one that comes first in its order.                                      *)
(***************************************************************************)
EXTENDS Integers

CONSTANTS
  Item,      \* what may be put in the queue
  weight,    \* Type::operator< and operator> compare weights
  NULL

VARIABLES
  contents,  \* the items in the queue
  order,     \* 1 for increasing weights, 0 for decreasing ones
  popped     \* the item that the last call returned, NULL for insert

Precedes(a, b) == IF order = 1 THEN weight[a] <= weight[b] ELSE weight[a] >= weight[b]

Init == contents = {} /\ order \in {0, 1} /\ popped = NULL

insert(x) ==
  /\ contents' = contents \cup {x}
  /\ popped' = NULL
  /\ UNCHANGED order

pop(x) ==
  /\ x \in contents
  /\ \A y \in contents : Precedes(x, y)
  /\ contents' = contents \ {x}
  /\ popped' = x
  /\ UNCHANGED order

Next == \/ \E x \in Item \ contents : insert(x)
        \/ \E x \in contents : pop(x)

Spec == Init /\ [][Next]_<<contents, order, popped>>
=============================================================================
