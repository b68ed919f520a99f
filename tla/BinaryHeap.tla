----------------------------- MODULE BinaryHeap -----------------------------
(***************************************************************************)
(* The binary heap of the search (mba/cpp/include/opsat/binaryheap.h) in   *)
(* its array.  Indices are the code's: they start at 0, and the children   *)
(* of i are 2i and 2i + 1, so that the root is its own first child.        *)
(*                                                                         *)
(* An operator named X_Y is the mutated form Y of the definition X, for    *)
(* the mutation runs; no specification uses it.                            *)
(***************************************************************************)
EXTENDS Integers, FiniteSets, Functions

CONSTANTS
  Item,     \* what may be put in the heap
  weight,   \* what operator< and operator> compare
  NULL      \* no item

ASSUME ItemAssumption == weight \in [Item -> Nat] /\ NULL \notin Item

VARIABLES
  arr,      \* BinaryHeap::arr, a function on 0 .. size() - 1
  order,    \* BinaryHeap::order
  popped    \* what the last call returned, NULL for insert

vars == <<arr, order, popped>>

size == Cardinality(DOMAIN arr)

(* compare[order] and compare[1 - order] *)
comesBefore(a, b) == IF order = 1 THEN weight[a] < weight[b] ELSE weight[a] > weight[b]
comesAfter(a, b) == IF order = 1 THEN weight[a] > weight[b] ELSE weight[a] < weight[b]

parent(i) == i \div 2
left(i) == 2 * i
right(i) == 2 * i + 1

(* Where a loop is: what it has made of an array with these indices, and its index. *)
Places(indices) == [indices -> Item] \X indices

(* The loop of insert: move the ancestors of i that come after pin down, and
   put pin where they left room.  The function raised is what the turns to come
   make of a place. *)
raise(a, i, pin, raised) ==
  IF i > 0 /\ comesAfter(a[parent(i)], pin)
  THEN raised[<<[a EXCEPT ![i] = a[parent(i)]], parent(i)>>]
  ELSE [a EXCEPT ![i] = pin]

siftUp(indices, pin) ==
  LET raised[s \in Places(indices)] == raise(s[1], s[2], pin, raised)
  IN  raised

push_back(pin) == [i \in 0..size |-> IF i < size THEN arr[i] ELSE pin]

insert(pin) ==
  /\ arr' = siftUp(0..size, pin)[<<push_back(pin), size>>]
  /\ popped' = NULL
  /\ UNCHANGED order

(* Array::remove: the last element takes the place of the removed one. *)
remove(a, i) ==
  LET last == Cardinality(DOMAIN a) - 1
  IN  [j \in 0..(last - 1) |-> IF j = i THEN a[last] ELSE a[j]]

largest_LeftOnly(a, i) ==
  IF left(i) \in DOMAIN a /\ comesBefore(a[left(i)], a[i]) THEN left(i) ELSE i

(* The child of i, or i itself, that belongs above the others. *)
largest(a, i) ==
  LET l == IF left(i) \in DOMAIN a /\ comesBefore(a[left(i)], a[i]) THEN left(i) ELSE i
  IN  IF right(i) \in DOMAIN a /\ comesBefore(a[right(i)], a[l]) THEN right(i) ELSE l

exchange(a, i, j) == [a EXCEPT ![i] = a[j], ![j] = a[i]]

(* The loop of heapify, likewise. *)
lower(a, i, lowered) ==
  IF largest(a, i) # i
  THEN lowered[<<exchange(a, i, largest(a, i)), largest(a, i)>>]
  ELSE a

heapify(indices) ==
  LET lowered[s \in Places(indices)] == lower(s[1], s[2], lowered)
  IN  lowered

pop ==
  /\ size > 0
  /\ popped' = arr[0]
  /\ LET rest == remove(arr, 0)
     IN  arr' = IF DOMAIN rest = {} THEN rest ELSE heapify(DOMAIN rest)[<<rest, 0>>]
  /\ UNCHANGED order

Init == arr = [i \in {} |-> NULL] /\ order \in {0, 1} /\ popped = NULL

Next == (\E x \in Item \ Range(arr) : insert(x)) \/ pop

Spec == Init /\ [][Next]_vars

-----------------------------------------------------------------------------
(* Properties *)

Queue == INSTANCE PriorityQueue WITH contents <- Range(arr)

(* insert and pop lose nothing, and pop returns an item that comes first:
   BinaryHeap implements PriorityQueue. *)
IsPriorityQueue == Queue!Spec
=============================================================================
