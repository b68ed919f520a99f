--------------------------- MODULE BinaryHeapProofs ---------------------------
(***************************************************************************)
(* BinaryHeap implements PriorityQueue, for every set of items, all their  *)
(* weights and heaps of every size.                                        *)
(*                                                                         *)
(* The argument is the one of the comments in binaryheap.h: no item comes  *)
(* before its parent in the array, except at the place where a loop is     *)
(* working, whose neighbours are in order with each other.                 *)
(***************************************************************************)
EXTENDS BinaryHeap, DataLemmas

-----------------------------------------------------------------------------
(* Items and places *)

InOrder(a, b) == ~comesAfter(a, b)

LEMMA OrderFacts ==
  ASSUME order \in {0, 1}
  PROVE  /\ \A a, b, c \in Item : InOrder(a, b) /\ InOrder(b, c) => InOrder(a, c)
         /\ \A a, b \in Item : InOrder(a, b) \/ InOrder(b, a)
         /\ \A a, b \in Item : comesBefore(a, b) => InOrder(a, b)
         /\ \A a, b \in Item : comesAfter(a, b) => InOrder(b, a)
         /\ \A a, b \in Item : ~comesBefore(a, b) => InOrder(b, a)
         /\ \A a, b \in Item : InOrder(a, b) <=> Queue!Precedes(a, b)
BY ItemAssumption DEF InOrder, comesAfter, comesBefore, Queue!Precedes

(* The children of i are left(i) and right(i), and only the root is its own child. *)
LEMMA PlaceFacts ==
  ASSUME NEW i \in Nat
  PROVE  /\ parent(i) \in Nat /\ (i > 0 => parent(i) < i)
         /\ \A j \in Nat : parent(j) = i <=> j = left(i) \/ j = right(i)
         /\ left(i) \in Nat /\ right(i) \in Nat /\ right(i) > i
         /\ left(i) = i \/ left(i) > i
BY DEF parent, left, right

(* The array a has the items in R, each of them once. *)
HasItems(a, indices, R) ==
  /\ a \in [indices -> Item]
  /\ \A j, k \in indices : a[j] = a[k] => j = k
  /\ R = {a[j] : j \in indices}

IsHeap(a, indices) == \A j \in indices : j > 0 => InOrder(a[parent(j)], a[j])

LEMMA ExchangeFacts ==
  ASSUME NEW indices, NEW R, NEW a, HasItems(a, indices, R),
         NEW i \in indices, NEW j \in indices
  PROVE  HasItems(exchange(a, i, j), indices, R)
<1> DEFINE b == exchange(a, i, j)
<1>1. /\ b \in [indices -> Item]
      /\ \A k \in indices : b[k] = IF k = j THEN a[i] ELSE IF k = i THEN a[j] ELSE a[k]
  BY DEF HasItems, exchange
<1> HIDE DEF b
<1>2. \A k, l \in indices : b[k] = b[l] => k = l
  BY <1>1 DEF HasItems
<1>3. ASSUME NEW k \in indices
      PROVE  (\E l \in indices : b[l] = a[k]) /\ (\E l \in indices : a[l] = b[k])
  <2> DEFINE l == IF k = j THEN i ELSE IF k = i THEN j ELSE k
  <2>1. l \in indices /\ b[l] = a[k] /\ a[l] = b[k]
    BY <1>1
  <2> QED
    BY <2>1
<1>4. R = {b[k] : k \in indices}
  <2>1. \A x : x \in R <=> \E k \in indices : x = a[k]
    BY DEF HasItems
  <2>2. \A x : x \in R <=> \E k \in indices : x = b[k]
    BY <1>3, <2>1, SMTT(30)
  <2> QED
    BY <2>2
<1> QED
  BY <1>1, <1>2, <1>4 DEF HasItems, b

(* Array::remove of the first element: the last one takes its place. *)
LEMMA RemoveFacts ==
  ASSUME NEW n \in Nat \ {0}, NEW R, NEW a, HasItems(a, 0..(n - 1), R)
  PROVE  /\ HasItems(remove(a, 0), 0..(n - 2), R \ {a[0]})
         /\ \A j \in 1..(n - 2) : remove(a, 0)[j] = a[j]
<1> DEFINE b == remove(a, 0)
<1>1. DOMAIN a = 0..(n - 1) /\ Cardinality(0..(n - 1)) = n
  BY FS_Interval DEF HasItems
<1>2. b = [j \in 0..(n - 2) |-> IF j = 0 THEN a[n - 1] ELSE a[j]]
  BY <1>1 DEF remove
<1>3. /\ b \in [0..(n - 2) -> Item]
      /\ \A j \in 0..(n - 2) : b[j] = IF j = 0 THEN a[n - 1] ELSE a[j]
  BY <1>2 DEF HasItems
<1> HIDE DEF b
<1>4. \A j, k \in 0..(n - 2) : b[j] = b[k] => j = k
  BY <1>3 DEF HasItems
<1>5. ASSUME NEW x
      PROVE  x \in R \ {a[0]} <=> \E j \in 0..(n - 2) : x = b[j]
  <2>1. ASSUME x \in R \ {a[0]} PROVE \E j \in 0..(n - 2) : x = b[j]
    <3>1. PICK k \in 0..(n - 1) : x = a[k] /\ k # 0
      BY <2>1 DEF HasItems
    <3>2. CASE k = n - 1
      BY <1>3, <3>1, <3>2
    <3>3. CASE k # n - 1
      <4>1. k \in 0..(n - 2) /\ x = b[k]
        BY <1>3, <3>1, <3>3
      <4> QED
        BY <4>1
    <3> QED
      BY <3>2, <3>3
  <2>2. ASSUME NEW j \in 0..(n - 2), x = b[j] PROVE x \in R \ {a[0]}
    <3>1. PICK k \in 1..(n - 1) : x = a[k]
      BY <1>3, <2>2
    <3>2. k \in 0..(n - 1) /\ 0 \in 0..(n - 1) /\ k # 0
      OBVIOUS
    <3> QED
      BY <3>1, <3>2 DEF HasItems
  <2> QED
    BY <2>1, <2>2
<1>6. R \ {a[0]} = {b[j] : j \in 0..(n - 2)}
  BY <1>5
<1> QED
  BY <1>3, <1>4, <1>6, SMTT(30) DEF HasItems, b

(* The root of a heap comes first. *)
LEMMA RootIsFirst ==
  ASSUME order \in {0, 1}, NEW n \in Nat \ {0}, NEW a \in [0..(n - 1) -> Item],
         IsHeap(a, 0..(n - 1))
  PROVE  \A j \in 0..(n - 1) : InOrder(a[0], a[j])
<1> DEFINE P == {j \in 0..(n - 1) : InOrder(a[0], a[j])}
           size0 == [j \in 0..(n - 1) |-> j]
<1>1. size0 \in [0..(n - 1) -> Nat] /\ \A j \in 0..(n - 1) : size0[j] = j
  OBVIOUS
<1>2. ASSUME NEW j \in 0..(n - 1), \A k \in 0..(n - 1) : size0[k] < size0[j] => k \in P
      PROVE  j \in P
  <2>1. CASE j = 0
    BY <2>1, OrderFacts
  <2>2. CASE j > 0
    <3>1. parent(j) \in 0..(n - 1) /\ parent(j) < j
      <4>1. j \in Nat
        OBVIOUS
      <4>2. parent(j) \in Nat /\ parent(j) < j
        BY <2>2, <4>1, PlaceFacts
      <4> QED
        BY <4>2
    <3>2. InOrder(a[0], a[parent(j)]) /\ InOrder(a[parent(j)], a[j])
      BY <1>1, <1>2, <2>2, <3>1 DEF IsHeap
    <3> QED
      BY <3>1, <3>2, OrderFacts
  <2> QED
    BY <2>1, <2>2
<1> DEFINE D == 0..(n - 1)
<1>3. D \subseteq P
  <2>1. size0 \in [D -> Nat]
    BY <1>1
  <2>2. \A j \in D : (\A k \in D : size0[k] < size0[j] => k \in P) => j \in P
    BY <1>2
  <2> HIDE DEF P, size0, D
  <2> QED
    BY <2>1, <2>2, SizeInduction
<1> QED
  BY <1>3 DEF P

-----------------------------------------------------------------------------
(* The loop of insert *)

(* a has an item twice, and i is where pin will be: what is above i is in order
   with what is below i, and nothing below i comes before pin. *)
HoleAt(a, i, pin, indices, R) ==
  /\ HasItems([a EXCEPT ![i] = pin], indices, R)
  /\ \A j \in indices : (j > 0 /\ j # i /\ parent(j) # i) => InOrder(a[parent(j)], a[j])
  /\ \A j \in indices : (j > 0 /\ j # i /\ parent(j) = i) =>
       InOrder(pin, a[j]) /\ (i > 0 => InOrder(a[parent(i)], a[j]))

(* One turn moves the hole up. *)
LEMMA TurnRaises ==
  ASSUME order \in {0, 1}, NEW n \in Nat, NEW pin \in Item, NEW R,
         NEW a \in [0..n -> Item], NEW i \in 0..n, HoleAt(a, i, pin, 0..n, R),
         i > 0, comesAfter(a[parent(i)], pin)
  PROVE  HoleAt([a EXCEPT ![i] = a[parent(i)]], parent(i), pin, 0..n, R)
<1> DEFINE p == parent(i)
           b == [a EXCEPT ![i] = a[p]]
           I == 0..n
<1>1. p \in I /\ p < i /\ i \in Nat /\ p \in Nat
  <2>1. i \in Nat
    OBVIOUS
  <2>2. parent(i) \in Nat /\ parent(i) < i
    BY <2>1, PlaceFacts
  <2> QED
    BY <2>1, <2>2
<1>2. p > 0 => parent(p) < p /\ parent(p) \in I
  BY <1>1, PlaceFacts, SMTT(30)
<1>3. \A j \in I : j > 0 => parent(j) \in I
  <2>1. \A j \in I : j \in Nat
    OBVIOUS
  <2>2. \A j \in I : j > 0 => parent(j) \in Nat /\ parent(j) < j
    BY <2>1, PlaceFacts
  <2> QED
    BY <2>2
<1>4. b \in [I -> Item] /\ b[i] = a[p] /\ \A j \in I : j # i => b[j] = a[j]
  BY <1>1
<1>5. HasItems([b EXCEPT ![p] = pin], I, R)
  <2> DEFINE c == [a EXCEPT ![i] = pin]
  <2>1. c \in [I -> Item] /\ c[i] = pin /\ \A j \in I : j # i => c[j] = a[j]
    OBVIOUS
  <2>2. [b EXCEPT ![p] = pin] = exchange(c, i, p)
    BY <1>1, <1>4, <2>1 DEF exchange
  <2>3. HasItems(c, I, R) /\ i \in I /\ p \in I
    BY <1>1 DEF HoleAt
  <2> HIDE DEF c, I, p, b
  <2>4. HasItems(exchange(c, i, p), I, R)
    BY <2>3, ExchangeFacts
  <2> QED
    BY <2>2, <2>4, Zenon
<1>6. /\ \A j \in I : (j > 0 /\ j # i /\ parent(j) # i) => InOrder(a[parent(j)], a[j])
      /\ \A j \in I : (j > 0 /\ j # i /\ parent(j) = i) => InOrder(a[p], a[j])
  BY DEF HoleAt
<1>7. InOrder(pin, a[p]) /\ a[p] \in Item
  BY <1>1, OrderFacts
<1> HIDE DEF b, I, p
<1>8. ASSUME NEW j \in I, j > 0, j # p, parent(j) # p
      PROVE  InOrder(b[parent(j)], b[j])
  <2>1. j # i
    BY <1>8 DEF p
  <2>2. CASE parent(j) = i
    BY <1>4, <1>6, <1>8, <2>1, <2>2
  <2>3. CASE parent(j) # i
    BY <1>3, <1>4, <1>6, <1>8, <2>1, <2>3
  <2> QED
    BY <2>2, <2>3
<1>9. ASSUME NEW j \in I, j > 0, j # p, parent(j) = p
      PROVE  InOrder(pin, b[j]) /\ (p > 0 => InOrder(b[parent(p)], b[j]))
  <2>1. p # i /\ a \in [I -> Item]
    BY <1>1 DEF I
  <2>2. j # i => InOrder(a[p], a[j])
    BY <1>6, <1>9, <2>1
  <2>3. p > 0 => InOrder(a[parent(p)], a[p])
    BY <1>1, <1>2, <1>6
  <2>4. p > 0 => parent(p) # i
    BY <1>1, <1>2 DEF I
  <2>5. CASE j = i
    BY <1>2, <1>4, <1>7, <2>3, <2>4, <2>5
  <2>6. CASE j # i
    <3>1. b[j] = a[j] /\ a[j] \in Item /\ InOrder(pin, a[j])
      BY <1>4, <1>7, <2>1, <2>2, <2>6, OrderFacts
    <3>2. p > 0 => b[parent(p)] = a[parent(p)] /\ a[parent(p)] \in Item
      BY <1>2, <1>4, <2>1, <2>4
    <3>3. p > 0 => InOrder(a[parent(p)], a[j])
      BY <1>7, <2>2, <2>3, <2>6, <3>1, <3>2, OrderFacts
    <3> QED
      BY <3>1, <3>2, <3>3
  <2> QED
    BY <2>5, <2>6
<1> QED
  BY <1>5, <1>8, <1>9 DEF HoleAt, p, b, I

(* When it stops pin is in its place. *)
LEMMA LastTurnRaises ==
  ASSUME order \in {0, 1}, NEW n \in Nat, NEW pin \in Item, NEW R,
         NEW a \in [0..n -> Item], NEW i \in 0..n, HoleAt(a, i, pin, 0..n, R),
         ~(i > 0 /\ comesAfter(a[parent(i)], pin))
  PROVE  /\ HasItems([a EXCEPT ![i] = pin], 0..n, R)
         /\ IsHeap([a EXCEPT ![i] = pin], 0..n)
<1> DEFINE b == [a EXCEPT ![i] = pin]
<1>1. b[i] = pin /\ \A j \in 0..n : j # i => b[j] = a[j]
  OBVIOUS
<1>2. \A j \in 0..n : j > 0 => parent(j) \in 0..n /\ parent(j) # j
  <2>1. \A j \in 0..n : j \in Nat
    OBVIOUS
  <2>2. \A j \in 0..n : j > 0 => parent(j) \in Nat /\ parent(j) < j
    BY <2>1, PlaceFacts
  <2> QED
    BY <2>2
<1> HIDE DEF b
<1>3. ASSUME NEW j \in 0..n, j > 0
      PROVE  InOrder(b[parent(j)], b[j])
  <2>1. CASE j = i
    <3>1. InOrder(a[parent(i)], pin)
      BY <1>3, <2>1 DEF InOrder
    <3> QED
      BY <1>1, <1>2, <1>3, <2>1, <3>1
  <2>2. CASE j # i /\ parent(j) = i
    BY <1>1, <1>3, <2>2 DEF HoleAt
  <2>3. CASE j # i /\ parent(j) # i
    BY <1>1, <1>2, <1>3, <2>3 DEF HoleAt
  <2> QED
    BY <2>1, <2>2, <2>3
<1> QED
  BY <1>3 DEF HoleAt, IsHeap, b

(* The index where a loop is. *)
Index(indices) == [s \in Places(indices) |-> s[2]]

(* The function that the recursion defines exists, and this is its equation. *)
LEMMA SiftUpUnfolds ==
  ASSUME NEW n \in Nat, NEW pin \in Item
  PROVE  \A a \in [0..n -> Item], i \in 0..n :
           siftUp(0..n, pin)[<<a, i>>] = raise(a, i, pin, siftUp(0..n, pin))
<1> DEFINE D == Places(0..n)
           V == [0..n -> Item]
           Step == [z \in D \X [D -> V] |-> raise(z[1][1], z[1][2], pin, z[2])]
<1>1. \A s \in D : \A f \in [D -> V] : Step[<<s, f>>] = raise(s[1], s[2], pin, f)
  OBVIOUS
<1>2. ASSUME NEW s \in D
      PROVE  /\ s[1] \in V /\ s[2] \in 0..n /\ s = <<s[1], s[2]>>
             /\ s[2] > 0 => parent(s[2]) \in 0..n /\ parent(s[2]) < s[2]
  <2>1. s[1] \in V /\ s[2] \in 0..n /\ s = <<s[1], s[2]>> /\ s[2] \in Nat
    BY DEF Places
  <2> HIDE DEF D, V
  <2>2. s[2] > 0 => parent(s[2]) \in Nat /\ parent(s[2]) < s[2]
    BY <2>1, PlaceFacts
  <2> QED
    BY <2>1, <2>2
<1>3. \A s \in D : s[2] > 0 =>
        /\ <<[s[1] EXCEPT ![s[2]] = s[1][parent(s[2])]], parent(s[2])>> \in D
        /\ Index(0..n)[<<[s[1] EXCEPT ![s[2]] = s[1][parent(s[2])]], parent(s[2])>>]
             < Index(0..n)[s]
  BY <1>2 DEF Places, Index
<1>4. Step \in [D \X [D -> V] -> V]
  BY <1>2, <1>3 DEF raise
<1>5. LooksBelow(Step, Index(0..n), D, V)
  <2> HIDE DEF Step, D, V
  <2> SUFFICES ASSUME NEW s \in D, NEW f \in [D -> V], NEW g \in [D -> V],
                      \A e \in D : Index(0..n)[e] < Index(0..n)[s] => f[e] = g[e]
               PROVE  Step[<<s, f>>] = Step[<<s, g>>]
    BY DEF LooksBelow
  <2>1. raise(s[1], s[2], pin, f) = raise(s[1], s[2], pin, g)
    BY <1>3 DEF raise
  <2> QED
    BY <1>1, <2>1
<1>6. Index(0..n) \in [D -> Nat]
  BY <1>2 DEF Index
<1>7. V # {}
  <2>1. [j \in 0..n |-> pin] \in V
    OBVIOUS
  <2> QED
    BY <2>1
<1>8. PICK f : IsFixpoint(f, Step, D, V)
  <2> HIDE DEF D, V, Step
  <2> QED
    BY <1>4, <1>5, <1>6, <1>7, RecursiveFunctionExists
<1>9. f = [s \in D |-> raise(s[1], s[2], pin, f)]
  <2> HIDE DEF Step
  <2>1. [s \in D |-> Step[<<s, f>>]] = [s \in D |-> raise(s[1], s[2], pin, f)]
    BY <1>1, <1>8, Zenon DEF IsFixpoint
  <2> QED
    BY <1>8, <2>1, Zenon DEF IsFixpoint
<1> DEFINE raised == siftUp(0..n, pin)
<1>10. raised = [s \in D |-> raise(s[1], s[2], pin, raised)]
  BY <1>9, Zenon DEF siftUp
<1>11. \A s \in D : raised[s] = raise(s[1], s[2], pin, raised)
  <2> HIDE DEF raised, D
  <2> QED
    BY <1>10
<1> HIDE DEF raised
<1>12. \A a \in V, i \in 0..n : <<a, i>> \in D
  BY DEF Places
<1> HIDE DEF D
<1> QED
  BY <1>11, <1>12 DEF raised

(* The loop of insert ends with a heap of the items it began with, and pin. *)
LEMMA SiftUpFacts ==
  ASSUME order \in {0, 1}, NEW n \in Nat, NEW pin \in Item, NEW R,
         NEW a \in [0..n -> Item], NEW i \in 0..n, HoleAt(a, i, pin, 0..n, R)
  PROVE  /\ HasItems(siftUp(0..n, pin)[<<a, i>>], 0..n, R)
         /\ IsHeap(siftUp(0..n, pin)[<<a, i>>], 0..n)
<1> DEFINE I == 0..n
           raised == siftUp(I, pin)
           Done(b, j) == HoleAt(b, j, pin, I, R) =>
                           HasItems(raised[<<b, j>>], I, R) /\ IsHeap(raised[<<b, j>>], I)
           P == {s \in Places(I) : Done(s[1], s[2])}
<1>1. ASSUME NEW b \in [I -> Item], NEW j \in I
      PROVE  /\ <<b, j>> \in Places(I) /\ (<<b, j>> \in P <=> Done(b, j))
             /\ Index(I)[<<b, j>>] = j
  <2>1. <<b, j>> \in Places(I)
    BY DEF Places
  <2> HIDE DEF Done, I
  <2> QED
    BY <2>1 DEF Index
<1>2. \A s \in Places(I) : s[1] \in [I -> Item] /\ s[2] \in I /\ s = <<s[1], s[2]>>
  <2> HIDE DEF I
  <2> QED
    BY DEF Places
<1>3. ASSUME NEW b \in [I -> Item], NEW j \in I,
             \A s \in Places(I) : Index(I)[s] < Index(I)[<<b, j>>] => s \in P
      PROVE  Done(b, j)
  <2> SUFFICES ASSUME HoleAt(b, j, pin, I, R)
               PROVE  HasItems(raised[<<b, j>>], I, R) /\ IsHeap(raised[<<b, j>>], I)
    OBVIOUS
  <2>1. raised[<<b, j>>] = raise(b, j, pin, raised)
    BY SiftUpUnfolds
  <2>2. CASE j > 0 /\ comesAfter(b[parent(j)], pin)
    <3> DEFINE c == [b EXCEPT ![j] = b[parent(j)]]
    <3>1. raised[<<b, j>>] = raised[<<c, parent(j)>>]
      BY <2>1, <2>2 DEF raise
    <3>2. c \in [I -> Item] /\ parent(j) \in I /\ parent(j) < j
      <4>1. j \in Nat
        OBVIOUS
      <4>2. parent(j) \in Nat /\ parent(j) < j
        BY <2>2, <4>1, PlaceFacts
      <4>3. parent(j) \in I
        BY <4>2
      <4> QED
        BY <4>2, <4>3
    <3>3. HoleAt(c, parent(j), pin, I, R)
      BY <2>2, TurnRaises
    <3> HIDE DEF c, P, Done, I, raised
    <3>4. <<c, parent(j)>> \in P
      BY <1>1, <1>3, <3>2
    <3>5. Done(c, parent(j))
      BY <1>1, <3>2, <3>4
    <3> QED
      BY <3>1, <3>3, <3>5 DEF Done
  <2>3. CASE ~(j > 0 /\ comesAfter(b[parent(j)], pin))
    <3>1. raised[<<b, j>>] = [b EXCEPT ![j] = pin]
      BY <2>1, <2>3 DEF raise
    <3>2. HasItems([b EXCEPT ![j] = pin], I, R) /\ IsHeap([b EXCEPT ![j] = pin], I)
      BY <2>3, LastTurnRaises
    <3> HIDE DEF raised, I
    <3> QED
      BY <3>1, <3>2, Zenon
  <2> QED
    BY <2>2, <2>3
<1>4. Places(I) \subseteq P
  <2>1. Index(I) \in [Places(I) -> Nat]
    <3>1. \A s \in Places(I) : s[2] \in Nat
      BY <1>2
    <3> QED
      BY <3>1 DEF Index
  <2>2. ASSUME NEW s \in Places(I), \A t \in Places(I) : Index(I)[t] < Index(I)[s] => t \in P
        PROVE  s \in P
    <3> HIDE DEF P, Done, I
    <3>1. Done(s[1], s[2])
      BY <1>2, <1>3, <2>2
    <3> QED
      BY <1>1, <1>2, <3>1
  <2> HIDE DEF P, I
  <2> QED
    BY <2>1, <2>2, SizeInduction
<1>5. Done(a, i)
  <2> HIDE DEF P, Done
  <2> QED
    BY <1>1, <1>4
<1> QED
  BY <1>5

-----------------------------------------------------------------------------
(* The loop of heapify *)

(* Only the children of i may come before it; what is above i is in order with
   them. *)
SinksAt(a, i, indices, R) ==
  /\ HasItems(a, indices, R)
  /\ \A j \in indices : (j > 0 /\ parent(j) # i) => InOrder(a[parent(j)], a[j])
  /\ \A j \in indices : (i > 0 /\ j > 0 /\ parent(j) = i) => InOrder(a[parent(i)], a[j])

LEMMA LargestFacts ==
  ASSUME order \in {0, 1}, NEW n \in Nat, NEW a \in [0..n -> Item], NEW i \in 0..n
  PROVE  /\ largest(a, i) \in 0..n
         /\ largest(a, i) # i =>
              /\ largest(a, i) > i /\ parent(largest(a, i)) = i
              /\ InOrder(a[largest(a, i)], a[i])
         /\ \A j \in 0..n : (j > 0 /\ parent(j) = i) => InOrder(a[largest(a, i)], a[j])
<1> DEFINE lc == left(i)
           rc == right(i)
           I == 0..n
           l == IF lc \in I /\ comesBefore(a[lc], a[i]) THEN lc ELSE i
           m == IF rc \in I /\ comesBefore(a[rc], a[l]) THEN rc ELSE l
<1>1. largest(a, i) = m
  BY DEF largest
<1>2. /\ i \in I /\ i \in Nat /\ lc \in Nat /\ rc \in Nat /\ rc > i
      /\ lc = i \/ lc > i
      /\ parent(lc) = i /\ parent(rc) = i
      /\ \A j \in I : parent(j) = i => j = lc \/ j = rc
  <2>1. i \in Nat /\ \A j \in I : j \in Nat
    OBVIOUS
  <2>2. /\ lc \in Nat /\ rc \in Nat /\ rc > i /\ (lc = i \/ lc > i)
        /\ \A j \in Nat : parent(j) = i <=> j = lc \/ j = rc
    BY <2>1, PlaceFacts
  <2> QED
    BY <2>1, <2>2
<1>3. a \in [I -> Item]
  OBVIOUS
<1> HIDE DEF lc, rc, I
<1>4. /\ l \in I /\ (l # i => l = lc)
      /\ InOrder(a[l], a[i]) /\ (lc \in I => InOrder(a[l], a[lc]))
  BY <1>2, <1>3, OrderFacts
<1> HIDE DEF l
<1>5. /\ m \in I /\ (m # i => m = lc \/ m = rc)
      /\ InOrder(a[m], a[l]) /\ (rc \in I => InOrder(a[m], a[rc]))
  BY <1>2, <1>3, <1>4, OrderFacts
<1> HIDE DEF m
<1>6. /\ InOrder(a[m], a[i]) /\ (lc \in I => InOrder(a[m], a[lc]))
  BY <1>2, <1>3, <1>4, <1>5, OrderFacts
<1>7. m # i => m > i /\ parent(m) = i
  BY <1>2, <1>5
<1>8. \A j \in I : (j > 0 /\ parent(j) = i) => InOrder(a[m], a[j])
  BY <1>2, <1>5, <1>6
<1> QED
  BY <1>1, <1>5, <1>6, <1>7, <1>8 DEF I

(* One turn moves the item down. *)
LEMMA TurnLowers ==
  ASSUME order \in {0, 1}, NEW n \in Nat, NEW R, NEW a \in [0..n -> Item], NEW i \in 0..n,
         SinksAt(a, i, 0..n, R), largest(a, i) # i
  PROVE  SinksAt(exchange(a, i, largest(a, i)), largest(a, i), 0..n, R)
<1> DEFINE m == largest(a, i)
           b == exchange(a, i, m)
           I == 0..n
<1>1. /\ m \in I /\ m > i /\ parent(m) = i /\ InOrder(a[m], a[i])
      /\ \A j \in I : (j > 0 /\ parent(j) = i) => InOrder(a[m], a[j])
  BY LargestFacts
<1>2. /\ HasItems(a, I, R)
      /\ \A j \in I : (j > 0 /\ parent(j) # i) => InOrder(a[parent(j)], a[j])
      /\ \A j \in I : (i > 0 /\ j > 0 /\ parent(j) = i) => InOrder(a[parent(i)], a[j])
  BY DEF SinksAt
<1>3. i \in I /\ i \in Nat /\ \A j \in I : j \in Nat
  OBVIOUS
<1>4. \A j \in I : j > 0 => parent(j) \in I /\ parent(j) < j
  <2>1. \A j \in I : j > 0 => parent(j) \in Nat /\ parent(j) < j
    BY <1>3, PlaceFacts
  <2> QED
    BY <2>1
<1>5. a \in [I -> Item]
  OBVIOUS
<1> HIDE DEF m, I
<1>6. HasItems(b, I, R)
  BY <1>1, <1>2, <1>3, ExchangeFacts
<1>7. b[i] = a[m] /\ b[m] = a[i] /\ \A j \in I : j # i /\ j # m => b[j] = a[j]
  BY <1>1, <1>3, <1>5 DEF exchange
<1> HIDE DEF b
<1>8. ASSUME NEW j \in I, j > 0, parent(j) # m
      PROVE  InOrder(b[parent(j)], b[j])
  <2>1. CASE j = m
    BY <1>1, <1>7, <2>1
  <2>2. CASE j = i
    <3>1. parent(i) # i /\ parent(i) # m /\ parent(i) \in I
      BY <1>1, <1>3, <1>4, <1>8, <2>2
    <3>2. m > 0
      BY <1>1, <1>3
    <3> QED
      BY <1>1, <1>2, <1>7, <1>8, <2>2, <3>1, <3>2
  <2>3. CASE j # m /\ j # i /\ parent(j) = i
    BY <1>1, <1>7, <1>8, <2>3
  <2>4. CASE j # m /\ j # i /\ parent(j) # i
    BY <1>2, <1>4, <1>7, <1>8, <2>4
  <2> QED
    BY <2>1, <2>2, <2>3, <2>4
<1>9. ASSUME NEW j \in I, j > 0, parent(j) = m
      PROVE  InOrder(b[parent(m)], b[j])
  <2>1. j # m /\ j # i /\ m # i
    BY <1>1, <1>3, <1>4, <1>9
  <2> QED
    BY <1>1, <1>2, <1>7, <1>9, <2>1
<1>10. SinksAt(b, m, I, R)
  BY <1>6, <1>8, <1>9 DEF SinksAt
<1> QED
  BY <1>10 DEF b, m, I

(* When it stops the item is in its place. *)
LEMMA LastTurnLowers ==
  ASSUME order \in {0, 1}, NEW n \in Nat, NEW R, NEW a \in [0..n -> Item], NEW i \in 0..n,
         SinksAt(a, i, 0..n, R), largest(a, i) = i
  PROVE  HasItems(a, 0..n, R) /\ IsHeap(a, 0..n)
<1>1. \A j \in 0..n : (j > 0 /\ parent(j) = i) => InOrder(a[i], a[j])
  BY LargestFacts
<1> QED
  BY <1>1 DEF SinksAt, IsHeap

(* The number of indices after the one where the loop is. *)
After(n) == [s \in Places(0..n) |-> n - s[2]]

LEMMA LowerTyped ==
  ASSUME order \in {0, 1}, NEW n \in Nat, NEW a \in [0..n -> Item], NEW i \in 0..n,
         largest(a, i) # i
  PROVE  /\ exchange(a, i, largest(a, i)) \in [0..n -> Item] /\ largest(a, i) \in 0..n
         /\ <<exchange(a, i, largest(a, i)), largest(a, i)>> \in Places(0..n)
         /\ After(n)[<<exchange(a, i, largest(a, i)), largest(a, i)>>] < After(n)[<<a, i>>]
<1>1. largest(a, i) \in 0..n /\ largest(a, i) > i
  BY LargestFacts
<1>2. exchange(a, i, largest(a, i)) \in [0..n -> Item]
  BY <1>1 DEF exchange
<1> DEFINE m == largest(a, i)
           b == exchange(a, i, m)
<1> HIDE DEF m, b
<1>3. b \in [0..n -> Item] /\ m \in 0..n /\ m > i
  BY <1>1, <1>2 DEF m, b
<1>4. <<b, m>> \in Places(0..n) /\ <<a, i>> \in Places(0..n)
  BY <1>3 DEF Places
<1>5. After(n)[<<b, m>>] = n - m /\ After(n)[<<a, i>>] = n - i
  BY <1>4 DEF After
<1> QED
  BY <1>3, <1>4, <1>5 DEF b, m

LEMMA HeapifyUnfolds ==
  ASSUME order \in {0, 1}, NEW n \in Nat, Item # {}
  PROVE  \A a \in [0..n -> Item], i \in 0..n :
           heapify(0..n)[<<a, i>>] = lower(a, i, heapify(0..n))
<1> DEFINE D == Places(0..n)
           V == [0..n -> Item]
           Step == [z \in D \X [D -> V] |-> lower(z[1][1], z[1][2], z[2])]
<1>1. \A s \in D : \A f \in [D -> V] : Step[<<s, f>>] = lower(s[1], s[2], f)
  OBVIOUS
<1>2. \A s \in D : s[1] \in V /\ s[2] \in 0..n /\ s = <<s[1], s[2]>>
  BY DEF Places
<1>3. ASSUME NEW s \in D, largest(s[1], s[2]) # s[2]
      PROVE  /\ <<exchange(s[1], s[2], largest(s[1], s[2])), largest(s[1], s[2])>> \in D
             /\ After(n)[<<exchange(s[1], s[2], largest(s[1], s[2])), largest(s[1], s[2])>>]
                  < After(n)[s]
  <2> DEFINE a == s[1]
             i == s[2]
  <2>1. a \in V /\ i \in 0..n /\ s = <<a, i>> /\ largest(a, i) # i
    BY <1>2, <1>3
  <2> HIDE DEF a, i
  <2>2. /\ <<exchange(a, i, largest(a, i)), largest(a, i)>> \in D
        /\ After(n)[<<exchange(a, i, largest(a, i)), largest(a, i)>>] < After(n)[<<a, i>>]
    BY <2>1, LowerTyped
  <2> QED
    BY <2>1, <2>2 DEF a, i
<1>4. Step \in [D \X [D -> V] -> V]
  <2>1. \A s \in D : \A f \in [D -> V] : lower(s[1], s[2], f) \in V
    <3> HIDE DEF V, D
    <3> QED
      BY <1>2, <1>3 DEF lower
  <2> QED
    BY <2>1
<1>5. LooksBelow(Step, After(n), D, V)
  <2> HIDE DEF Step, D, V
  <2> SUFFICES ASSUME NEW s \in D, NEW f \in [D -> V], NEW g \in [D -> V],
                      \A e \in D : After(n)[e] < After(n)[s] => f[e] = g[e]
               PROVE  Step[<<s, f>>] = Step[<<s, g>>]
    BY DEF LooksBelow
  <2>1. lower(s[1], s[2], f) = lower(s[1], s[2], g)
    BY <1>3 DEF lower
  <2> QED
    BY <1>1, <2>1
<1>6. After(n) \in [D -> Nat]
  <2>1. \A s \in D : n - s[2] \in Nat
    BY <1>2
  <2> QED
    BY <2>1 DEF After
<1>7. V # {}
  <2>1. PICK x \in Item : TRUE
    OBVIOUS
  <2>2. [j \in 0..n |-> x] \in V
    OBVIOUS
  <2> QED
    BY <2>2
<1>8. PICK f : IsFixpoint(f, Step, D, V)
  <2> HIDE DEF D, V, Step
  <2> QED
    BY <1>4, <1>5, <1>6, <1>7, RecursiveFunctionExists
<1>9. f = [s \in D |-> lower(s[1], s[2], f)]
  <2> HIDE DEF Step
  <2>1. [s \in D |-> Step[<<s, f>>]] = [s \in D |-> lower(s[1], s[2], f)]
    BY <1>1, <1>8, Zenon DEF IsFixpoint
  <2> QED
    BY <1>8, <2>1, Zenon DEF IsFixpoint
<1> DEFINE lowered == heapify(0..n)
<1>10. lowered = [s \in D |-> lower(s[1], s[2], lowered)]
  BY <1>9, Zenon DEF heapify
<1>11. \A s \in D : lowered[s] = lower(s[1], s[2], lowered)
  <2> HIDE DEF lowered, D
  <2> QED
    BY <1>10
<1> HIDE DEF lowered
<1>12. \A a \in V, i \in 0..n : <<a, i>> \in D
  BY DEF Places
<1> HIDE DEF D
<1> QED
  BY <1>11, <1>12 DEF lowered

(* heapify ends with a heap of the items it began with. *)
LEMMA HeapifyFacts ==
  ASSUME order \in {0, 1}, NEW n \in Nat, NEW R,
         NEW a \in [0..n -> Item], NEW i \in 0..n, SinksAt(a, i, 0..n, R)
  PROVE  /\ HasItems(heapify(0..n)[<<a, i>>], 0..n, R)
         /\ IsHeap(heapify(0..n)[<<a, i>>], 0..n)
<1> DEFINE I == 0..n
           lowered == heapify(I)
           Done(b, j) == SinksAt(b, j, I, R) =>
                           HasItems(lowered[<<b, j>>], I, R) /\ IsHeap(lowered[<<b, j>>], I)
           P == {s \in Places(I) : Done(s[1], s[2])}
<1>1. ASSUME NEW b \in [I -> Item], NEW j \in I
      PROVE  <<b, j>> \in Places(I) /\ (<<b, j>> \in P <=> Done(b, j))
  <2>1. <<b, j>> \in Places(I)
    BY DEF Places
  <2> HIDE DEF Done, I
  <2> QED
    BY <2>1
<1>2. \A s \in Places(I) : s[1] \in [I -> Item] /\ s[2] \in I /\ s = <<s[1], s[2]>>
  <2> HIDE DEF I
  <2> QED
    BY DEF Places
<1>3. ASSUME NEW b \in [I -> Item], NEW j \in I,
             \A s \in Places(I) : After(n)[s] < After(n)[<<b, j>>] => s \in P
      PROVE  Done(b, j)
  <2> SUFFICES ASSUME SinksAt(b, j, I, R)
               PROVE  HasItems(lowered[<<b, j>>], I, R) /\ IsHeap(lowered[<<b, j>>], I)
    OBVIOUS
  <2>1. lowered[<<b, j>>] = lower(b, j, lowered)
    <3>1. Item # {}
      OBVIOUS
    <3> QED
      BY <3>1, HeapifyUnfolds
  <2>2. CASE largest(b, j) # j
    <3> DEFINE m == largest(b, j)
               c == exchange(b, j, m)
    <3>1. lowered[<<b, j>>] = lowered[<<c, m>>]
      BY <2>1, <2>2 DEF lower
    <3>2. /\ c \in [I -> Item] /\ m \in I /\ <<c, m>> \in Places(I)
          /\ After(n)[<<c, m>>] < After(n)[<<b, j>>]
      BY <2>2, LowerTyped
    <3>3. SinksAt(c, m, I, R)
      BY <2>2, TurnLowers
    <3> HIDE DEF c, m, P, Done, I, lowered
    <3>4. <<c, m>> \in P
      BY <1>3, <3>2
    <3>5. Done(c, m)
      BY <1>1, <3>2, <3>4
    <3> QED
      BY <3>1, <3>3, <3>5 DEF Done
  <2>3. CASE largest(b, j) = j
    <3>1. lowered[<<b, j>>] = b
      BY <2>1, <2>3 DEF lower
    <3>2. HasItems(b, I, R) /\ IsHeap(b, I)
      BY <2>3, LastTurnLowers
    <3> HIDE DEF lowered, I
    <3> QED
      BY <3>1, <3>2, Zenon
  <2> QED
    BY <2>2, <2>3
<1>4. Places(I) \subseteq P
  <2>1. After(n) \in [Places(I) -> Nat]
    <3>1. \A s \in Places(I) : n - s[2] \in Nat
      BY <1>2
    <3> QED
      BY <3>1 DEF After
  <2>2. ASSUME NEW s \in Places(I), \A t \in Places(I) : After(n)[t] < After(n)[s] => t \in P
        PROVE  s \in P
    <3> HIDE DEF P, Done, I
    <3>1. Done(s[1], s[2])
      BY <1>2, <1>3, <2>2
    <3> QED
      BY <1>1, <1>2, <3>1
  <2> HIDE DEF P, I
  <2> QED
    BY <2>1, <2>2, SizeInduction
<1>5. Done(a, i)
  <2> HIDE DEF P, Done
  <2> QED
    BY <1>1, <1>4
<1> QED
  BY <1>5

-----------------------------------------------------------------------------
(* The heap is a priority queue *)

(* The array has as many items as it has indices, and is a heap. *)
Inv ==
  /\ order \in {0, 1}
  /\ \E n \in Nat : HasItems(arr, 0..(n - 1), Range(arr)) /\ IsHeap(arr, 0..(n - 1))

LEMMA InitIsQueue == Init => Inv /\ Queue!Init
<1> SUFFICES ASSUME Init PROVE Inv /\ Queue!Init
  OBVIOUS
<1>1. arr = [i \in {} |-> NULL] /\ order \in {0, 1} /\ popped = NULL
  BY DEF Init
<1>2. Range(arr) = {} /\ 0..(0 - 1) = {}
  BY <1>1 DEF Range
<1>3. HasItems(arr, {}, {}) /\ IsHeap(arr, {})
  BY <1>1 DEF HasItems, IsHeap
<1>4. HasItems(arr, 0..(0 - 1), Range(arr)) /\ IsHeap(arr, 0..(0 - 1)) /\ 0 \in Nat
  BY <1>2, <1>3
<1> QED
  BY <1>1, <1>2, <1>4 DEF Inv, Queue!Init

(* IsHeap of the array of the next state, in the same order. *)
LEMMA NextHeap ==
  ASSUME UNCHANGED order, NEW n \in Nat,
         HasItems(arr', 0..(n - 1), Range(arr)'), IsHeap(arr', 0..(n - 1)), order \in {0, 1}
  PROVE  Inv'
BY DEF Inv, HasItems, IsHeap, InOrder, comesAfter

LEMMA SizeFacts ==
  ASSUME NEW n \in Nat, NEW R, HasItems(arr, 0..(n - 1), R)
  PROVE  size = n /\ DOMAIN arr = 0..(n - 1) /\ Range(arr) = R
<1>1. DOMAIN arr = 0..(n - 1)
  BY DEF HasItems
<1>2. Cardinality(0..(n - 1)) = n
  BY FS_Interval
<1> QED
  BY <1>1, <1>2 DEF HasItems, size, Range

LEMMA RangeFacts ==
  ASSUME NEW indices, NEW R, NEW a, HasItems(a, indices, R)
  PROVE  Range(a) = R
BY DEF HasItems, Range

LEMMA InsertStep ==
  ASSUME Inv, NEW x \in Item \ Range(arr), insert(x)
  PROVE  Inv' /\ Range(arr)' = Range(arr) \cup {x}
<1>1. PICK n \in Nat : HasItems(arr, 0..(n - 1), Range(arr)) /\ IsHeap(arr, 0..(n - 1))
  BY DEF Inv
<1> DEFINE a == push_back(x)
           R == Range(arr) \cup {x}
<1>2. size = n /\ UNCHANGED order /\ order \in {0, 1}
  BY <1>1, SizeFacts DEF insert, Inv
<1>3. a = [j \in 0..n |-> IF j < n THEN arr[j] ELSE x]
  BY <1>2 DEF push_back
<1>4. /\ arr \in [0..(n - 1) -> Item] /\ Range(arr) = {arr[j] : j \in 0..(n - 1)}
      /\ \A j, k \in 0..(n - 1) : arr[j] = arr[k] => j = k
  BY <1>1 DEF HasItems
<1>5. /\ a \in [0..n -> Item] /\ n \in 0..n /\ a[n] = x
      /\ \A j \in 0..(n - 1) : a[j] = arr[j]
      /\ \A j \in 0..n : j # n => j \in 0..(n - 1)
  BY <1>3, <1>4
<1> HIDE DEF a
<1>6. HasItems(a, 0..n, R)
  <2>1. \A j, k \in 0..n : a[j] = a[k] => j = k
    <3>1. \A j \in 0..(n - 1) : arr[j] # x
      BY <1>4
    <3> QED
      BY <1>4, <1>5, <3>1
  <2>2. ASSUME NEW y PROVE y \in R <=> \E j \in 0..n : y = a[j]
    <3>1. ASSUME y \in Range(arr) PROVE \E j \in 0..n : y = a[j]
      <4>1. PICK j \in 0..(n - 1) : y = arr[j]
        BY <1>4, <3>1
      <4>2. j \in 0..n /\ y = a[j]
        BY <1>5, <4>1
      <4> QED
        BY <4>2
    <3>2. ASSUME NEW j \in 0..n, y = a[j] PROVE y \in R
      BY <1>4, <1>5, <3>2
    <3> QED
      BY <1>5, <3>1, <3>2
  <2>3. R = {a[j] : j \in 0..n}
    BY <2>2
  <2> QED
    BY <1>5, <2>1, <2>3 DEF HasItems
<1>7. HoleAt(a, n, x, 0..n, R)
  <2>1. [a EXCEPT ![n] = x] = a
    BY <1>5
  <2>2. \A j \in 0..n : j > 0 => parent(j) \in Nat /\ parent(j) < j
    <3>1. \A j \in 0..n : j \in Nat
      OBVIOUS
    <3> QED
      BY <3>1, PlaceFacts
  <2>3. ASSUME NEW j \in 0..n, j > 0, j # n
        PROVE  InOrder(a[parent(j)], a[j]) /\ parent(j) # n
    <3>1. j \in 0..(n - 1) /\ parent(j) \in 0..(n - 1)
      BY <2>2, <2>3
    <3>2. InOrder(arr[parent(j)], arr[j])
      BY <1>1, <2>3, <3>1 DEF IsHeap
    <3> QED
      BY <1>5, <3>1, <3>2
  <2> HIDE DEF R
  <2> QED
    BY <1>6, <2>1, <2>3 DEF HoleAt
<1>8. arr' = siftUp(0..n, x)[<<a, n>>]
  BY <1>2 DEF insert, a
<1>9. HasItems(arr', 0..n, R) /\ IsHeap(arr', 0..n)
  <2>1. HasItems(siftUp(0..n, x)[<<a, n>>], 0..n, R) /\ IsHeap(siftUp(0..n, x)[<<a, n>>], 0..n)
    <3> HIDE DEF R
    <3> QED
      BY <1>2, <1>5, <1>7, SiftUpFacts
  <2> HIDE DEF R
  <2> QED
    BY <1>8, <2>1, Zenon
<1>10. Range(arr') = R
  <2> HIDE DEF R
  <2> QED
    BY <1>9, RangeFacts
<1>11. HasItems(arr', 0..((n + 1) - 1), Range(arr')) /\ IsHeap(arr', 0..((n + 1) - 1))
  <2>1. 0..n = 0..((n + 1) - 1)
    OBVIOUS
  <2> HIDE DEF R
  <2> QED
    BY <1>9, <1>10, <2>1, Zenon
<1>12. Inv'
  <2>1. n + 1 \in Nat
    OBVIOUS
  <2> QED
    BY <1>2, <1>11, <2>1, NextHeap
<1> QED
  BY <1>10, <1>12

LEMMA PopStep ==
  ASSUME Inv, pop
  PROVE  Inv' /\ Queue!pop(arr[0])
<1>1. PICK n \in Nat : HasItems(arr, 0..(n - 1), Range(arr)) /\ IsHeap(arr, 0..(n - 1))
  BY DEF Inv
<1> DEFINE rest == remove(arr, 0)
           R == Range(arr) \ {arr[0]}
<1>2. /\ n \in Nat \ {0} /\ UNCHANGED order /\ order \in {0, 1} /\ popped' = arr[0]
      /\ arr' = IF DOMAIN rest = {} THEN rest ELSE heapify(DOMAIN rest)[<<rest, 0>>]
  BY <1>1, SizeFacts DEF pop, Inv
<1>3. HasItems(rest, 0..(n - 2), R) /\ \A j \in 1..(n - 2) : rest[j] = arr[j]
  BY <1>1, <1>2, RemoveFacts
<1>4. rest \in [0..(n - 2) -> Item] /\ DOMAIN rest = 0..(n - 2)
  BY <1>3 DEF HasItems
<1>5. HasItems(arr', 0..(n - 2), R) /\ IsHeap(arr', 0..(n - 2))
  <2>1. CASE n = 1
    <3>1. 0..(n - 2) = {}
      BY <2>1
    <3>2. arr' = rest
      BY <1>2, <1>4, <3>1
    <3> HIDE DEF rest, R
    <3> QED
      BY <1>3, <3>1, <3>2 DEF IsHeap
  <2>2. CASE n # 1
    <3> DEFINE m == n - 2
    <3>1. m \in Nat /\ 0 \in 0..m /\ \A j \in 0..m : j \in 0..(n - 1) /\ (j > 0 => j \in 1..m)
      BY <1>2, <2>2
    <3>2. SinksAt(rest, 0, 0..m, R)
      <4>1. ASSUME NEW j \in 0..m, j > 0, parent(j) # 0
            PROVE  InOrder(rest[parent(j)], rest[j])
        <5>1. parent(j) \in Nat /\ parent(j) < j
          <6>1. j \in Nat
            OBVIOUS
          <6> QED
            BY <4>1, <6>1, PlaceFacts
        <5>2. parent(j) \in 0..m /\ parent(j) > 0
          BY <3>1, <4>1, <5>1
        <5>3. rest[j] = arr[j] /\ rest[parent(j)] = arr[parent(j)]
          BY <1>3, <3>1, <4>1, <5>2
        <5>4. InOrder(arr[parent(j)], arr[j])
          BY <1>1, <3>1, <4>1 DEF IsHeap
        <5> QED
          BY <5>3, <5>4
      <4> HIDE DEF rest, R
      <4> QED
        BY <1>3, <4>1 DEF SinksAt
    <3>3. arr' = heapify(0..m)[<<rest, 0>>]
      <4>1. DOMAIN rest = 0..m /\ DOMAIN rest # {}
        BY <1>4, <3>1
      <4> QED
        BY <1>2, <4>1, Zenon
    <3>4. rest \in [0..m -> Item]
      BY <1>4
    <3> HIDE DEF rest, R, m
    <3>5. /\ HasItems(heapify(0..m)[<<rest, 0>>], 0..m, R)
          /\ IsHeap(heapify(0..m)[<<rest, 0>>], 0..m)
      BY <1>2, <3>1, <3>2, <3>4, HeapifyFacts
    <3>6. HasItems(arr', 0..m, R) /\ IsHeap(arr', 0..m)
      BY <3>3, <3>5, Zenon
    <3> QED
      BY <3>6 DEF m
  <2> QED
    BY <2>1, <2>2
<1>6. Range(arr') = R
  <2> HIDE DEF R
  <2> QED
    BY <1>5, RangeFacts
<1>7. Inv'
  <2>1. n - 1 \in Nat /\ 0..(n - 2) = 0..((n - 1) - 1)
    BY <1>2
  <2>2. HasItems(arr', 0..((n - 1) - 1), Range(arr')) /\ IsHeap(arr', 0..((n - 1) - 1))
    <3> HIDE DEF R
    <3> QED
      BY <1>5, <1>6, <2>1, Zenon
  <2> QED
    BY <1>2, <2>1, <2>2, NextHeap
<1>8. arr[0] \in Range(arr) /\ \A y \in Range(arr) : Queue!Precedes(arr[0], y)
  <2>1. /\ arr \in [0..(n - 1) -> Item] /\ Range(arr) = {arr[j] : j \in 0..(n - 1)}
        /\ 0 \in 0..(n - 1)
    BY <1>1, <1>2 DEF HasItems
  <2>2. \A j \in 0..(n - 1) : InOrder(arr[0], arr[j])
    BY <1>1, <1>2, <2>1, RootIsFirst
  <2>3. \A j \in 0..(n - 1) : Queue!Precedes(arr[0], arr[j])
    BY <1>2, <2>1, <2>2, OrderFacts
  <2> QED
    BY <2>1, <2>3
<1> QED
  BY <1>2, <1>6, <1>7, <1>8 DEF Queue!pop

LEMMA NextIsQueue ==
  Inv /\ [Next]_vars => Inv' /\ [Queue!Next]_<<Range(arr), order, popped>>
<1> SUFFICES ASSUME Inv, [Next]_vars
             PROVE  Inv' /\ [Queue!Next]_<<Range(arr), order, popped>>
  OBVIOUS
<1>1. ASSUME NEW x \in Item \ Range(arr), insert(x)
      PROVE  Inv' /\ Queue!Next
  <2>1. Inv' /\ Range(arr)' = Range(arr) \cup {x}
    BY <1>1, InsertStep
  <2>2. popped' = NULL /\ UNCHANGED order
    BY <1>1 DEF insert
  <2>3. Queue!insert(x)
    BY <2>1, <2>2 DEF Queue!insert
  <2> QED
    BY <2>1, <2>3 DEF Queue!Next
<1>2. CASE pop
  <2>1. Inv' /\ Queue!pop(arr[0])
    BY <1>2, PopStep
  <2>2. arr[0] \in Range(arr)
    BY <2>1 DEF Queue!pop
  <2> QED
    BY <2>1, <2>2 DEF Queue!Next
<1>3. CASE UNCHANGED vars
  <2>1. UNCHANGED <<Range(arr), order, popped>>
    BY <1>3 DEF vars, Range
  <2>2. Inv'
    BY <1>3 DEF vars, Inv, HasItems, IsHeap, InOrder, comesAfter, Range
  <2> QED
    BY <2>1, <2>2
<1> QED
  BY <1>1, <1>2, <1>3 DEF Next

(* insert and pop lose no item and make up none, and pop returns one that no other
   one comes before: the array implements the priority queue that the agenda of the
   search takes it for. *)
THEOREM HeapImplementsQueue == Spec => IsPriorityQueue
BY InitIsQueue, NextIsQueue, PTL DEF Spec, IsPriorityQueue, Queue!Spec

=============================================================================
