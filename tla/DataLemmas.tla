----------------------------- MODULE DataLemmas -----------------------------
(***************************************************************************)
(* Facts about naturals, recursive functions and sums over finite sets     *)
(* that the proofs of several components need.                             *)
(*                                                                         *)
(* A property of all naturals is given as a set, and the step of a         *)
(* recursion as a function, so that no lemma has an operator as parameter. *)
(***************************************************************************)
EXTENDS Integers, Sequences, FiniteSets, FiniteSetTheorems, WellFoundedInduction, TLAPS

-----------------------------------------------------------------------------
(* Naturals *)

(* A set of naturals that is not empty has a least element. *)
LEMMA LeastNatural ==
  ASSUME NEW S, S \subseteq Nat, S # {}
  PROVE  \E m \in S : \A n \in S : m <= n
<1> DEFINE R == OpToRel(<, Nat)
<1>1. IsWellFoundedOn(R, Nat)
  BY NatLessThanWellFounded
<1>2. \A x, y \in Nat : y < x => <<y, x>> \in R
  BY DEF OpToRel
<1> HIDE DEF R
<1>3. PICK m \in S : \A y \in S : ~(<<y, m>> \in R)
  BY <1>1, WFMin, Zenon
<1>4. \A n \in S : m \in Nat /\ n \in Nat /\ ~(n < m)
  BY <1>2, <1>3, Zenon
<1>5. \A n \in S : m <= n
  BY <1>4
<1> QED
  BY <1>5

(* A set of naturals with 0 and all successors has them all: for induction, with
   the property as a set. *)
LEMMA Induction ==
  ASSUME NEW P, 0 \in P, \A n \in Nat : n \in P => n + 1 \in P
  PROVE  Nat \subseteq P
<1> SUFFICES ASSUME Nat \ P # {} PROVE FALSE
  OBVIOUS
<1>1. PICK m \in Nat \ P : \A n \in Nat \ P : m <= n
  BY LeastNatural
<1>2. m # 0 /\ m - 1 \in Nat
  OBVIOUS
<1>3. m - 1 \in P
  BY <1>1, <1>2
<1> QED
  BY <1>2, <1>3

-----------------------------------------------------------------------------
(* Recursive functions *)

(* The first n values of the recursion with step G after the first one. *)
Iterates(f, n, V, base, G) ==
  /\ f \in [0..n -> V]
  /\ f[0] = base
  /\ \A i \in 0..(n - 1) : f[i + 1] = G[<<i, f[i]>>]

(* Two of them agree where both are defined. *)
LEMMA IteratesAgree ==
  ASSUME NEW V, NEW base, NEW G, NEW n \in Nat, NEW m \in Nat, n <= m,
         NEW f, Iterates(f, n, V, base, G), NEW g, Iterates(g, m, V, base, G)
  PROVE  f[n] = g[n]
<1> DEFINE P == {i \in Nat : i <= n => f[i] = g[i]}
<1>1. 0 \in P
  BY DEF Iterates
<1>2. ASSUME NEW i \in Nat, i \in P
      PROVE  i + 1 \in P
  <2>1. SUFFICES ASSUME i + 1 <= n PROVE f[i + 1] = g[i + 1]
    OBVIOUS
  <2>2. i \in 0..(n - 1) /\ i \in 0..(m - 1) /\ f[i] = g[i]
    BY <1>2, <2>1
  <2> QED
    BY <2>2 DEF Iterates
<1> HIDE DEF P
<1>3. n \in P
  BY <1>1, <1>2, Induction
<1> QED
  BY <1>3 DEF P

LEMMA IteratesExist ==
  ASSUME NEW V, NEW base \in V, NEW G \in [Nat \X V -> V], NEW n \in Nat
  PROVE  \E f : Iterates(f, n, V, base, G)
<1> DEFINE P == {m \in Nat : \E f : Iterates(f, m, V, base, G)}
<1>1. 0 \in P
  <2> DEFINE f == [i \in 0..0 |-> base]
  <2>1. Iterates(f, 0, V, base, G)
    BY DEF Iterates
  <2> QED
    BY <2>1
<1>2. ASSUME NEW m \in Nat, m \in P
      PROVE  m + 1 \in P
  <2>1. PICK f : Iterates(f, m, V, base, G)
    BY <1>2
  <2> DEFINE g == [i \in 0..(m + 1) |-> IF i = m + 1 THEN G[<<m, f[m]>>] ELSE f[i]]
  <2>2. f[m] \in V /\ G[<<m, f[m]>>] \in V
    BY <2>1 DEF Iterates
  <2>3. g \in [0..(m + 1) -> V]
    BY <2>1, <2>2 DEF Iterates
  <2>4. g[0] = base
    BY <2>1 DEF Iterates
  <2>5. ASSUME NEW i \in 0..((m + 1) - 1)
        PROVE  g[i + 1] = G[<<i, g[i]>>]
    <3>1. g[i] = f[i] /\ i \in Nat
      OBVIOUS
    <3>2. CASE i = m
      <4>1. g[m + 1] = G[<<m, f[m]>>]
        OBVIOUS
      <4> QED
        BY <3>1, <3>2, <4>1
    <3>3. CASE i # m
      <4>1. i \in 0..(m - 1) /\ g[i + 1] = f[i + 1]
        BY <3>3
      <4> QED
        BY <2>1, <3>1, <4>1 DEF Iterates
    <3> QED
      BY <3>2, <3>3
  <2> HIDE DEF g
  <2>6. Iterates(g, m + 1, V, base, G)
    BY <2>3, <2>4, <2>5 DEF Iterates
  <2> QED
    BY <2>6
<1> HIDE DEF P
<1>3. n \in P
  BY <1>1, <1>2, Induction
<1> QED
  BY <1>3 DEF P

(* The function that the recursion defines. *)
IsRecursion(f, V, base, G) ==
  /\ f \in [Nat -> V]
  /\ f[0] = base
  /\ \A n \in Nat : f[n + 1] = G[<<n, f[n]>>]

IsStep(G, V) == G \in [Nat \X V -> V]

LEMMA Recursion ==
  ASSUME NEW V, NEW base, base \in V, NEW G, IsStep(G, V)
  PROVE  \E f : IsRecursion(f, V, base, G)
<1> DEFINE upto(n) == CHOOSE f : Iterates(f, n, V, base, G)
           f == [n \in Nat |-> upto(n)[n]]
<1>1. \A n \in Nat : Iterates(upto(n), n, V, base, G)
  BY IteratesExist DEF IsStep
<1>2. \A n \in Nat : f[n] = upto(n)[n]
  OBVIOUS
<1>3. f \in [Nat -> V]
  <2>1. \A n \in Nat : upto(n)[n] \in V
    BY <1>1, SMTT(30) DEF Iterates
  <2> QED
    BY <2>1
<1> HIDE DEF f, upto
<1>4. f[0] = base
  BY <1>1, <1>2 DEF Iterates
<1>5. ASSUME NEW n \in Nat
      PROVE  f[n + 1] = G[<<n, f[n]>>]
  <2>1. Iterates(upto(n), n, V, base, G) /\ Iterates(upto(n + 1), n + 1, V, base, G)
    BY <1>1
  <2>2. upto(n)[n] = upto(n + 1)[n]
    BY <2>1, IteratesAgree
  <2>3. upto(n + 1)[n + 1] = G[<<n, upto(n + 1)[n]>>]
    BY <2>1 DEF Iterates
  <2> QED
    BY <1>2, <2>2, <2>3
<1> QED
  BY <1>3, <1>4, <1>5 DEF IsRecursion

(* Induction on a size. *)
LEMMA SizeInduction ==
  ASSUME NEW D, NEW size \in [D -> Nat], NEW P,
         \A d \in D : (\A e \in D : size[e] < size[d] => e \in P) => d \in P
  PROVE  D \subseteq P
<1> DEFINE S == {size[d] : d \in D \ P}
<1> SUFFICES ASSUME D \ P # {} PROVE FALSE
  OBVIOUS
<1>1. S \subseteq Nat /\ S # {}
  OBVIOUS
<1>2. PICK m \in S : \A n \in S : m <= n
  <2> HIDE DEF S
  <2> QED
    BY <1>1, LeastNatural
<1>3. PICK d \in D \ P : size[d] = m
  OBVIOUS
<1>4. \A e \in D : e \notin P => m <= size[e]
  BY <1>2
<1>5. \A e \in D : size[e] \in Nat /\ size[d] \in Nat
  OBVIOUS
<1>6. \A e \in D : size[e] < size[d] => e \in P
  <2> HIDE DEF S
  <2> QED
    BY <1>3, <1>4, <1>5
<1> QED
  BY <1>3, <1>6, Zenon

(* A function defined by its values at arguments of smaller size.  Step gives the
   value at d from a function f, of which it looks at smaller arguments only. *)
LooksBelow(Step, size, D, V) ==
  \A d \in D : \A f, g \in [D -> V] :
    (\A e \in D : size[e] < size[d] => f[e] = g[e]) => Step[<<d, f>>] = Step[<<d, g>>]

IsRounds(F, Step, D, V) ==
  /\ F \in [Nat -> [D -> V]]
  /\ \A n \in Nat : \A d \in D : F[n + 1][d] = Step[<<d, F[n]>>]

Settles(F, size, D) ==
  \A d \in D : \A n \in Nat : size[d] < n => F[n][d] = F[size[d] + 1][d]

(* Iterating such a step from anything settles the value at d after size[d]
   rounds. *)
LEMMA IteratesSettle ==
  ASSUME NEW D, NEW V, NEW size, size \in [D -> Nat], NEW Step, LooksBelow(Step, size, D, V),
         NEW F, IsRounds(F, Step, D, V)
  PROVE  Settles(F, size, D)
<1> USE DEF IsRounds
<1> DEFINE P == {n \in Nat : \A d \in D : size[d] < n => F[n + 1][d] = F[n][d]}
<1>1. 0 \in P
  OBVIOUS
<1>2. ASSUME NEW n \in Nat, n \in P
      PROVE  n + 1 \in P
  <2> SUFFICES ASSUME NEW d \in D, size[d] < n + 1
               PROVE  F[(n + 1) + 1][d] = F[n + 1][d]
    OBVIOUS
  <2>1. \A e \in D : size[e] < size[d] => F[n + 1][e] = F[n][e]
    BY <1>2
  <2>2. F[n] \in [D -> V] /\ F[n + 1] \in [D -> V]
    OBVIOUS
  <2>3. Step[<<d, F[n + 1]>>] = Step[<<d, F[n]>>]
    BY <2>1, <2>2 DEF LooksBelow
  <2> QED
    BY <2>3
<1> HIDE DEF P
<1>3. \A n \in Nat : n \in P
  BY <1>1, <1>2, Induction
<1> SUFFICES ASSUME NEW d \in D
             PROVE  \A n \in Nat : size[d] < n => F[n][d] = F[size[d] + 1][d]
  BY DEF Settles
<1> DEFINE R == {n \in Nat : size[d] < n => F[n][d] = F[size[d] + 1][d]}
<1>4. 0 \in R
  OBVIOUS
<1>5. ASSUME NEW n \in Nat, n \in R
      PROVE  n + 1 \in R
  <2>1. CASE size[d] < n
    BY <1>3, <1>5, <2>1 DEF P
  <2>2. CASE size[d] = n
    BY <2>2
  <2>3. CASE size[d] > n
    BY <2>3
  <2> QED
    BY <2>1, <2>2, <2>3
<1> HIDE DEF R
<1>6. \A n \in Nat : n \in R
  BY <1>4, <1>5, Induction
<1> QED
  BY <1>6 DEF R

IsFixpoint(f, Step, D, V) ==
  f \in [D -> V] /\ f = [d \in D |-> Step[<<d, f>>]]

LEMMA RecursiveFunctionExists ==
  ASSUME NEW D, NEW V, V # {}, NEW size, size \in [D -> Nat],
         NEW Step, Step \in [D \X [D -> V] -> V], LooksBelow(Step, size, D, V)
  PROVE  \E f : IsFixpoint(f, Step, D, V)
<1> DEFINE base == [d \in D |-> CHOOSE v \in V : TRUE]
           G == [z \in Nat \X [D -> V] |-> [d \in D |-> Step[<<d, z[2]>>]]]
<1>1. base \in [D -> V] /\ IsStep(G, [D -> V])
  BY DEF IsStep
<1>2. \A n \in Nat : \A f \in [D -> V] : \A d \in D : G[<<n, f>>][d] = Step[<<d, f>>]
  OBVIOUS
<1> HIDE DEF base, G
<1>3. PICK F : IsRecursion(F, [D -> V], base, G)
  BY <1>1, Recursion
<1>4. \A n \in Nat : \A d \in D : F[n + 1][d] = Step[<<d, F[n]>>]
  <2>1. F \in [Nat -> [D -> V]] /\ \A n \in Nat : F[n + 1] = G[<<n, F[n]>>]
    BY <1>3 DEF IsRecursion
  <2>2. \A n \in Nat : F[n] \in [D -> V]
    BY <2>1
  <2> SUFFICES ASSUME NEW n \in Nat, NEW d \in D PROVE F[n + 1][d] = Step[<<d, F[n]>>]
    OBVIOUS
  <2>3. G[<<n, F[n]>>][d] = Step[<<d, F[n]>>]
    BY <1>2, <2>2
  <2> QED
    BY <2>1, <2>3
<1>10. F \in [Nat -> [D -> V]]
  BY <1>3 DEF IsRecursion
<1>5. \A d \in D : \A n \in Nat : size[d] < n => F[n][d] = F[size[d] + 1][d]
  <2>1. IsRounds(F, Step, D, V)
    BY <1>10, <1>4 DEF IsRounds
  <2> QED
    <3>1. Settles(F, size, D)
      BY <2>1, IteratesSettle
    <3> QED
      BY <3>1 DEF Settles
<1> DEFINE f == [d \in D |-> F[size[d] + 1][d]]
<1>6. f \in [D -> V] /\ \A d \in D : f[d] = F[size[d] + 1][d]
  BY <1>10
<1> HIDE DEF f
<1>7. ASSUME NEW d \in D
      PROVE  f[d] = Step[<<d, f>>]
  <2>1. size[d] \in Nat /\ F[size[d]] \in [D -> V]
    BY <1>10
  <2>2. \A e \in D : size[e] < size[d] => F[size[d]][e] = f[e]
    BY <1>5, <1>6, <2>1
  <2>3. Step[<<d, F[size[d]]>>] = Step[<<d, f>>]
    BY <1>6, <2>1, <2>2 DEF LooksBelow
  <2> QED
    BY <1>4, <1>6, <2>1, <2>3
<1>8. f = [d \in D |-> f[d]]
  BY <1>6
<1>9. f = [d \in D |-> Step[<<d, f>>]]
  <2>1. [d \in D |-> f[d]] = [d \in D |-> Step[<<d, f>>]]
    BY <1>7, Zenon
  <2> QED
    BY <1>8, <2>1, Zenon
<1> QED
  BY <1>6, <1>9 DEF IsFixpoint

-----------------------------------------------------------------------------
(* Finite sets *)

(* Among parts of a finite set there is one of which no smaller one, by one
   element, is among them too: for induction on the parts of a finite set. *)
LEMMA SmallestPart ==
  ASSUME NEW S, IsFiniteSet(S), NEW Q \in SUBSET (SUBSET S), Q # {}
  PROVE  \E s \in Q : \A x \in s : s \ {x} \notin Q
<1> DEFINE sizes == {Cardinality(s) : s \in Q}
<1>1. \A s \in SUBSET S : IsFiniteSet(s) /\ Cardinality(s) \in Nat
  BY FS_Subset, FS_CardinalityType
<1>2. sizes \subseteq Nat /\ sizes # {}
  BY <1>1
<1>3. PICK m \in sizes : \A n \in sizes : m <= n
  <2> HIDE DEF sizes
  <2> QED
    BY <1>2, LeastNatural
<1>4. PICK s \in Q : m = Cardinality(s)
  OBVIOUS
<1>5. ASSUME NEW x \in s, s \ {x} \in Q
      PROVE  FALSE
  <2>1. Cardinality(s \ {x}) = m - 1 /\ m \in Nat
    BY <1>1, <1>4, FS_RemoveElement
  <2>2. Cardinality(s \ {x}) \in sizes
    BY <1>5
  <2>3. m <= m - 1
    BY <1>3, <2>1, <2>2
  <2> QED
    BY <2>1, <2>3
<1> QED
  BY <1>5

-----------------------------------------------------------------------------
(* Sums *)

(* The sums of w over the parts of S, told by what an element adds to a part. *)
IsTotal(g, w, S) ==
  /\ g \in [SUBSET S -> Nat]
  /\ g[{}] = 0
  /\ \A s \in SUBSET S : \A x \in s : g[s] = w[x] + g[s \ {x}]

Sum(w, S) == (CHOOSE g : IsTotal(g, w, S))[S]

(* A finite set has such sums: those of S \ {a}, extended to the parts with a. *)
LEMMA TotalExtends ==
  ASSUME NEW S, NEW w, \A x \in S : w[x] \in Nat, NEW a \in S,
         NEW f, IsTotal(f, w, S \ {a})
  PROVE  \E g : IsTotal(g, w, S)
<1> DEFINE g == [s \in SUBSET S |-> IF a \in s THEN w[a] + f[s \ {a}] ELSE f[s]]
<1>1. f \in [SUBSET (S \ {a}) -> Nat]
  BY DEF IsTotal
<1>2. \A s \in SUBSET S : /\ a \in s => s \ {a} \in SUBSET (S \ {a})
                          /\ a \notin s => s \in SUBSET (S \ {a})
  OBVIOUS
<1>3. \A s \in SUBSET S : g[s] = IF a \in s THEN w[a] + f[s \ {a}] ELSE f[s]
  OBVIOUS
<1>4. g \in [SUBSET S -> Nat]
  BY <1>1, <1>2
<1>5. g[{}] = 0
  BY <1>3 DEF IsTotal
<1> HIDE DEF g
<1>6. ASSUME NEW s \in SUBSET S, NEW x \in s
      PROVE  g[s] = w[x] + g[s \ {x}]
  <2>1. w[x] \in Nat /\ w[a] \in Nat /\ s \ {x} \in SUBSET S
    OBVIOUS
  <2>2. CASE x = a
    BY <1>3, <2>1, <2>2
  <2>3. CASE x # a /\ a \in s
    <3>1. s \ {a} \in SUBSET (S \ {a}) /\ x \in s \ {a}
      BY <2>3
    <3>2. (s \ {a}) \ {x} = (s \ {x}) \ {a} /\ a \in s \ {x}
      BY <2>3
    <3>3. f[s \ {a}] = w[x] + f[(s \ {x}) \ {a}]
      BY <3>1, <3>2 DEF IsTotal
    <3>4. f[(s \ {x}) \ {a}] \in Nat
      BY <1>1
    <3>5. g[s] = w[a] + f[s \ {a}]
      BY <1>3, <2>3
    <3>6. g[s \ {x}] = w[a] + f[(s \ {x}) \ {a}]
      BY <1>3, <2>1, <3>2
    <3> QED
      BY <2>1, <3>3, <3>4, <3>5, <3>6
  <2>4. CASE a \notin s
    <3>1. s \in SUBSET (S \ {a})
      BY <2>4
    <3>2. f[s] = w[x] + f[s \ {x}]
      BY <3>1 DEF IsTotal
    <3> QED
      BY <1>3, <2>1, <2>4, <3>2
  <2> QED
    BY <2>2, <2>3, <2>4
<1> QED
  BY <1>4, <1>5, <1>6, ZenonT(60) DEF IsTotal

LEMMA TotalExists ==
  ASSUME NEW S, IsFiniteSet(S), NEW w, \A x \in S : w[x] \in Nat
  PROVE  \E g : IsTotal(g, w, S)
<1> DEFINE Q == {s \in SUBSET S : ~\E g : IsTotal(g, w, s)}
<1> SUFFICES ASSUME Q # {} PROVE FALSE
  OBVIOUS
<1>1. Q \in SUBSET (SUBSET S)
  OBVIOUS
<1>2. PICK s \in Q : \A x \in s : s \ {x} \notin Q
  <2> HIDE DEF Q
  <2> QED
    BY <1>1, SmallestPart
<1>3. CASE s = {}
  <2> DEFINE g == [r \in {{}} |-> 0]
  <2>1. IsTotal(g, w, {})
    BY DEF IsTotal
  <2> QED
    BY <1>2, <1>3, <2>1
<1>4. CASE s # {}
  <2>1. PICK a \in s : TRUE
    BY <1>4
  <2>2. \E f : IsTotal(f, w, s \ {a})
    BY <1>2, <2>1
  <2>3. \A x \in s : w[x] \in Nat
    BY <1>2
  <2> QED
    BY <1>2, <2>2, <2>3, TotalExtends
<1> QED
  BY <1>3, <1>4

(* Sums of the same values agree, whatever the values are attached to. *)
LEMMA TotalsMatch ==
  ASSUME NEW S, IsFiniteSet(S), NEW T, NEW w, NEW v, \A x \in S : w[x] \in Nat,
         NEW f \in [S -> T], \A x, y \in S : f[x] = f[y] => x = y,
         \A x \in S : w[x] = v[f[x]],
         NEW g, IsTotal(g, w, S), NEW h, IsTotal(h, v, T)
  PROVE  \A s \in SUBSET S : g[s] = h[{f[x] : x \in s}]
<1> DEFINE Q == {s \in SUBSET S : g[s] # h[{f[x] : x \in s}]}
<1> SUFFICES ASSUME Q # {} PROVE FALSE
  OBVIOUS
<1>1. Q \in SUBSET (SUBSET S)
  OBVIOUS
<1>2. PICK s \in Q : \A x \in s : s \ {x} \notin Q
  <2> HIDE DEF Q
  <2> QED
    BY <1>1, SmallestPart
<1>3. CASE s = {}
  <2>1. {f[x] : x \in s} = {}
    BY <1>3
  <2> QED
    BY <1>2, <1>3, <2>1 DEF IsTotal
<1>4. CASE s # {}
  <2>1. PICK a \in s : TRUE
    BY <1>4
  <2> DEFINE image(r) == {f[x] : x \in r}
  <2>2. s \in SUBSET S /\ a \in S /\ s \ {a} \in SUBSET S
    OBVIOUS
  <2>3. image(s \ {a}) = image(s) \ {f[a]} /\ f[a] \in image(s) /\ image(s) \in SUBSET T
    BY <2>2
  <2>4. g[s \ {a}] = h[image(s \ {a})]
    BY <1>2, <2>1, <2>2
  <2>5. g[s] = w[a] + g[s \ {a}]
    BY <2>1, <2>2 DEF IsTotal
  <2> HIDE DEF image
  <2>6. h[image(s)] = v[f[a]] + h[image(s) \ {f[a]}]
    BY <2>3 DEF IsTotal
  <2>7. g[s] = h[image(s)]
    BY <2>2, <2>3, <2>4, <2>5, <2>6
  <2> QED
    BY <1>2, <2>7 DEF image
<1> QED
  BY <1>3, <1>4

LEMMA SumIsTotal ==
  ASSUME NEW S, IsFiniteSet(S), NEW w, \A x \in S : w[x] \in Nat
  PROVE  \E g : IsTotal(g, w, S) /\ \A s \in SUBSET S : g[s] = Sum(w, s)
<1>1. PICK g : IsTotal(g, w, S)
  BY TotalExists
<1>2. ASSUME NEW s \in SUBSET S
      PROVE  g[s] = Sum(w, s)
  <2> DEFINE h == CHOOSE h : IsTotal(h, w, s)
             f == [x \in s |-> x]
  <2>1. IsFiniteSet(s) /\ \A x \in s : w[x] \in Nat
    BY FS_Subset
  <2>2. IsTotal(h, w, s)
    BY <2>1, TotalExists
  <2> HIDE DEF h
  <2>3. /\ f \in [s -> S] /\ \A x \in s : w[x] = w[f[x]]
        /\ \A x, y \in s : f[x] = f[y] => x = y
        /\ {f[x] : x \in s} = s
    OBVIOUS
  <2> HIDE DEF f
  <2>4. \A r \in SUBSET s : h[r] = g[{f[x] : x \in r}]
    BY <1>1, <2>1, <2>2, <2>3, TotalsMatch
  <2>5. s \in SUBSET s
    OBVIOUS
  <2>6. h[s] = g[s]
    BY <2>3, <2>4, <2>5
  <2> QED
    BY <2>6 DEF Sum, h
<1> QED
  BY <1>1, <1>2

(* What an element, and what a disjoint set, adds to a sum. *)
LEMMA SumFacts ==
  ASSUME NEW S, IsFiniteSet(S), NEW w, \A x \in S : w[x] \in Nat
  PROVE  /\ Sum(w, {}) = 0
         /\ \A s \in SUBSET S : Sum(w, s) \in Nat
         /\ \A s \in SUBSET S : \A x \in s : Sum(w, s) = w[x] + Sum(w, s \ {x})
<1>1. PICK g : IsTotal(g, w, S) /\ \A s \in SUBSET S : g[s] = Sum(w, s)
  BY SumIsTotal
<1>2. {} \in SUBSET S /\ \A s \in SUBSET S : \A x \in s : s \ {x} \in SUBSET S
  OBVIOUS
<1> QED
  BY <1>1, <1>2 DEF IsTotal

LEMMA SumOfUnion ==
  ASSUME NEW S, IsFiniteSet(S), NEW T, IsFiniteSet(T), S \cap T = {},
         NEW w, \A x \in S \cup T : w[x] \in Nat
  PROVE  Sum(w, S \cup T) = Sum(w, S) + Sum(w, T)
<1> DEFINE Q == {s \in SUBSET S : Sum(w, s \cup T) # Sum(w, s) + Sum(w, T)}
<1>1. IsFiniteSet(S \cup T)
  BY FS_Union
<1>2. Q = {}
  <2> SUFFICES ASSUME Q # {} PROVE FALSE
    OBVIOUS
  <2>1. Q \in SUBSET (SUBSET S)
    OBVIOUS
  <2>2. PICK s \in Q : \A x \in s : s \ {x} \notin Q
    <3> HIDE DEF Q
    <3> QED
      BY <2>1, SmallestPart
  <2>3. Sum(w, {}) = 0 /\ Sum(w, T) \in Nat
    BY <1>1, SumFacts
  <2>4. CASE s = {}
    <3>1. s \cup T = T
      BY <2>4
    <3> QED
      BY <2>2, <2>3, <2>4, <3>1
  <2>5. CASE s # {}
    <3>1. PICK a \in s : TRUE
      BY <2>5
    <3>2. /\ s \in SUBSET (S \cup T) /\ s \cup T \in SUBSET (S \cup T)
          /\ s \ {a} \in SUBSET (S \cup T) /\ s \ {a} \in SUBSET S
          /\ a \in s \cup T /\ (s \cup T) \ {a} = (s \ {a}) \cup T
      BY <3>1
    <3>3. Sum(w, s) = w[a] + Sum(w, s \ {a})
      BY <1>1, <3>1, <3>2, SumFacts
    <3>4. Sum(w, s \cup T) = w[a] + Sum(w, (s \ {a}) \cup T)
      <4>1. Sum(w, s \cup T) = w[a] + Sum(w, (s \cup T) \ {a})
        BY <1>1, <3>2, SumFacts, SMTT(30)
      <4> QED
        BY <3>2, <4>1
    <3>5. Sum(w, (s \ {a}) \cup T) = Sum(w, s \ {a}) + Sum(w, T)
      BY <2>2, <3>1, <3>2
    <3>6. Sum(w, s \ {a}) \in Nat /\ w[a] \in Nat
      BY <1>1, <3>1, <3>2, SumFacts
    <3> QED
      BY <2>2, <2>3, <3>3, <3>4, <3>5, <3>6
  <2> QED
    BY <2>4, <2>5
<1>3. S \in SUBSET S
  OBVIOUS
<1> QED
  BY <1>2, <1>3

(* A part sums to no more. *)
LEMMA SumOfPart ==
  ASSUME NEW S, IsFiniteSet(S), NEW w, \A x \in S : w[x] \in Nat, NEW s \in SUBSET S
  PROVE  Sum(w, s) <= Sum(w, S)
<1>1. /\ IsFiniteSet(s) /\ IsFiniteSet(S \ s) /\ s \cap (S \ s) = {}
      /\ S \ s \in SUBSET S /\ s \cup (S \ s) = S
  BY FS_Subset
<1>2. Sum(w, S) = Sum(w, s) + Sum(w, S \ s)
  <2>1. \A x \in s \cup (S \ s) : w[x] \in Nat
    BY <1>1
  <2>2. Sum(w, s \cup (S \ s)) = Sum(w, s) + Sum(w, S \ s)
    BY <1>1, <2>1, SumOfUnion
  <2> QED
    BY <1>1, <2>2
<1>3. Sum(w, s) \in Nat /\ Sum(w, S \ s) \in Nat
  BY <1>1, SumFacts
<1> QED
  BY <1>2, <1>3

(* The same values under other names sum to the same. *)
LEMMA SumsMatch ==
  ASSUME NEW S, IsFiniteSet(S), NEW w, NEW v, \A x \in S : w[x] \in Nat,
         NEW f, \A x, y \in S : f[x] = f[y] => x = y, \A x \in S : w[x] = v[f[x]]
  PROVE  Sum(w, S) = Sum(v, {f[x] : x \in S})
<1> DEFINE T == {f[x] : x \in S}
           e == [x \in S |-> f[x]]
<1>1. IsFiniteSet(T)
  <2>1. e \in Surjection(S, T)
    BY DEF Surjection
  <2> QED
    BY <2>1, FS_Surjection
<1>2. \A y \in T : v[y] \in Nat
  OBVIOUS
<1>3. /\ e \in [S -> T] /\ \A x, y \in S : e[x] = e[y] => x = y
      /\ \A x \in S : w[x] = v[e[x]]
      /\ {e[x] : x \in S} = T
  OBVIOUS
<1> HIDE DEF T, e
<1>4. PICK g : IsTotal(g, w, S) /\ \A s \in SUBSET S : g[s] = Sum(w, s)
  BY SumIsTotal
<1>5. PICK h : IsTotal(h, v, T) /\ \A s \in SUBSET T : h[s] = Sum(v, s)
  BY <1>1, <1>2, SumIsTotal
<1>6. \A s \in SUBSET S : g[s] = h[{e[x] : x \in s}]
  BY <1>3, <1>4, <1>5, TotalsMatch
<1>7. S \in SUBSET S /\ T \in SUBSET T
  OBVIOUS
<1>8. Sum(w, S) = Sum(v, T)
  <2>1. g[S] = h[{e[x] : x \in S}]
    BY <1>6, <1>7
  <2>2. g[S] = Sum(w, S) /\ h[T] = Sum(v, T)
    BY <1>4, <1>5, <1>7
  <2> QED
    BY <1>3, <2>1, <2>2
<1> QED
  BY <1>8 DEF T

(* What the fold of MapThenSumSet does to the function h of the parts of S. *)
Accumulates(h, w, S) ==
  h = [s \in SUBSET S |->
         IF s = {} THEN 0
         ELSE w[CHOOSE x \in s : TRUE] + h[s \ {CHOOSE x \in s : TRUE}]]

LEMMA SumAccumulates ==
  ASSUME NEW S, IsFiniteSet(S), NEW w, \A x \in S : w[x] \in Nat
  PROVE  /\ \E h : Accumulates(h, w, S)
         /\ \A h : Accumulates(h, w, S) => h[S] = Sum(w, S)
<1>1. PICK g : IsTotal(g, w, S) /\ \A s \in SUBSET S : g[s] = Sum(w, s)
  BY SumIsTotal
<1>2. Accumulates(g, w, S)
  <2>1. ASSUME NEW s \in SUBSET S
        PROVE  g[s] = IF s = {} THEN 0
                      ELSE w[CHOOSE x \in s : TRUE] + g[s \ {CHOOSE x \in s : TRUE}]
    <3>1. CASE s = {}
      BY <1>1, <3>1 DEF IsTotal
    <3>2. CASE s # {}
      <4> DEFINE x == CHOOSE x \in s : TRUE
      <4>1. x \in s
        BY <3>2
      <4> HIDE DEF x
      <4>2. g[s] = w[x] + g[s \ {x}]
        BY <1>1, <4>1 DEF IsTotal
      <4> QED
        BY <3>2, <4>2 DEF x
    <3> QED
      BY <3>1, <3>2
  <2> DEFINE k == [s \in SUBSET S |->
                     IF s = {} THEN 0
                     ELSE w[CHOOSE x \in s : TRUE] + g[s \ {CHOOSE x \in s : TRUE}]]
  <2>2. g = [s \in SUBSET S |-> g[s]]
    BY <1>1 DEF IsTotal
  <2>3. g = k
    BY <2>1, <2>2
  <2> QED
    BY <2>3 DEF Accumulates
<1>3. ASSUME NEW h, Accumulates(h, w, S)
      PROVE  h[S] = Sum(w, S)
  <2> DEFINE Q == {s \in SUBSET S : h[s] # g[s]}
  <2>1. Q = {}
    <3> SUFFICES ASSUME Q # {} PROVE FALSE
      OBVIOUS
    <3>1. Q \in SUBSET (SUBSET S)
      OBVIOUS
    <3>2. PICK s \in Q : \A x \in s : s \ {x} \notin Q
      <4> HIDE DEF Q
      <4> QED
        BY <3>1, SmallestPart
    <3>3. s \in SUBSET S /\ h[s] # g[s]
      OBVIOUS
    <3>4. h[s] = IF s = {} THEN 0
                 ELSE w[CHOOSE x \in s : TRUE] + h[s \ {CHOOSE x \in s : TRUE}]
      BY <1>3, <3>3 DEF Accumulates
    <3>5. s # {}
      BY <1>1, <3>3, <3>4 DEF IsTotal
    <3> DEFINE x == CHOOSE x \in s : TRUE
    <3>6. x \in s
      BY <3>5
    <3>7. h[s] = w[x] + h[s \ {x}]
      BY <3>4, <3>5
    <3> HIDE DEF x
    <3>8. g[s] = w[x] + g[s \ {x}]
      BY <1>1, <3>3, <3>6 DEF IsTotal
    <3>9. h[s \ {x}] = g[s \ {x}]
      BY <3>2, <3>3, <3>6
    <3> QED
      BY <3>3, <3>7, <3>8, <3>9
  <2>2. S \in SUBSET S
    OBVIOUS
  <2> QED
    BY <1>1, <2>1, <2>2
<1> QED
  BY <1>2, <1>3

-----------------------------------------------------------------------------
(* Loops that collect items *)

(* A loop of n turns that collects items, each if what it has by then fits. *)
CollectsFitting(f, n, V, item, Fits) ==
  /\ f \in [0..n -> Seq(V)]
  /\ f[0] = <<>>
  /\ \A j \in 1..n : f[j] = IF <<f[j - 1], j>> \in Fits
                            THEN Append(f[j - 1], item[j]) ELSE f[j - 1]

LEMMA CollectionExists ==
  ASSUME NEW n \in Nat, NEW V, NEW item, \A j \in 1..n : item[j] \in V, NEW Fits
  PROVE  \E f : CollectsFitting(f, n, V, item, Fits)
<1> DEFINE G == [p \in Nat \X Seq(V) |->
                   IF p[1] < n /\ <<p[2], p[1] + 1>> \in Fits
                   THEN Append(p[2], item[p[1] + 1]) ELSE p[2]]
<1>1. <<>> \in Seq(V)
  OBVIOUS
<1>2. G \in [Nat \X Seq(V) -> Seq(V)]
  <2>1. ASSUME NEW p \in Nat \X Seq(V), p[1] < n
        PROVE  Append(p[2], item[p[1] + 1]) \in Seq(V)
    <3>1. p[1] + 1 \in 1..n /\ p[2] \in Seq(V)
      BY <2>1
    <3>2. item[p[1] + 1] \in V
      BY <3>1
    <3> QED
      BY <3>1, <3>2
  <2> QED
    BY <2>1
<1>3. \A i \in Nat, u \in Seq(V) :
        G[<<i, u>>] = IF i < n /\ <<u, i + 1>> \in Fits THEN Append(u, item[i + 1]) ELSE u
  OBVIOUS
<1> HIDE DEF G
<1>4. PICK g \in [Nat -> Seq(V)] : g[0] = <<>> /\ \A i \in Nat : g[i + 1] = G[<<i, g[i]>>]
  <2>1. IsStep(G, Seq(V))
    BY <1>2 DEF IsStep
  <2>2. \E g : IsRecursion(g, Seq(V), <<>>, G)
    BY <1>1, <2>1, Recursion
  <2> QED
    BY <2>2 DEF IsRecursion
<1> DEFINE f == [j \in 0..n |-> g[j]]
<1>5. f \in [0..n -> Seq(V)] /\ f[0] = <<>>
  BY <1>4
<1>6. ASSUME NEW j \in 1..n
      PROVE  f[j] = IF <<f[j - 1], j>> \in Fits THEN Append(f[j - 1], item[j]) ELSE f[j - 1]
  <2>1. j - 1 \in Nat /\ j - 1 < n /\ (j - 1) + 1 = j /\ f[j] = g[j] /\ f[j - 1] = g[j - 1]
    OBVIOUS
  <2>2. g[(j - 1) + 1] = G[<<j - 1, g[j - 1]>>] /\ g[j - 1] \in Seq(V)
    BY <1>4, <2>1
  <2>3. G[<<j - 1, g[j - 1]>>] =
          IF j - 1 < n /\ <<g[j - 1], (j - 1) + 1>> \in Fits
          THEN Append(g[j - 1], item[(j - 1) + 1]) ELSE g[j - 1]
    BY <1>3, <2>1, <2>2
  <2> HIDE DEF f
  <2> QED
    BY <2>1, <2>2, <2>3
<1> HIDE DEF f
<1> QED
  BY <1>5, <1>6 DEF CollectsFitting

(* What such a loop has is made of the items that it took; it has no more than
   a limit that it compares with before it takes one. *)
Collects(f, n, item, Taken) ==
  /\ f[0] = <<>>
  /\ \A j \in 1..n : f[j] = IF j \in Taken THEN Append(f[j - 1], item[j]) ELSE f[j - 1]

Items(item, Taken) == {item[j] : j \in Taken}

LEMMA CollectionFacts ==
  ASSUME NEW n \in Nat, NEW item, NEW Taken, Taken \subseteq 1..n,
         NEW f, Collects(f, n, item, Taken)
  PROVE  /\ f[n] \in Seq(Items(item, Taken))
         /\ \A limit \in Nat : (\A j \in Taken : Len(f[j - 1]) < limit) => Len(f[n]) <= limit
<1> USE DEF Collects
<1> DEFINE V == {item[j] : j \in Taken}
           P == {j \in Nat : j <= n => f[j] \in Seq(V)}
<1>1. 0 \in P
  <2>1. <<>> \in Seq(V)
    OBVIOUS
  <2> HIDE DEF V
  <2> QED
    BY <2>1
<1>2. ASSUME NEW i \in Nat, i \in P
      PROVE  i + 1 \in P
  <2> SUFFICES ASSUME i + 1 <= n PROVE f[i + 1] \in Seq(V)
    OBVIOUS
  <2>1. i + 1 \in 1..n /\ (i + 1) - 1 = i /\ f[i] \in Seq(V)
    BY <1>2
  <2>2. f[i + 1] = IF i + 1 \in Taken THEN Append(f[i], item[i + 1]) ELSE f[i]
    BY <2>1
  <2>3. i + 1 \in Taken => item[i + 1] \in V
    OBVIOUS
  <2> HIDE DEF V
  <2> QED
    BY <2>1, <2>2, <2>3
<1> HIDE DEF P
<1>3. Nat \subseteq P
  BY <1>1, <1>2, Induction
<1>4. \A j \in 0..n : f[j] \in Seq(V)
  BY <1>3 DEF P
<1>5. ASSUME NEW limit \in Nat, \A j \in Taken : Len(f[j - 1]) < limit
      PROVE  Len(f[n]) <= limit
  <2> DEFINE R == {j \in Nat : j <= n => Len(f[j]) <= limit}
  <2>1. 0 \in R
    OBVIOUS
  <2>2. ASSUME NEW i \in Nat, i \in R
        PROVE  i + 1 \in R
    <3> SUFFICES ASSUME i + 1 <= n PROVE Len(f[i + 1]) <= limit
      OBVIOUS
    <3> HIDE DEF V
    <3>1. i + 1 \in 1..n /\ (i + 1) - 1 = i /\ f[i] \in Seq(V) /\ Len(f[i]) <= limit
      BY <1>4, <2>2
    <3>2. f[i + 1] = IF i + 1 \in Taken THEN Append(f[i], item[i + 1]) ELSE f[i]
      BY <3>1
    <3>3. Len(f[i]) \in Nat
      BY <3>1
    <3>4. CASE i + 1 \in Taken
      <4>1. Len(f[i]) < limit
        BY <1>5, <3>1, <3>4
      <4>2. Len(f[i + 1]) = Len(f[i]) + 1
        BY <1>4, <3>1, <3>2, <3>4
      <4> QED
        BY <3>3, <4>1, <4>2
    <3>5. CASE i + 1 \notin Taken
      BY <3>1, <3>2, <3>5
    <3> QED
      BY <3>4, <3>5
  <2> HIDE DEF R
  <2>3. n \in R
    BY <2>1, <2>2, Induction
  <2> QED
    BY <2>3 DEF R
<1> QED
  BY <1>4, <1>5, SMTT(30) DEF Items

=============================================================================
