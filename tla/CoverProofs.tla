----------------------------- MODULE CoverProofs -----------------------------
(***************************************************************************)
(* What the conflict coverage search of Cover finds, for every set of      *)
(* assumptions, assignments, weights, theories and limits: its candidates  *)
(* resolve every conflict that was known, the small covers that cost less  *)
(* than rho are all among them, and those that were tested are consistent. *)
(*                                                                         *)
(* The argument about the recursion is by induction on the variables that  *)
(* are not marked, of which a call made in a call has one less.            *)
(***************************************************************************)
EXTENDS Cover, DataLemmas

-----------------------------------------------------------------------------
(* The recursion *)

(* Every assumption has a default, so there are finitely many. *)
LEMMA FiniteAssumptions == IsFiniteSet(Assumption)
<1>1. default \in Injection(Assumption, Assignment)
  BY AssignmentAssumption DEF Injection, IsInjective
<1> QED
  BY <1>1, AssignmentAssumption, FS_Injection

LEMMA ChoiceFacts ==
  ASSUME NEW k, NEW rho \in 0..(WeightModulus - 1), NEW marked,
         NEW a \in choices(k, rho, marked)
  PROVE  /\ a \in Assignment /\ variable[a] \in Assumption \ marked
         /\ next_rho(rho, a) \in 0..(WeightModulus - 1)
<1>1. a \in Assignment /\ variable[a] \notin marked
  BY DEF choices, resolving_assignments
<1>2. weight[a] \in Nat /\ WeightModulus \in Nat \ {0}
  BY <1>1, WeightAssumption, WeightRangeAssumption
<1> QED
  BY <1>1, <1>2, AssignmentAssumption DEF next_rho

(* The arguments of the call that is made when a covers the first conflict. *)
Below(list, active, rho, marked, a) ==
  <<active_conflicts(list, active, a), next_rho(rho, a), marked \cup {variable[a]}>>

(* The calls that a call makes have arguments of their kind. *)
LEMMA CallsTyped ==
  ASSUME NEW list, NEW active \in SUBSET SUBSET Assignment,
         NEW rho \in 0..(WeightModulus - 1), NEW marked \in SUBSET Assumption,
         NEW a \in choices(front(list, active), rho, marked)
  PROVE  Below(list, active, rho, marked, a) \in Arguments
BY ChoiceFacts DEF Arguments, active_conflicts, Below

(* d is what a alone, or with what the call below returns, makes of it. *)
Yields(list, active, rho, marked, found, a, d) ==
  \/ active_conflicts(list, active, a) = {} /\ d = named(a)
  \/ /\ active_conflicts(list, active, a) # {}
     /\ enoughLeft(next_rho(rho, a))
     /\ \E c \in found[Below(list, active, rho, marked, a)] : d = named(a) \cup c

(* What is in the result of a call. *)
IsCovered(list, active, rho, marked, found, d) ==
  \E a \in choices(front(list, active), rho, marked) :
    Yields(list, active, rho, marked, found, a, d)

LEMMA CoverageMembers ==
  ASSUME NEW list, NEW active, NEW rho, NEW marked, NEW found, NEW d
  PROVE  d \in coverage(list, active, rho, marked, found) <=>
           IsCovered(list, active, rho, marked, found, d)
<1> DEFINE covers(a) ==
      LET rest == active_conflicts(list, active, a)
          left == next_rho(rho, a)
      IN  IF rest = {} THEN {named(a)}
          ELSE IF enoughLeft(left)
          THEN {named(a) \cup c : c \in found[<<rest, left, marked \cup {variable[a]}>>]}
          ELSE {}
<1>1. coverage(list, active, rho, marked, found)
        = UNION {covers(a) : a \in choices(front(list, active), rho, marked)}
  BY DEF coverage
<1>2. \A a : d \in covers(a) <=> Yields(list, active, rho, marked, found, a, d)
  BY DEF Yields, Below
<1> HIDE DEF covers
<1>3. d \in coverage(list, active, rho, marked, found) <=>
        \E a \in choices(front(list, active), rho, marked) : d \in covers(a)
  BY <1>1
<1> QED
  BY <1>2, <1>3 DEF IsCovered

(* A call returns sets of assignments. *)
LEMMA CoverageType ==
  ASSUME NEW list, NEW active \in SUBSET SUBSET Assignment,
         NEW rho \in 0..(WeightModulus - 1), NEW marked \in SUBSET Assumption,
         NEW found \in [Arguments -> SUBSET SUBSET Assignment]
  PROVE  coverage(list, active, rho, marked, found) \in SUBSET SUBSET Assignment
<1> SUFFICES ASSUME NEW d \in coverage(list, active, rho, marked, found)
             PROVE  d \subseteq Assignment
  OBVIOUS
<1> DEFINE args(a) == Below(list, active, rho, marked, a)
<1>1. PICK a \in choices(front(list, active), rho, marked) :
        d = named(a) \/ \E c \in found[args(a)] : d = named(a) \cup c
  BY CoverageMembers DEF IsCovered, Yields
<1>2. named(a) \subseteq Assignment
  BY ChoiceFacts DEF named
<1>3. args(a) \in Arguments
  BY CallsTyped
<1> HIDE DEF args
<1>4. found[args(a)] \in SUBSET SUBSET Assignment
  BY <1>3
<1> QED
  BY <1>1, <1>2, <1>4

(* A call asks only for what it calls. *)
LEMMA CoverageAsks ==
  ASSUME NEW list, NEW active, NEW rho, NEW marked, NEW f, NEW g,
         \A a \in choices(front(list, active), rho, marked) :
           f[Below(list, active, rho, marked, a)] = g[Below(list, active, rho, marked, a)]
  PROVE  coverage(list, active, rho, marked, f) = coverage(list, active, rho, marked, g)
<1>1. ASSUME NEW d
      PROVE  IsCovered(list, active, rho, marked, f, d) <=>
             IsCovered(list, active, rho, marked, g, d)
  BY DEF IsCovered, Yields
<1>2. \A d : d \in coverage(list, active, rho, marked, f) <=>
             d \in coverage(list, active, rho, marked, g)
  BY <1>1, CoverageMembers
<1>3. /\ coverage(list, active, rho, marked, f) \subseteq
           coverage(list, active, rho, marked, g)
      /\ coverage(list, active, rho, marked, g) \subseteq
           coverage(list, active, rho, marked, f)
  BY <1>2
<1> QED
  BY <1>3

(* The number of variables that are left to a call. *)
Unmarked == [args \in Arguments |-> Cardinality(Assumption \ args[3])]

LEMMA UnmarkedFacts ==
  /\ Unmarked \in [Arguments -> Nat]
  /\ \A list : \A active \in SUBSET SUBSET Assignment, rho \in 0..(WeightModulus - 1),
                  marked \in SUBSET Assumption :
       \A a \in choices(front(list, active), rho, marked) :
         Unmarked[Below(list, active, rho, marked, a)] < Unmarked[<<active, rho, marked>>]
<1>1. ASSUME NEW marked \in SUBSET Assumption
      PROVE  IsFiniteSet(Assumption \ marked) /\ Cardinality(Assumption \ marked) \in Nat
  BY FiniteAssumptions, FS_Subset, FS_CardinalityType
<1>2. Unmarked \in [Arguments -> Nat]
  <2>1. \A args \in Arguments : args[3] \in SUBSET Assumption
    BY DEF Arguments
  <2> QED
    BY <1>1, <2>1 DEF Unmarked
<1>3. ASSUME NEW list, NEW active \in SUBSET SUBSET Assignment,
             NEW rho \in 0..(WeightModulus - 1), NEW marked \in SUBSET Assumption,
             NEW a \in choices(front(list, active), rho, marked)
      PROVE  Unmarked[Below(list, active, rho, marked, a)] < Unmarked[<<active, rho, marked>>]
  <2> DEFINE u == Assumption \ marked
  <2>1. variable[a] \in u /\ Assumption \ (marked \cup {variable[a]}) = u \ {variable[a]}
    BY ChoiceFacts
  <2>2. Cardinality(u \ {variable[a]}) = Cardinality(u) - 1 /\ Cardinality(u) \in Nat
    <3>1. IsFiniteSet(u) /\ Cardinality(u) \in Nat
      BY <1>1
    <3> DEFINE x == variable[a]
    <3>2. x \in u
      BY <2>1
    <3> HIDE DEF u, x
    <3>3. Cardinality(u \ {x}) = Cardinality(u) - 1
      BY <3>1, <3>2, FS_RemoveElement
    <3> QED
      BY <3>1, <3>3 DEF x
  <2>3. <<active, rho, marked>> \in Arguments
    BY DEF Arguments
  <2> QED
    BY <2>1, <2>2, <2>3, CallsTyped DEF Unmarked, Below
<1> QED
  BY <1>2, <1>3

(* The function that the recursion defines exists, and this is its equation. *)
LEMMA CoverageUnfolds ==
  ASSUME NEW list
  PROVE  \A active \in SUBSET SUBSET Assignment, rho \in 0..(WeightModulus - 1),
            marked \in SUBSET Assumption :
           rho_coverage_aux(list)[<<active, rho, marked>>]
             = coverage(list, active, rho, marked, rho_coverage_aux(list))
<1> DEFINE V == SUBSET SUBSET Assignment
           Step == [z \in Arguments \X [Arguments -> V] |->
                      coverage(list, z[1][1], z[1][2], z[1][3], z[2])]
<1>1. \A args \in Arguments : \A f \in [Arguments -> V] :
        Step[<<args, f>>] = coverage(list, args[1], args[2], args[3], f)
  OBVIOUS
<1>2. \A args \in Arguments :
        /\ args[1] \in SUBSET SUBSET Assignment /\ args[2] \in 0..(WeightModulus - 1)
        /\ args[3] \in SUBSET Assumption /\ args = <<args[1], args[2], args[3]>>
  BY DEF Arguments
<1>3. \A args \in Arguments : \A f \in [Arguments -> V] :
        coverage(list, args[1], args[2], args[3], f) \in V
  BY <1>2, CoverageType
<1>4. Step \in [Arguments \X [Arguments -> V] -> V]
  BY <1>3
<1> HIDE DEF Step
<1>5. LooksBelow(Step, Unmarked, Arguments, V)
  <2> SUFFICES ASSUME NEW args \in Arguments, NEW f \in [Arguments -> V],
                      NEW g \in [Arguments -> V],
                      \A b \in Arguments : Unmarked[b] < Unmarked[args] => f[b] = g[b]
               PROVE  Step[<<args, f>>] = Step[<<args, g>>]
    BY DEF LooksBelow
  <2>1. ASSUME NEW a \in choices(front(list, args[1]), args[2], args[3])
        PROVE  f[Below(list, args[1], args[2], args[3], a)]
                 = g[Below(list, args[1], args[2], args[3], a)]
    <3>1. Below(list, args[1], args[2], args[3], a) \in Arguments
      BY <1>2, CallsTyped
    <3>2. Unmarked[Below(list, args[1], args[2], args[3], a)]
            < Unmarked[<<args[1], args[2], args[3]>>]
      BY <1>2, UnmarkedFacts
    <3> QED
      BY <1>2, <3>1, <3>2
  <2>2. coverage(list, args[1], args[2], args[3], f) = coverage(list, args[1], args[2], args[3], g)
    BY <2>1, CoverageAsks
  <2> QED
    BY <1>1, <2>2
<1>6. PICK f : IsFixpoint(f, Step, Arguments, V)
  <2>1. V # {} /\ Unmarked \in [Arguments -> Nat]
    BY UnmarkedFacts
  <2> HIDE DEF V
  <2> QED
    BY <1>4, <1>5, <2>1, RecursiveFunctionExists
<1>7. f = [args \in Arguments |-> coverage(list, args[1], args[2], args[3], f)]
  <2>1. [args \in Arguments |-> Step[<<args, f>>]]
          = [args \in Arguments |-> coverage(list, args[1], args[2], args[3], f)]
    BY <1>1, <1>6, Zenon DEF IsFixpoint
  <2> QED
    BY <1>6, <2>1, Zenon DEF IsFixpoint
<1> DEFINE found == rho_coverage_aux(list)
<1>8. found = [args \in Arguments |-> coverage(list, args[1], args[2], args[3], found)]
  BY <1>7, Zenon DEF rho_coverage_aux
<1>9. \A args \in Arguments : found[args] = coverage(list, args[1], args[2], args[3], found)
  <2> HIDE DEF found
  <2> QED
    BY <1>8
<1> HIDE DEF found
<1> SUFFICES ASSUME NEW active \in SUBSET SUBSET Assignment,
                    NEW rho \in 0..(WeightModulus - 1), NEW marked \in SUBSET Assumption
             PROVE  found[<<active, rho, marked>>] = coverage(list, active, rho, marked, found)
  BY DEF found
<1>10. <<active, rho, marked>> \in Arguments
  BY DEF Arguments
<1> QED
  BY <1>9, <1>10

(* For induction on the variables that are not marked: P holds of all arguments if
   it holds of some whenever it does of those below. *)
LEMMA CoverageInduction ==
  ASSUME NEW list, NEW P,
         \A active \in SUBSET SUBSET Assignment, rho \in 0..(WeightModulus - 1),
            marked \in SUBSET Assumption :
           (\A a \in choices(front(list, active), rho, marked) :
              Below(list, active, rho, marked, a) \in P) => <<active, rho, marked>> \in P
  PROVE  Arguments \subseteq P
<1> DEFINE Q == {u \in SUBSET Assumption :
                   \E args \in Arguments : args \notin P /\ u = Assumption \ args[3]}
<1> SUFFICES ASSUME NEW bad \in Arguments, bad \notin P PROVE FALSE
  OBVIOUS
<1>1. Q # {} /\ Q \in SUBSET (SUBSET Assumption)
  <2>1. Assumption \ bad[3] \in Q
    OBVIOUS
  <2> QED
    BY <2>1
<1>2. PICK u \in Q : \A x \in u : u \ {x} \notin Q
  <2> HIDE DEF Q
  <2> QED
    BY <1>1, FiniteAssumptions, SmallestPart
<1>3. PICK active \in SUBSET SUBSET Assignment, rho \in 0..(WeightModulus - 1),
           marked \in SUBSET Assumption :
        <<active, rho, marked>> \notin P /\ u = Assumption \ marked
  <2>1. PICK args \in Arguments : args \notin P /\ u = Assumption \ args[3]
    BY <1>2
  <2>2. /\ args[1] \in SUBSET SUBSET Assignment /\ args[2] \in 0..(WeightModulus - 1)
        /\ args[3] \in SUBSET Assumption /\ args = <<args[1], args[2], args[3]>>
    BY DEF Arguments
  <2> DEFINE active == args[1]
             rho == args[2]
             marked == args[3]
  <2>3. /\ active \in SUBSET SUBSET Assignment /\ rho \in 0..(WeightModulus - 1)
        /\ marked \in SUBSET Assumption /\ <<active, rho, marked>> \notin P
        /\ u = Assumption \ marked
    BY <2>1, <2>2, Zenon
  <2> HIDE DEF active, rho, marked
  <2> QED
    BY <2>3, Zenon
<1>4. PICK a \in choices(front(list, active), rho, marked) :
        Below(list, active, rho, marked, a) \notin P
  BY <1>3
<1>5. /\ variable[a] \in u
      /\ u \ {variable[a]} = Assumption \ Below(list, active, rho, marked, a)[3]
  BY <1>3, ChoiceFacts DEF Below
<1>6. Below(list, active, rho, marked, a) \in Arguments
  BY CallsTyped
<1>7. u \ {variable[a]} \in Q
  BY <1>4, <1>5, <1>6
<1> QED
  BY <1>2, <1>5, <1>7

-----------------------------------------------------------------------------
(* What the recursion returns *)

(* d names no marked variable and resolves every conflict in active by another. *)
CoversAll(active, marked, d) ==
  /\ d \in Candidate
  /\ Variables(d) \cap marked = {}
  /\ \A k \in active : \E b \in k : variable[b] \notin marked /\ ~Holds(b, d)

(* What a adds: nothing if it is the default, which holds without being named. *)
LEMMA NamedFacts ==
  ASSUME NEW a \in Assignment, NEW d \in Candidate, variable[a] \notin Variables(d)
  PROVE  /\ named(a) \cup d \in Candidate
         /\ Variables(named(a) \cup d) \subseteq Variables(d) \cup {variable[a]}
         /\ \A b \in Assignment :
              IF variable[b] = variable[a] THEN Holds(b, named(a) \cup d) <=> b = a
                                           ELSE Holds(b, named(a) \cup d) <=> Holds(b, d)
<1>1. d \subseteq Assignment /\ \A b \in d : variable[b] # variable[a]
  BY DEF Candidate, Variables
<1>2. CASE a = default[variable[a]]
  <2>1. named(a) \cup d = d
    BY <1>2 DEF named
  <2> QED
    BY <1>1, <1>2, <2>1 DEF Holds
<1>3. CASE a # default[variable[a]]
  <2>1. named(a) \cup d = {a} \cup d
    BY <1>3 DEF named
  <2>2. Variables(named(a) \cup d) = Variables(d) \cup {variable[a]}
    BY <2>1 DEF Variables
  <2>3. named(a) \cup d \in Candidate
    BY <1>1, <2>1 DEF Candidate
  <2>4. ASSUME NEW b \in Assignment
        PROVE  IF variable[b] = variable[a] THEN Holds(b, named(a) \cup d) <=> b = a
                                            ELSE Holds(b, named(a) \cup d) <=> Holds(b, d)
    <3>1. CASE variable[b] = variable[a]
      BY <1>1, <2>1, <2>2, <3>1 DEF Holds
    <3>2. CASE variable[b] # variable[a]
      <4>1. b # a
        BY <3>2
      <4> QED
        BY <1>1, <2>1, <2>2, <3>2, <4>1 DEF Holds
    <3> QED
      BY <3>1, <3>2
  <2> QED
    BY <2>2, <2>3, <2>4
<1> QED
  BY <1>2, <1>3

(* A conflict that is left when a covers the first one has another variable than a,
   or is the first one. *)
LEMMA FrontFacts ==
  ASSUME NEW list, NEW active, NEW a
  PROVE  \A k \in active :
           \/ k = front(list, active)
           \/ a \in resolving_assignments(k)
           \/ k \in active_conflicts(list, active, a)
BY DEF active_conflicts

(* What a resolves, it resolves by a value of its own variable. *)
LEMMA NamedResolves ==
  ASSUME NEW k \in SUBSET Assignment, NEW a \in resolving_assignments(k),
         NEW d \in Candidate, variable[a] \notin Variables(d)
  PROVE  \E b \in k : variable[b] = variable[a] /\ ~Holds(b, named(a) \cup d)
<1>1. PICK b \in k : variable[a] = variable[b] /\ a \in Assignment /\ b # a
  BY DEF resolving_assignments
<1> QED
  BY <1>1, NamedFacts

(* Each round of the recursion adds a value of a variable that the rest of the
   candidate, found with that variable marked, does not name. *)
LEMMA StepCovers ==
  ASSUME NEW list, NEW active \in SUBSET SUBSET Assignment,
         NEW rho \in 0..(WeightModulus - 1), NEW marked \in SUBSET Assumption,
         NEW a \in choices(front(list, active), rho, marked), front(list, active) \in active,
         NEW c, CoversAll(active_conflicts(list, active, a), marked \cup {variable[a]}, c)
  PROVE  CoversAll(active, marked, named(a) \cup c)
<1> DEFINE d == named(a) \cup c
           rest == active_conflicts(list, active, a)
<1>1. /\ a \in Assignment /\ variable[a] \notin marked
      /\ a \in resolving_assignments(front(list, active))
  BY DEF choices, resolving_assignments
<1>2. /\ c \in Candidate /\ variable[a] \notin Variables(c) /\ Variables(c) \cap marked = {}
      /\ \A k \in rest : \E b \in k :
           variable[b] \notin marked \cup {variable[a]} /\ ~Holds(b, c)
  BY DEF CoversAll
<1>3. /\ d \in Candidate /\ Variables(d) \subseteq Variables(c) \cup {variable[a]}
      /\ \A b \in Assignment : variable[b] # variable[a] => (Holds(b, d) <=> Holds(b, c))
  BY <1>1, <1>2, NamedFacts
<1>4. Variables(d) \cap marked = {}
  <2> SUFFICES ASSUME NEW u \in Variables(d), u \in marked PROVE FALSE
    OBVIOUS
  <2>1. u \in Variables(c) \/ u = variable[a]
    BY <1>3
  <2> HIDE DEF d, rest
  <2> QED
    BY <1>1, <1>2, <2>1
<1>5. ASSUME NEW k \in active
      PROVE  \E b \in k : variable[b] \notin marked /\ ~Holds(b, d)
  <2>1. CASE a \in resolving_assignments(k)
    BY <1>1, <1>2, <2>1, NamedResolves
  <2>2. CASE k \in rest
    <3>1. PICK b \in k : variable[b] \notin marked \cup {variable[a]} /\ ~Holds(b, c)
      BY <1>2, <2>2
    <3>2. b \in Assignment
      OBVIOUS
    <3> QED
      BY <1>3, <3>1, <3>2
  <2> HIDE DEF rest
  <2> QED
    BY <1>1, <2>1, <2>2, FrontFacts DEF rest
<1> QED
  BY <1>3, <1>4, <1>5 DEF CoversAll

(* Nothing is a candidate, and covers no conflict at all. *)
LEMMA NothingCovers == \A marked : CoversAll({}, marked, {})
BY DEF CoversAll, Candidate, Variables

(* The first one of conflicts that the list has is one of them. *)
LEMMA FrontIsActive ==
  ASSUME NEW K, NEW list \in [K -> Nat], NEW active \in SUBSET K, active # {}
  PROVE  front(list, active) \in active
<1> DEFINE S == {list[k] : k \in active}
<1>1. S \subseteq Nat /\ S # {}
  OBVIOUS
<1>2. PICK m \in S : \A n \in S : m <= n
  <2> HIDE DEF S
  <2> QED
    BY <1>1, LeastNatural
<1>3. PICK k \in active : list[k] = m
  OBVIOUS
<1>4. \A j \in active : list[k] <= list[j]
  BY <1>2, <1>3
<1> QED
  BY <1>4, Zenon DEF front

(* rho_coverage_aux: whatever it returns resolves all the conflicts that it is
   called for, and leaves the marked variables alone. *)
LEMMA RecursionCovers ==
  ASSUME NEW K \in SUBSET SUBSET Assignment, NEW list \in [K -> Nat],
         NEW active \in SUBSET K, active # {},
         NEW rho \in 0..(WeightModulus - 1), NEW marked \in SUBSET Assumption,
         NEW d \in rho_coverage_aux(list)[<<active, rho, marked>>]
  PROVE  CoversAll(active, marked, d)
<1> DEFINE found == rho_coverage_aux(list)
           P == {args \in Arguments :
                   (args[1] \subseteq K /\ args[1] # {}) =>
                     \A c \in found[args] : CoversAll(args[1], args[3], c)}
<1>1. ASSUME NEW act \in SUBSET SUBSET Assignment, NEW r \in 0..(WeightModulus - 1),
             NEW m \in SUBSET Assumption,
             \A a \in choices(front(list, act), r, m) : Below(list, act, r, m, a) \in P
      PROVE  <<act, r, m>> \in P
  <2> SUFFICES ASSUME act \subseteq K, act # {}, NEW c \in found[<<act, r, m>>]
               PROVE  CoversAll(act, m, c)
    BY DEF Arguments
  <2>1. front(list, act) \in act
    BY FrontIsActive
  <2>2. c \in coverage(list, act, r, m, found)
    BY CoverageUnfolds
  <2> HIDE DEF found
  <2>3. PICK a \in choices(front(list, act), r, m) : Yields(list, act, r, m, found, a, c)
    BY <2>2, CoverageMembers DEF IsCovered
  <2> DEFINE rest == active_conflicts(list, act, a)
  <2>4. CASE rest = {} /\ c = named(a)
    <3>1. CoversAll(rest, m \cup {variable[a]}, {}) /\ c = named(a) \cup {}
      BY <2>4, NothingCovers
    <3> QED
      BY <2>1, <3>1, StepCovers
  <2>5. CASE rest # {} /\ \E e \in found[Below(list, act, r, m, a)] : c = named(a) \cup e
    <3>1. PICK e \in found[Below(list, act, r, m, a)] : c = named(a) \cup e
      BY <2>5
    <3>2. rest \subseteq K
      BY DEF active_conflicts
    <3>3. Below(list, act, r, m, a) \in P
      BY <1>1
    <3>4. CoversAll(rest, m \cup {variable[a]}, e)
      BY <2>5, <3>1, <3>2, <3>3 DEF Below
    <3> QED
      BY <2>1, <3>1, <3>4, StepCovers
  <2> QED
    BY <2>3, <2>4, <2>5 DEF Yields
<1> HIDE DEF P
<1>2. Arguments \subseteq P
  BY <1>1, CoverageInduction
<1>3. <<active, rho, marked>> \in P
  BY <1>2 DEF Arguments
<1> QED
  BY <1>3 DEF P

-----------------------------------------------------------------------------
(* What the recursion finds *)

(* What c names of the variables that are not marked. *)
Open(c, marked) == {a \in c : variable[a] \notin marked}

(* c resolves the conflicts, and by none of the marked variables. *)
CouldCover(active, marked, c) ==
  \A k \in active : /\ Resolves(c, k)
                    /\ \A b \in k : variable[b] \in marked => Holds(b, c)

(* The value that c gives to a variable holds, and nothing else does. *)
LEMMA ValueExists ==
  ASSUME NEW c \in Candidate, NEW b \in Assignment, ~Holds(b, c)
  PROVE  \E a \in Assignment :
           /\ variable[a] = variable[b] /\ a # b /\ Holds(a, c)
           /\ a \in c \/ (a = default[variable[a]] /\ variable[a] \notin Variables(c))
<1>1. c \subseteq Assignment /\ variable[b] \in Assumption
  BY AssignmentAssumption DEF Candidate
<1>2. CASE variable[b] \in Variables(c)
  <2>1. PICK a \in c : variable[a] = variable[b]
    BY <1>2 DEF Variables
  <2> QED
    BY <1>1, <1>2, <2>1 DEF Holds
<1>3. CASE variable[b] \notin Variables(c)
  <2> DEFINE a == default[variable[b]]
  <2>1. a \in Assignment /\ variable[a] = variable[b]
    BY <1>1, AssignmentAssumption
  <2> HIDE DEF a
  <2>2. a = default[variable[a]]
    BY <2>1 DEF a
  <2> QED
    BY <1>3, <2>1, <2>2 DEF Holds
<1> QED
  BY <1>2, <1>3

(* What is left of c weighs less by the value that the recursion adds. *)
LEMMA OpenWeighs ==
  ASSUME NEW c \in Candidate, NEW marked, NEW a \in Assignment, variable[a] \notin marked,
         NEW b \in Assignment, b # a, variable[b] = variable[a],
         a \in c \/ (a = default[variable[a]] /\ variable[a] \notin Variables(c))
  PROVE  /\ Sum(weight, Open(c, marked))
              = weight[a] + Sum(weight, Open(c, marked \cup {variable[a]}))
         /\ Sum(weight, Open(c, marked \cup {variable[a]})) \in Nat /\ weight[a] \in Nat
<1> DEFINE o == Open(c, marked)
           r == Open(c, marked \cup {variable[a]})
<1>1. /\ IsFiniteSet(Assignment) /\ \A x \in Assignment : weight[x] \in Nat
      /\ o \in SUBSET Assignment /\ r \in SUBSET Assignment
  BY AssignmentAssumption, WeightAssumption DEF Candidate, Open
<1>2. CASE a \in c
  <2>1. a \in o /\ r = o \ {a}
    BY <1>2 DEF Candidate, Open
  <2> HIDE DEF o, r
  <2>2. Sum(weight, o) = weight[a] + Sum(weight, o \ {a}) /\ Sum(weight, r) \in Nat
    BY <1>1, <2>1, SumFacts
  <2> QED
    BY <1>1, <2>1, <2>2 DEF o, r
<1>3. CASE a = default[variable[a]] /\ variable[a] \notin Variables(c)
  <2>1. o = r
    BY <1>3 DEF Open, Variables
  <2>2. weight[a] = 0
    BY <1>3, AssignmentAssumption, DefaultWeightAssumption
  <2> HIDE DEF o, r
  <2>3. Sum(weight, r) \in Nat
    BY <1>1, SumFacts
  <2> QED
    BY <2>1, <2>2, <2>3 DEF o, r
<1> QED
  BY <1>2, <1>3

(* A cover that is light enough leads the recursion to the first conflict: it holds
   an assignment that is considered, and is light enough for what is left. *)
LEMMA StepFinds ==
  ASSUME NEW list, NEW active \in SUBSET Candidate, front(list, active) \in active,
         NEW rho \in 0..(WeightModulus - 1), NEW marked \in SUBSET Assumption,
         NEW c \in Candidate, CouldCover(active, marked, c),
         Sum(weight, Open(c, marked)) < rho
  PROVE  \E a \in choices(front(list, active), rho, marked) :
           /\ named(a) \subseteq Open(c, marked)
           /\ CouldCover(active_conflicts(list, active, a), marked \cup {variable[a]}, c)
           /\ Sum(weight, Open(c, marked \cup {variable[a]})) < next_rho(rho, a)
           /\ enoughLeft(next_rho(rho, a))
<1> DEFINE k == front(list, active)
<1>1. PICK b \in k : ~Holds(b, c)
  BY DEF CouldCover, Resolves
<1>2. k \subseteq Assignment /\ b \in Assignment /\ variable[b] \notin marked
  BY <1>1 DEF CouldCover, Candidate
<1>3. PICK a \in Assignment :
        /\ variable[a] = variable[b] /\ a # b /\ Holds(a, c)
        /\ a \in c \/ (a = default[variable[a]] /\ variable[a] \notin Variables(c))
  BY <1>1, <1>2, ValueExists
<1>4. a \in resolving_assignments(k)
  <2>1. a \notin k
    BY <1>1, <1>3 DEF Candidate
  <2> QED
    BY <1>1, <1>3, <2>1 DEF resolving_assignments
<1> DEFINE left == Sum(weight, Open(c, marked \cup {variable[a]}))
<1>5. /\ Sum(weight, Open(c, marked)) = weight[a] + left
      /\ left \in Nat /\ weight[a] \in Nat
  BY <1>2, <1>3, OpenWeighs
<1>6. next_rho(rho, a) = rho - weight[a] /\ left < next_rho(rho, a) /\ next_rho(rho, a) \in Nat
  <2> HIDE DEF left
  <2>1. /\ rho - weight[a] \in 0..(WeightModulus - 1) /\ left < rho - weight[a]
        /\ WeightModulus \in Nat \ {0}
    BY <1>5, WeightRangeAssumption
  <2>2. (rho - weight[a]) % WeightModulus = rho - weight[a]
    BY <2>1
  <2> QED
    BY <2>1, <2>2 DEF next_rho
<1>7. a \in choices(k, rho, marked)
  BY <1>2, <1>3, <1>4, <1>6 DEF choices
<1>8. named(a) \subseteq Open(c, marked)
  BY <1>2, <1>3 DEF named, Open
<1>9. CouldCover(active_conflicts(list, active, a), marked \cup {variable[a]}, c)
  <2> SUFFICES ASSUME NEW j \in active_conflicts(list, active, a)
               PROVE  /\ Resolves(c, j)
                      /\ \A x \in j : variable[x] \in marked \cup {variable[a]} => Holds(x, c)
    BY DEF CouldCover
  <2>1. j \in active /\ j \in Candidate /\ a \notin resolving_assignments(j)
    BY DEF active_conflicts
  <2>2. Resolves(c, j) /\ \A x \in j : variable[x] \in marked => Holds(x, c)
    BY <2>1 DEF CouldCover
  <2>3. ASSUME NEW x \in j, variable[x] = variable[a]
        PROVE  Holds(x, c)
    <3>1. a \in j
      BY <2>1, <2>3 DEF resolving_assignments
    <3>2. x = a
      BY <2>1, <2>3, <3>1 DEF Candidate
    <3> QED
      BY <1>3, <3>2
  <2> QED
    BY <2>2, <2>3
<1>10. enoughLeft(next_rho(rho, a))
  <2> HIDE DEF left
  <2> QED
    BY <1>5, <1>6 DEF enoughLeft
<1> QED
  BY <1>6, <1>7, <1>8, <1>9, <1>10

(* rho_coverage_aux: of every cover that costs less than rho it returns a part. *)
LEMMA RecursionFinds ==
  ASSUME NEW K \in SUBSET Candidate, NEW list \in [K -> Nat],
         NEW active \in SUBSET K, active # {},
         NEW rho \in 0..(WeightModulus - 1), NEW marked \in SUBSET Assumption,
         NEW c \in Candidate, CouldCover(active, marked, c),
         Sum(weight, Open(c, marked)) < rho
  PROVE  \E d \in rho_coverage_aux(list)[<<active, rho, marked>>] : d \subseteq Open(c, marked)
<1> DEFINE found == rho_coverage_aux(list)
           Finds(act, r, m) ==
             (/\ act \subseteq K /\ act # {} /\ CouldCover(act, m, c)
              /\ Sum(weight, Open(c, m)) < r)
             => \E d \in found[<<act, r, m>>] : d \subseteq Open(c, m)
           P == {args \in Arguments : Finds(args[1], args[2], args[3])}
<1>0. ASSUME NEW act \in SUBSET SUBSET Assignment, NEW r \in 0..(WeightModulus - 1),
             NEW m \in SUBSET Assumption
      PROVE  <<act, r, m>> \in P <=> Finds(act, r, m)
  <2>1. <<act, r, m>> \in Arguments
    BY DEF Arguments
  <2> HIDE DEF Finds
  <2> QED
    BY <2>1
<1>1. ASSUME NEW act \in SUBSET SUBSET Assignment, NEW r \in 0..(WeightModulus - 1),
             NEW m \in SUBSET Assumption,
             \A a \in choices(front(list, act), r, m) : Below(list, act, r, m, a) \in P
      PROVE  <<act, r, m>> \in P
  <2> SUFFICES ASSUME act \subseteq K, act # {}, CouldCover(act, m, c),
                      Sum(weight, Open(c, m)) < r
               PROVE  \E d \in found[<<act, r, m>>] : d \subseteq Open(c, m)
    BY <1>0
  <2>1. front(list, act) \in act /\ act \in SUBSET Candidate
    BY FrontIsActive
  <2>2. PICK a \in choices(front(list, act), r, m) :
          /\ named(a) \subseteq Open(c, m)
          /\ CouldCover(active_conflicts(list, act, a), m \cup {variable[a]}, c)
          /\ Sum(weight, Open(c, m \cup {variable[a]})) < next_rho(r, a)
          /\ enoughLeft(next_rho(r, a))
    BY <2>1, StepFinds
  <2> DEFINE rest == active_conflicts(list, act, a)
  <2>3. found[<<act, r, m>>] = coverage(list, act, r, m, found)
    BY CoverageUnfolds
  <2>4. Open(c, m \cup {variable[a]}) \subseteq Open(c, m)
    BY DEF Open
  <2>5. \E d : Yields(list, act, r, m, found, a, d) /\ d \subseteq Open(c, m)
    <3>1. CASE rest = {}
      BY <2>2, <3>1 DEF Yields
    <3>2. CASE rest # {}
      <4>1. rest \subseteq K /\ Below(list, act, r, m, a) \in P
        BY <1>1 DEF active_conflicts
      <4>2. Finds(rest, next_rho(r, a), m \cup {variable[a]})
        <5>1. /\ rest \in SUBSET SUBSET Assignment
              /\ next_rho(r, a) \in 0..(WeightModulus - 1)
              /\ m \cup {variable[a]} \in SUBSET Assumption
          BY ChoiceFacts DEF active_conflicts
        <5> HIDE DEF P, Finds, rest
        <5> QED
          BY <1>0, <4>1, <5>1 DEF Below, rest
      <4>3. PICK e \in found[Below(list, act, r, m, a)] :
              e \subseteq Open(c, m \cup {variable[a]})
        BY <2>2, <3>2, <4>1, <4>2 DEF Below
      <4> HIDE DEF found
      <4>4. Yields(list, act, r, m, found, a, named(a) \cup e)
        BY <2>2, <3>2, <4>3 DEF Yields
      <4>5. named(a) \cup e \subseteq Open(c, m)
        BY <2>2, <2>4, <4>3
      <4> QED
        BY <4>4, <4>5, Zenon
    <3> QED
      BY <3>1, <3>2
  <2> HIDE DEF found
  <2> QED
    BY <2>3, <2>5, CoverageMembers DEF IsCovered
<1> HIDE DEF P
<1>2. Arguments \subseteq P
  BY <1>1, CoverageInduction
<1>3. active \in SUBSET SUBSET Assignment /\ <<active, rho, marked>> \in P
  BY <1>2 DEF Arguments, Candidate
<1>4. Finds(active, rho, marked)
  <2> HIDE DEF P, Finds
  <2> QED
    BY <1>0, <1>3
<1> QED
  BY <1>4

-----------------------------------------------------------------------------
(* Candidates and conflicts *)

(* The fold of get_weight is the sum of the weights. *)
LEMMA WeightIsSum ==
  ASSUME NEW c \in SUBSET Assignment
  PROVE  get_weight(c) = Sum(weight, c)
<1> DEFINE iter == CHOOSE iter : iter =
             [s \in SUBSET c |->
                IF s = {} THEN 0
                ELSE weight[CHOOSE x \in s : TRUE] + iter[s \ {CHOOSE x \in s : TRUE}]]
<1>1. IsFiniteSet(c) /\ \A a \in c : weight[a] \in Nat
  BY AssignmentAssumption, WeightAssumption, FS_Subset
<1>2. Accumulates(iter, weight, c)
  <2>1. \E h : Accumulates(h, weight, c)
    BY <1>1, SumAccumulates
  <2> QED
    BY <2>1 DEF Accumulates
<1>3. get_weight(c) = iter[c]
  BY Zenon DEF get_weight, MapThenSumSet, MapThenFoldSet
<1> HIDE DEF iter
<1> QED
  BY <1>1, <1>2, <1>3, SumAccumulates

(* What is installed holds, and is a candidate. *)
LEMMA InstallFacts ==
  ASSUME NEW c \in Candidate
  PROVE  install(c) \in Candidate /\ \A a \in install(c) : Holds(a, c)
<1>1. c \subseteq Assignment /\ \A a, b \in c : variable[a] = variable[b] => a = b
  BY DEF Candidate
<1>2. \A a \in install(c) :
        /\ a \in Assignment /\ variable[a] \in Assumption
        /\ (a \in c /\ variable[a] \in Variables(c))
             \/ (a = default[variable[a]] /\ variable[a] \notin Variables(c))
  BY <1>1, AssignmentAssumption DEF install, Variables
<1> QED
  BY <1>1, <1>2 DEF Candidate, Holds

(* What conflict() returns for an installed candidate: a recorded conflict or a
   nogood. *)
LEMMA ConflictIsInstalled ==
  ASSUME NEW c, NEW k \in conflict(c)
  PROVE  k \subseteq install(c)
BY DEF conflict, LastConflicts, add_conflict, find_subsuming_conflict

(* A candidate that propagate accepts is not ruled out by a nogood in force. *)
LEMMA AcceptedIsNotRuledOut ==
  ASSUME TypeOK, NEW c \in Candidate, IsConsistent(c)
  PROVE  NotRuledOut(c)
<1> SUFFICES ASSUME NEW n \in Nogoods PROVE \E a \in n : ~Holds(a, c)
  BY DEF NotRuledOut
<1>1. PICK a \in n : a \notin install(c)
  BY DEF IsConsistent, LastConflicts
<1>2. a \in Assignment
  BY DEF TypeOK, Nogoods, Constraint
<1> QED
  BY <1>1, <1>2, AssignmentAssumption DEF Holds, install

-----------------------------------------------------------------------------
(* The inductive invariant *)

(* Conflicts are shown by candidates, and are never forgotten; a round is only
   begun when there is a conflict, no candidate, and the limit is not exceeded. *)
Progress ==
  /\ conflicts \cup covered \subseteq Candidate
  /\ pc \in {"deepen", "filter"} => conflicts # {} /\ gamma <= gamma_limit
  /\ pc = "deepen" => candidates = {}
  /\ pc = "filter" => covered \subseteq conflicts

(* The small covers of a round stay among its candidates while no conflict is
   found: none of those that were tested failed. *)
SmallCoversStay ==
  (pc = "filter" /\ conflicts = covered) =>
    \A c \in Candidate :
      (/\ IsCover(c, covered)
       /\ \A d \in SUBSET c : IsCover(d, covered) => d = c
       /\ get_weight(c) < gamma) => c \in candidates

CoverInv == /\ TypeOK /\ Progress
            /\ CandidatesCover /\ SmallCoversStay /\ PassedAreConsistent

LEMMA InitHolds == Init => CoverInv
<1> SUFFICES ASSUME Init PROVE CoverInv
  OBVIOUS
<1>1. TypeOK
  BY WeightRangeAssumption DEF Init, TypeOK, Candidate
<1> QED
  BY <1>1 DEF Init, CoverInv, Progress, CandidatesCover, SmallCoversStay, PassedAreConsistent

(* The list of conflicts has a place for each of them. *)
LEMMA ListType ==
  ASSUME NEW list \in SortedConflicts
  PROVE  list \in [conflicts -> Nat]
BY DEF SortedConflicts

(* A round starts with covers of all the conflicts, the smallest ones among them. *)
LEMMA RoundFacts ==
  ASSUME conflicts \in SUBSET Candidate, conflicts # {}, NEW rho \in 0..(WeightModulus - 1),
         NEW list \in SortedConflicts
  PROVE  LET found == rho_coverage_aux(list)[<<conflicts, rho, {}>>] IN
         /\ \A c \in found : c \in Candidate /\ IsCover(c, conflicts)
         /\ \A c \in Candidate :
              (/\ IsCover(c, conflicts)
               /\ \A d \in SUBSET c : IsCover(d, conflicts) => d = c
               /\ get_weight(c) < rho) => c \in found
<1> DEFINE found == rho_coverage_aux(list)[<<conflicts, rho, {}>>]
<1>1. /\ list \in [conflicts -> Nat] /\ conflicts \in SUBSET SUBSET Assignment
      /\ conflicts \in SUBSET conflicts /\ {} \in SUBSET Assumption
  BY ListType DEF Candidate
<1>2. ASSUME NEW c \in found
      PROVE  c \in Candidate /\ IsCover(c, conflicts)
  <2>1. CoversAll(conflicts, {}, c)
    BY <1>1, RecursionCovers
  <2> QED
    BY <2>1 DEF CoversAll, IsCover, Resolves
<1>3. ASSUME NEW c \in Candidate, IsCover(c, conflicts),
             \A d \in SUBSET c : IsCover(d, conflicts) => d = c,
             get_weight(c) < rho
      PROVE  c \in found
  <2>1. CouldCover(conflicts, {}, c)
    BY <1>3 DEF CouldCover, IsCover
  <2>2. Open(c, {}) = c /\ get_weight(c) = Sum(weight, c)
    BY WeightIsSum DEF Open, Candidate
  <2>3. Sum(weight, Open(c, {})) < rho
    BY <1>3, <2>2
  <2>4. PICK d \in found : d \subseteq Open(c, {})
    <3> DEFINE none == {}
    <3>1. /\ none \in SUBSET Assumption /\ CouldCover(conflicts, none, c)
          /\ Sum(weight, Open(c, none)) < rho
      BY <2>1, <2>3
    <3> HIDE DEF none
    <3>2. \E d \in rho_coverage_aux(list)[<<conflicts, rho, none>>] : d \subseteq Open(c, none)
      BY <1>1, <3>1, RecursionFinds
    <3> QED
      BY <3>2 DEF none
  <2> HIDE DEF found
  <2>5. d = c
    BY <1>2, <1>3, <2>2, <2>4
  <2> QED
    BY <2>4, <2>5
<1> QED
  BY <1>2, <1>3

LEMMA RoundStep ==
  ASSUME CoverInv, rho_coverage
  PROVE  CoverInv'
<1>1. PICK list \in SortedConflicts :
        candidates' = rho_coverage_aux(list)[<<conflicts, gamma', {}>>]
  BY DEF rho_coverage
<1>2. /\ pc = "deepen" /\ gamma < gamma_limit /\ gamma' = gamma + 1
      /\ untested' = candidates' /\ covered' = conflicts /\ pc' = "filter"
      /\ UNCHANGED <<theory, observed, conflicts, gamma_limit>>
  BY DEF rho_coverage
<1>3. /\ TypeOK /\ conflicts \in SUBSET Candidate /\ conflicts # {} /\ WeightModulus \in Nat
  BY <1>2, WeightRangeAssumption DEF CoverInv, Progress
<1>4. gamma' \in 0..(WeightModulus - 1) /\ gamma' <= gamma_limit /\ gamma' \in Nat
  BY <1>2, <1>3 DEF TypeOK
<1> DEFINE found == rho_coverage_aux(list)[<<conflicts, gamma', {}>>]
<1>5. /\ \A c \in found : c \in Candidate /\ IsCover(c, conflicts)
      /\ \A c \in Candidate :
           (/\ IsCover(c, conflicts)
            /\ \A d \in SUBSET c : IsCover(d, conflicts) => d = c
            /\ get_weight(c) < gamma') => c \in found
  <2> DEFINE rho == gamma'
  <2>1. rho \in 0..(WeightModulus - 1)
    BY <1>4
  <2> HIDE DEF rho
  <2>2. LET f == rho_coverage_aux(list)[<<conflicts, rho, {}>>] IN
        /\ \A c \in f : c \in Candidate /\ IsCover(c, conflicts)
        /\ \A c \in Candidate :
             (/\ IsCover(c, conflicts)
              /\ \A d \in SUBSET c : IsCover(d, conflicts) => d = c
              /\ get_weight(c) < rho) => c \in f
    BY <1>3, <2>1, RoundFacts
  <2> QED
    BY <2>2 DEF rho
<1> HIDE DEF found
<1>6. candidates' = found
  BY <1>1 DEF found
<1>7. TypeOK' /\ Progress'
  BY <1>2, <1>3, <1>4, <1>5, <1>6 DEF TypeOK, Progress
<1>8. CandidatesCover' /\ PassedAreConsistent'
  <2>1. CandidatesCover'
    BY <1>2, <1>5, <1>6 DEF CandidatesCover
  <2> QED
    BY <1>2, <2>1 DEF PassedAreConsistent
<1>9. SmallCoversStay'
  BY <1>2, <1>5, <1>6 DEF SmallCoversStay
<1> QED
  BY <1>7, <1>8, <1>9 DEF CoverInv

(* A turn of one of the loops that test candidates. *)
LEMMA FilterStep ==
  ASSUME CoverInv, filter
  PROVE  CoverInv'
<1>1. PICK c \in untested : test(c) /\ untested' = untested \ {c}
  BY DEF filter
<1>2. /\ pc \in {"prune", "filter"}
      /\ UNCHANGED <<theory, observed, gamma_limit, gamma, covered, pc>>
  BY DEF filter
<1>3. TypeOK /\ Progress /\ CandidatesCover /\ SmallCoversStay /\ PassedAreConsistent
  BY DEF CoverInv
<1>4. c \in Candidate
  BY <1>3 DEF TypeOK
<1>5. Nogoods' = Nogoods /\ \A d : NotRuledOut(d)' <=> NotRuledOut(d)
  BY <1>2 DEF Nogoods, NotRuledOut
<1>6. CASE IsConsistent(c) /\ UNCHANGED <<candidates, conflicts>>
  <2>1. NotRuledOut(c)
    BY <1>3, <1>4, <1>6, AcceptedIsNotRuledOut
  <2>2. TypeOK' /\ Progress' /\ CandidatesCover' /\ SmallCoversStay'
    BY <1>1, <1>2, <1>3, <1>6
       DEF TypeOK, Progress, CandidatesCover, SmallCoversStay
  <2>3. PassedAreConsistent'
    BY <1>1, <1>2, <1>3, <1>5, <1>6, <2>1 DEF PassedAreConsistent
  <2> QED
    BY <2>2, <2>3 DEF CoverInv
<1>7. ASSUME NEW k \in conflict(c), conflicts' = conflicts \cup {k},
             candidates' = candidates \ {c}
      PROVE  CoverInv'
  <2>1. k \subseteq install(c)
    BY ConflictIsInstalled
  <2>2. k \in Candidate
    BY <1>4, <2>1, InstallFacts DEF Candidate
  <2>3. TypeOK'
    BY <1>1, <1>2, <1>3, <1>7, <2>2 DEF TypeOK, Candidate
  <2>4. Progress'
    BY <1>2, <1>3, <1>7, <2>2 DEF Progress
  <2>5. CandidatesCover'
    BY <1>1, <1>2, <1>3 DEF CandidatesCover
  <2>6. PassedAreConsistent'
    BY <1>1, <1>2, <1>3, <1>5, <1>7 DEF PassedAreConsistent
  <2>7. ~(pc' = "filter" /\ conflicts' = covered')
    <3> SUFFICES ASSUME pc = "filter", k \in covered PROVE FALSE
      BY <1>2, <1>7
    <3>1. PICK a \in k : ~Holds(a, c)
      BY <1>3 DEF CandidatesCover, IsCover, Resolves
    <3> QED
      BY <1>4, <2>1, <3>1, InstallFacts
  <2>8. SmallCoversStay'
    BY <2>7 DEF SmallCoversStay
  <2> QED
    BY <2>3, <2>4, <2>5, <2>6, <2>8 DEF CoverInv
<1> QED
  BY <1>1, <1>6, <1>7 DEF test

(* Steps that find no candidate and no conflict. *)
LEMMA OtherStep ==
  ASSUME CoverInv,
         \/ prune_inconsistent_candidates_return \/ exceed_limit \/ rho_coverage_return
         \/ find_fresh_candidates \/ find_candidates
  PROVE  CoverInv'
<1>1. TypeOK /\ Progress /\ CandidatesCover /\ SmallCoversStay /\ PassedAreConsistent
  BY DEF CoverInv
<1>2. /\ UNCHANGED <<theory, observed, conflicts, gamma_limit, covered>>
      /\ pc' \in {"client", "prune", "deepen"}
  BY DEF prune_inconsistent_candidates_return, exceed_limit, rho_coverage_return,
         find_fresh_candidates, find_candidates, fresh
<1>3. TypeOK'
  BY <1>1, <1>2
     DEF TypeOK, Progress, prune_inconsistent_candidates_return, exceed_limit,
         rho_coverage_return, find_fresh_candidates, find_candidates
<1>4. Progress'
  <2>1. pc' = "deepen" => conflicts # {} /\ gamma' <= gamma_limit /\ candidates' = {}
    BY <1>1
       DEF TypeOK, Progress, prune_inconsistent_candidates_return, exceed_limit,
           rho_coverage_return, find_fresh_candidates, find_candidates, fresh
  <2> QED
    BY <1>1, <1>2, <2>1 DEF Progress
<1>5. CandidatesCover' /\ SmallCoversStay'
  BY <1>2 DEF CandidatesCover, SmallCoversStay
<1>6. PassedAreConsistent'
  <2>1. pc' # "client" => candidates' \ untested' = {}
    BY DEF prune_inconsistent_candidates_return, exceed_limit, rho_coverage_return,
           find_fresh_candidates, find_candidates, fresh
  <2> QED
    BY <2>1 DEF PassedAreConsistent
<1> QED
  BY <1>3, <1>4, <1>5, <1>6 DEF CoverInv

LEMMA ObserveStep ==
  ASSUME CoverInv, NEW x \in Observable, NEW v \in Value, observe(x, v)
  PROVE  CoverInv'
<1>1. /\ pc = "client" /\ observed' = [observed EXCEPT ![x] = v]
      /\ UNCHANGED <<theory, conflicts, gamma_limit, gamma, candidates, untested, covered, pc>>
  BY DEF observe
<1> QED
  BY <1>1
     DEF CoverInv, TypeOK, Progress, CandidatesCover, SmallCoversStay, PassedAreConsistent

LEMMA NextHolds == CoverInv /\ [Next]_vars => CoverInv'
<1> SUFFICES ASSUME CoverInv, [Next]_vars PROVE CoverInv'
  OBVIOUS
<1>1. CASE UNCHANGED vars
  BY <1>1
     DEF vars, CoverInv, TypeOK, Progress, CandidatesCover, SmallCoversStay,
         PassedAreConsistent, NotRuledOut, Nogoods
<1>2. CASE Search
  BY <1>2, FilterStep, RoundStep, OtherStep DEF Search
<1>3. CASE \E x \in Observable, v \in Value : observe(x, v)
  BY <1>3, ObserveStep
<1> QED
  BY <1>1, <1>2, <1>3, OtherStep DEF Next

-----------------------------------------------------------------------------
(* What a round explains *)

(* Each conflict contains a nogood in force, so explanations resolve it. *)
ConflictsHold == \A k \in conflicts : \E n \in Nogoods : n \subseteq k

(* A round that shows no new conflict returns explanations only, and a part of every
   explanation that costs less than rho. *)
RoundExplains ==
  (pc = "filter" /\ untested = {} /\ conflicts = covered) =>
    /\ \A c \in candidates : NotRuledOut(c)
    /\ \A e \in Candidate :
         (NotRuledOut(e) /\ get_weight(e) < gamma) => \E c \in candidates : c \subseteq e

(* conflict() answers a recorded conflict or a nogood. *)
LEMMA ConflictIsKnown ==
  ASSUME NEW c, NEW k \in conflict(c)
  PROVE  k \in conflicts \cup Nogoods
BY DEF conflict, LastConflicts, add_conflict, find_subsuming_conflict

LEMMA ConflictsHoldNext ==
  ASSUME CoverInv, ConflictsHold, [Next]_vars
  PROVE  ConflictsHold'
<1>1. CASE filter
  <2>1. Nogoods' = Nogoods
    BY <1>1 DEF filter, Nogoods
  <2>2. \A k \in conflicts' : k \in conflicts \cup Nogoods
    BY <1>1, ConflictIsKnown DEF filter, test
  <2> QED
    BY <2>1, <2>2 DEF ConflictsHold
<1>2. ASSUME NEW x \in Observable, NEW v \in Value, observe(x, v)
      PROVE  ConflictsHold'
  <2>1. /\ observed[x] = NULL /\ observed' = [observed EXCEPT ![x] = v]
        /\ UNCHANGED <<theory, conflicts>>
    BY <1>2 DEF observe
  <2>2. TypeOK
    BY DEF CoverInv
  <2>3. Nogoods \subseteq Nogoods'
    <3> SUFFICES ASSUME NEW r \in theory, \A o \in r.given : observed[o[1]] = o[2],
                        NEW o \in r.given
                 PROVE  observed'[o[1]] = o[2]
      BY <2>1 DEF Nogoods
    <3>1. o[1] \in Observable /\ o[2] \in Value
      BY <2>2 DEF TypeOK, Constraint
    <3> QED
      BY <2>1, <2>2, <3>1, AssignmentAssumption DEF TypeOK
  <2> QED
    BY <2>1, <2>3 DEF ConflictsHold
<1>3. CASE UNCHANGED <<theory, observed, conflicts>>
  BY <1>3 DEF ConflictsHold, Nogoods
<1> QED
  BY <1>1, <1>2, <1>3
     DEF Next, Search, vars, prune_inconsistent_candidates_return, rho_coverage,
         exceed_limit, rho_coverage_return, find_fresh_candidates, find_candidates

(* A cover contains a smallest cover. *)
LEMMA SmallestCover ==
  ASSUME NEW e \in Candidate, NEW K, IsCover(e, K)
  PROVE  \E d \in SUBSET e : /\ IsCover(d, K)
                            /\ \A f \in SUBSET d : IsCover(f, K) => f = d
<1> DEFINE Q == {s \in SUBSET e : \E d \in SUBSET s : IsCover(d, K)}
<1>1. IsFiniteSet(e)
  BY AssignmentAssumption, FS_Subset DEF Candidate
<1>2. PICK s \in Q : \A x \in s : s \ {x} \notin Q
  <2>1. e \in Q
    OBVIOUS
  <2>2. Q \in SUBSET (SUBSET e) /\ Q # {}
    BY <2>1
  <2> HIDE DEF Q
  <2> QED
    BY <1>1, <2>2, SmallestPart
<1>3. ASSUME NEW f \in SUBSET s, IsCover(f, K)
      PROVE  f = s
  <2> SUFFICES ASSUME NEW x \in s, x \notin f PROVE FALSE
    OBVIOUS
  <2>1. f \in SUBSET (s \ {x}) /\ s \ {x} \in SUBSET e
    OBVIOUS
  <2> QED
    BY <1>2, <1>3, <2>1
<1>4. PICK d \in SUBSET s : IsCover(d, K)
  OBVIOUS
<1> QED
  BY <1>3, <1>4

LEMMA RoundExplainsHolds == CoverInv /\ ConflictsHold => RoundExplains
<1> SUFFICES ASSUME CoverInv, ConflictsHold, pc = "filter", untested = {},
                    conflicts = covered
             PROVE  /\ \A c \in candidates : NotRuledOut(c)
                    /\ \A e \in Candidate :
                         (NotRuledOut(e) /\ get_weight(e) < gamma) =>
                           \E c \in candidates : c \subseteq e
  BY DEF RoundExplains
<1>1. TypeOK /\ SmallCoversStay /\ PassedAreConsistent
  BY DEF CoverInv
<1>2. \A c \in candidates : NotRuledOut(c)
  BY <1>1 DEF PassedAreConsistent
<1>3. ASSUME NEW e \in Candidate, NotRuledOut(e), get_weight(e) < gamma
      PROVE  \E c \in candidates : c \subseteq e
  <2>1. IsCover(e, covered)
    BY <1>3 DEF ConflictsHold, NotRuledOut, IsCover, Resolves
  <2>2. PICK d \in SUBSET e : /\ IsCover(d, covered)
                              /\ \A f \in SUBSET d : IsCover(f, covered) => f = d
    BY <2>1, SmallestCover
  <2>3. d \in Candidate
    BY DEF Candidate
  <2>4. get_weight(d) < gamma
    <3>1. /\ e \in SUBSET Assignment /\ d \in SUBSET Assignment /\ IsFiniteSet(e)
          /\ IsFiniteSet(d) /\ \A a \in e : weight[a] \in Nat
      BY AssignmentAssumption, WeightAssumption, FS_Subset DEF Candidate
    <3>2. get_weight(d) = Sum(weight, d) /\ get_weight(e) = Sum(weight, e)
      BY <3>1, WeightIsSum
    <3>3. Sum(weight, d) <= Sum(weight, e)
      BY <3>1, SumOfPart
    <3>4. Sum(weight, d) \in Nat /\ Sum(weight, e) \in Nat /\ gamma \in Int
      BY <1>1, <3>1, SumFacts DEF TypeOK
    <3> QED
      BY <1>3, <3>2, <3>3, <3>4
  <2> QED
    BY <1>1, <2>2, <2>3, <2>4 DEF SmallCoversStay
<1> QED
  BY <1>2, <1>3

-----------------------------------------------------------------------------
(* The theorems *)

(* Candidates of every kind of list name each variable at most once, and the cost
   of a round stays within the limit. *)
THEOREM TypeCorrect == FairSpec => []TypeOK
<1>1. CoverInv => TypeOK
  BY DEF CoverInv
<1> QED
  BY <1>1, InitHolds, NextHolds, PTL DEF FairSpec

(* rho_coverage_aux: a candidate of a round resolves every conflict that was known
   when the round began, whatever order the conflicts have. *)
THEOREM CandidatesAlwaysCover == FairSpec => []CandidatesCover
<1>1. CoverInv => CandidatesCover
  BY DEF CoverInv
<1> QED
  BY <1>1, InitHolds, NextHolds, PTL DEF FairSpec

(* rho_coverage_aux: a round misses none of the smallest covers that cost less than
   rho, although it looks for the covers of each conflict by the assignments that
   resolve it alone, marks their variables, and counts modulo the size of a weight. *)
THEOREM SmallCoversAlwaysFound == FairSpec => []SmallCoversFound
<1>1. CoverInv => SmallCoversFound
  BY DEF CoverInv, SmallCoversStay, SmallCoversFound
<1> QED
  BY <1>1, InitHolds, NextHolds, PTL DEF FairSpec

(* prune_inconsistent_candidates and rho_coverage: what their loops have passed is
   consistent with what is observed. *)
THEOREM PassedAlwaysConsistent == FairSpec => []PassedAreConsistent
<1>1. CoverInv => PassedAreConsistent
  BY DEF CoverInv
<1> QED
  BY <1>1, InitHolds, NextHolds, PTL DEF FairSpec

(* rho_coverage: the search is sound and complete round by round.  When a round ends
   and its tests have shown no new conflict, its candidates are explanations, and each
   explanation that costs less than rho contains one of them. *)
THEOREM RoundsExplain == FairSpec => []RoundExplains
<1>1. Init => ConflictsHold
  BY DEF Init, ConflictsHold
<1>2. CoverInv /\ ConflictsHold /\ [Next]_vars => ConflictsHold'
  BY ConflictsHoldNext
<1> QED
  BY <1>1, <1>2, InitHolds, NextHolds, RoundExplainsHolds, PTL DEF FairSpec

=============================================================================
