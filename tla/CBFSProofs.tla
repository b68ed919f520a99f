------------------------------ MODULE CBFSProofs ------------------------------
(***************************************************************************)
(* What the best-first search of CBFS returns, for every set of            *)
(* assumptions, assignments, weights, theories and limits: its variables   *)
(* keep their types, the classes hold the candidates of the tracker, all   *)
(* that is found is an explanation, and when the search runs its agenda    *)
(* empty it has lost none; then the order in which candidates are found.   *)
(*                                                                         *)
(* The argument for the last.  Every explanation that no candidate found   *)
(* so far is part of is covered by an element of the agenda: the element's *)
(* prefix is part of it, and so is the element's current assignment, or    *)
(* else a useful one among the remaining.  When that element is popped and *)
(* its candidate is inconsistent, the conflict must be resolved in the     *)
(* explanation by an assignment that differs from a default, and this one  *)
(* is among the resolving assignments that the child starts with.  It      *)
(* needs that recorded conflicts are nogoods still, which is why           *)
(* observations are assumed not to be revised.                             *)
(***************************************************************************)
EXTENDS CBFS, DataLemmas

-----------------------------------------------------------------------------
(* Bags *)

(* Taking an element out of a bag leaves the others, and adds none. *)
LEMMA BagRemoval ==
  ASSUME NEW B, IsABag(B), NEW e \in BagToSet(B)
  PROVE  /\ IsABag(B (-) SetToBag({e}))
         /\ BagToSet(B (-) SetToBag({e})) \subseteq BagToSet(B)
         /\ \A x \in BagToSet(B) : x # e => x \in BagToSet(B (-) SetToBag({e}))
BY DEF IsABag, BagToSet, SetToBag, (-)

(* Adding bags joins their elements. *)
LEMMA BagAddition ==
  ASSUME NEW B, NEW C, IsABag(B), IsABag(C)
  PROVE  IsABag(B (+) C) /\ BagToSet(B (+) C) = BagToSet(B) \cup BagToSet(C)
BY DEF IsABag, BagToSet, (+)

LEMMA BagOfSet ==
  ASSUME NEW S
  PROVE  IsABag(SetToBag(S)) /\ BagToSet(SetToBag(S)) = S
BY DEF IsABag, BagToSet, SetToBag

LEMMA EmptyBagIsEmpty == IsABag(EmptyBag) /\ BagToSet(EmptyBag) = {}
BY BagOfSet DEF EmptyBag

LEMMA InsertionFacts ==
  ASSUME NEW S, NEW s \in Insertions(S)
  PROVE  /\ IsABag(s)
         /\ BagToSet(s) \subseteq S
         /\ S # {} => \E x \in S : x \in BagToSet(s)
BY BagOfSet, EmptyBagIsEmpty, ZenonT(60) DEF Insertions

(* What expand_element puts into the agenda B in the place of e, after a
   consistent candidate ... *)
LEMMA AgendaUpdate ==
  ASSUME NEW B, IsABag(B), NEW e \in BagToSet(B), NEW S, NEW s \in Insertions(S)
  PROVE  LET C == (B (-) SetToBag({e})) (+) s IN
         /\ IsABag(C)
         /\ BagToSet(C) \subseteq BagToSet(B) \cup S
         /\ \A x \in BagToSet(B) : x # e => x \in BagToSet(C)
         /\ S # {} => \E x \in S : x \in BagToSet(C)
<1> DEFINE A == B (-) SetToBag({e})
<1>1. IsABag(A) /\ BagToSet(A) \subseteq BagToSet(B)
      /\ \A x \in BagToSet(B) : x # e => x \in BagToSet(A)
  BY BagRemoval
<1> HIDE DEF A
<1>2. IsABag(A (+) s) /\ BagToSet(A (+) s) = BagToSet(A) \cup BagToSet(s)
  BY <1>1, InsertionFacts, BagAddition
<1> QED
  BY <1>1, <1>2, InsertionFacts, Zenon DEF A

(* ... and after a conflict. *)
LEMMA AgendaUpdateTwo ==
  ASSUME NEW B, IsABag(B), NEW e \in BagToSet(B),
         NEW S, NEW T, NEW s \in Insertions(S), NEW t \in Insertions(T)
  PROVE  LET C == ((B (-) SetToBag({e})) (+) s) (+) t IN
         /\ IsABag(C)
         /\ BagToSet(C) \subseteq BagToSet(B) \cup S \cup T
         /\ \A x \in BagToSet(B) : x # e => x \in BagToSet(C)
         /\ S # {} => \E x \in S : x \in BagToSet(C)
         /\ T # {} => \E x \in T : x \in BagToSet(C)
<1> DEFINE A == (B (-) SetToBag({e})) (+) s
<1>1. /\ IsABag(A)
      /\ BagToSet(A) \subseteq BagToSet(B) \cup S
      /\ \A x \in BagToSet(B) : x # e => x \in BagToSet(A)
      /\ S # {} => \E x \in S : x \in BagToSet(A)
  BY AgendaUpdate
<1> HIDE DEF A
<1>2. IsABag(A (+) t) /\ BagToSet(A (+) t) = BagToSet(A) \cup BagToSet(t)
  BY <1>1, InsertionFacts, BagAddition
<1> QED
  BY <1>1, <1>2, InsertionFacts, Zenon DEF A

-----------------------------------------------------------------------------
(* Sequences *)

LEMMA ConcatFacts ==
  ASSUME NEW S, NEW u \in Seq(S), NEW v \in Seq(S)
  PROVE  /\ DOMAIN (u \o v) = 1..(Len(u) + Len(v))
         /\ \A k \in 1..(Len(u) + Len(v)) :
              (u \o v)[k] = IF k <= Len(u) THEN u[k] ELSE v[k - Len(u)]
OBVIOUS

LEMMA ConcatMembers ==
  ASSUME NEW S, NEW u \in Seq(S), NEW v \in Seq(S)
  PROVE  ToSet(u \o v) = ToSet(u) \cup ToSet(v)
<1>1. /\ Len(u) \in Nat /\ DOMAIN u = 1..Len(u)
      /\ Len(v) \in Nat /\ DOMAIN v = 1..Len(v)
  OBVIOUS
<1>2. \A k \in 1..Len(u) : k \in DOMAIN (u \o v) /\ (u \o v)[k] = u[k]
  BY <1>1, ConcatFacts
<1>3. ASSUME NEW k \in 1..Len(v)
      PROVE  Len(u) + k \in DOMAIN (u \o v) /\ (u \o v)[Len(u) + k] = v[k]
  <2>1. Len(u) + k \in 1..(Len(u) + Len(v)) /\ ~(Len(u) + k <= Len(u))
        /\ (Len(u) + k) - Len(u) = k
    BY <1>1
  <2> QED
    BY <2>1, ConcatFacts
<1>4. \A k \in DOMAIN (u \o v) :
        \/ k \in 1..Len(u) /\ (u \o v)[k] = u[k]
        \/ k - Len(u) \in 1..Len(v) /\ (u \o v)[k] = v[k - Len(u)]
  BY <1>1, ConcatFacts
<1> DEFINE w == u \o v
<1> HIDE DEF w
<1>5. /\ \A k \in DOMAIN u : \E j \in DOMAIN w : w[j] = u[k]
      /\ \A k \in DOMAIN v : \E j \in DOMAIN w : w[j] = v[k]
      /\ \A k \in DOMAIN w : \/ \E j \in DOMAIN u : w[k] = u[j]
                             \/ \E j \in DOMAIN v : w[k] = v[j]
  BY <1>1, <1>2, <1>3, <1>4 DEF w
<1>6. ToSet(w) = ToSet(u) \cup ToSet(v)
  BY <1>5 DEF ToSet
<1> QED
  BY <1>6 DEF w

LEMMA AppendFacts ==
  ASSUME NEW S, NEW s \in Seq(S), NEW x \in S
  PROVE  LET n == Len(s) + 1 IN
         /\ n \in DOMAIN Append(s, x) /\ Append(s, x)[n] = x
         /\ DOMAIN Append(s, x) = DOMAIN s \cup {n}
         /\ \A i \in DOMAIN s : Append(s, x)[i] = s[i] /\ i < n
OBVIOUS

LEMMA AppendMembers ==
  ASSUME NEW S, NEW s \in Seq(S), NEW x \in S
  PROVE  ToSet(Append(s, x)) = ToSet(s) \cup {x} /\ Len(Append(s, x)) = Len(s) + 1
<1> DEFINE w == Append(s, x)
           n == Len(s) + 1
<1>1. /\ Len(w) = n
      /\ DOMAIN w = DOMAIN s \cup {n} /\ w[n] = x
      /\ \A i \in DOMAIN s : w[i] = s[i]
  OBVIOUS
<1> HIDE DEF w, n
<1>2. ToSet(w) = ToSet(s) \cup {x}
  BY <1>1 DEF ToSet
<1> QED
  BY <1>1, <1>2 DEF w, n

LEMMA RemoveAtKeeps ==
  ASSUME NEW S, NEW s \in Seq(S), NEW i \in 1..Len(s)
  PROVE  \A k \in DOMAIN RemoveAt(s, i) : \E j \in DOMAIN s : RemoveAt(s, i)[k] = s[j]
<1> DEFINE front == SubSeq(s, 1, i - 1)
           back == SubSeq(s, i + 1, Len(s))
<1>1. /\ front \in Seq(S) /\ Len(front) = i - 1
      /\ \A k \in 1..Len(front) : front[k] = s[k]
  OBVIOUS
<1>2. /\ back \in Seq(S) /\ Len(back) = Len(s) - i
      /\ \A k \in 1..Len(back) : back[k] = s[i + k]
  BY SMTT(30)
<1> HIDE DEF front, back
<1>3. /\ DOMAIN (front \o back) = 1..(Len(front) + Len(back))
      /\ \A k \in 1..(Len(front) + Len(back)) :
           (front \o back)[k] = IF k <= Len(front) THEN front[k] ELSE back[k - Len(front)]
  BY <1>1, <1>2, ConcatFacts
<1>4. RemoveAt(s, i) = front \o back
  BY DEF RemoveAt, front, back
<1>5. Len(s) \in Nat /\ DOMAIN s = 1..Len(s)
  OBVIOUS
<1> SUFFICES ASSUME NEW k \in 1..(Len(front) + Len(back))
             PROVE  \E j \in DOMAIN s : (front \o back)[k] = s[j]
  BY <1>3, <1>4
<1>6. CASE k <= Len(front)
  <2>1. (front \o back)[k] = front[k] /\ k \in 1..Len(front)
    BY <1>1, <1>3, <1>6
  <2>2. k \in DOMAIN s /\ front[k] = s[k]
    BY <1>1, <1>5, <2>1
  <2> QED
    BY <2>1, <2>2
<1>7. CASE ~(k <= Len(front))
  <2>1. k - Len(front) \in 1..Len(back) /\ i + (k - Len(front)) \in DOMAIN s
    BY <1>1, <1>2, <1>5, <1>7
  <2>2. (front \o back)[k] = s[i + (k - Len(front))]
    BY <1>2, <1>3, <1>7, <2>1
  <2> QED
    BY <2>1, <2>2
<1> QED
  BY <1>6, <1>7

-----------------------------------------------------------------------------
(* Candidates and elements *)

LEMMA SubCandidate ==
  ASSUME NEW c \in Candidate, NEW d, d \subseteq c
  PROVE  d \in Candidate
BY DEF Candidate

(* A useful assignment is to a variable that the candidate does not have. *)
LEMMA UsefulExtends ==
  ASSUME NEW c \in Candidate, NEW a \in Assignment, is_assignment_useful(a, c)
  PROVE  c \cup {a} \in Candidate
BY DEF Candidate, is_assignment_useful, Variables

LEMMA PrefixIsCandidate ==
  ASSUME NEW e \in Element, generate_candidate(e) \in Candidate
  PROVE  e.prefix \in Candidate
<1>1. e.prefix \subseteq generate_candidate(e)
  BY DEF generate_candidate
<1> QED
  BY <1>1, SubCandidate

LEMMA NextElementsType ==
  ASSUME NEW prefix \in Candidate, NEW list \in SUBSET Assignment,
         NEW x \in NextElements(prefix, list)
  PROVE  /\ x \in Element
         /\ generate_candidate(x) \in Candidate
         /\ x.prefix = prefix
         /\ x.current \in UsefulAssignments(prefix, list)
         /\ x.remaining = list \ {x.current}
<1>1. PICK a \in Lightest(UsefulAssignments(prefix, list)) :
         x = [prefix |-> prefix, current |-> a, remaining |-> list \ {a}]
  BY DEF NextElements
<1>2. a \in UsefulAssignments(prefix, list)
  BY DEF Lightest
<1>3. a \in Assignment /\ is_assignment_useful(a, prefix)
  BY <1>2 DEF UsefulAssignments
<1>4. x \in Element
  BY <1>1, <1>3 DEF Element, Candidate
<1>5. generate_candidate(x) = prefix \cup {a}
  BY <1>1, <1>3, AssignmentAssumption DEF generate_candidate
<1> QED
  BY <1>1, <1>2, <1>3, <1>4, <1>5, UsefulExtends

(* pop_useless_assignments stops at an assignment if there is a useful one. *)
LEMMA NextElementsExist ==
  ASSUME NEW prefix, NEW list \in SUBSET Assignment,
         UsefulAssignments(prefix, list) # {}
  PROVE  NextElements(prefix, list) # {}
<1> DEFINE U == UsefulAssignments(prefix, list)
           W == {weight[a] : a \in U}
<1>1. U \subseteq Assignment
  BY DEF UsefulAssignments
<1> HIDE DEF U
<1>2. W \subseteq Nat /\ W # {}
  BY <1>1, WeightAssumption DEF U
<1>3. PICK m \in W : \A n \in W : m <= n
  BY <1>2, LeastNatural
<1>4. PICK a \in U : m = weight[a]
  OBVIOUS
<1>5. a \in Lightest(U)
  BY <1>3, <1>4 DEF Lightest
<1> QED
  BY <1>5 DEF NextElements, U

LEMMA NogoodType ==
  ASSUME theory \in SUBSET Constraint
  PROVE  Nogoods \subseteq SUBSET Assignment
BY DEF Nogoods, Constraint

(* What conflict() returns for an installed candidate. *)
LEMMA ConflictFacts ==
  ASSUME NEW c, NEW k \in conflict(c)
  PROVE  /\ k \in conflicts \cup Nogoods
         /\ k \subseteq install(c)
<1>1. PICK n \in LastConflicts(c) : k \in add_conflict(n)
  BY DEF conflict
<1>2. n \in Nogoods /\ n \subseteq install(c)
  BY DEF LastConflicts
<1>3. k = n \/ (k \in conflicts /\ k \subseteq n)
  BY <1>1 DEF add_conflict, find_subsuming_conflict
<1> QED
  BY <1>2, <1>3

LEMMA PartitionType ==
  ASSUME NEW classes \in Seq(Seq(Candidate)), NEW c \in Candidate
  PROVE  addToPartition(classes, c) \in Seq(Seq(Candidate))
<1> DEFINE i == equivalenceClassIndex(c, classes)
<1> HIDE DEF i
<1>1. [classes EXCEPT ![i] = Append(classes[i], c)] \in Seq(Seq(Candidate))
  <2>1. CASE i \in DOMAIN classes
    <3>1. classes[i] \in Seq(Candidate)
      BY <2>1
    <3>2. Append(classes[i], c) \in Seq(Candidate)
      BY <3>1
    <3> QED
      BY <2>1, <3>2
  <2>2. CASE i \notin DOMAIN classes
    <3> DEFINE new == [classes EXCEPT ![i] = Append(classes[i], c)]
    <3>1. DOMAIN new = DOMAIN classes /\ \A j \in DOMAIN classes : new[j] = classes[j]
      BY <2>2
    <3>2. classes = [j \in DOMAIN classes |-> classes[j]]
      OBVIOUS
    <3>3. new = [j \in DOMAIN new |-> new[j]]
      OBVIOUS
    <3> HIDE DEF new
    <3>4. new = classes
      BY <3>1, <3>2, <3>3
    <3> QED
      BY <3>4 DEF new
  <2> QED
    BY <2>1, <2>2
<1>2. Append(classes, <<c>>) \in Seq(Seq(Candidate))
  <2>1. <<c>> \in Seq(Candidate)
    OBVIOUS
  <2> QED
    BY <2>1
<1> QED
  BY <1>1, <1>2 DEF addToPartition, i

-----------------------------------------------------------------------------
(* Type correctness *)

ElementsTyped(S) == \A e \in S : e \in Element /\ generate_candidate(e) \in Candidate

LEMMA SeedsTyped ==
  ASSUME NEW from \in SUBSET Candidate
  PROVE  ElementsTyped({seed(c) : c \in from})
BY DEF ElementsTyped, seed, Element, generate_candidate, Candidate

LEMMA SiblingsTyped ==
  ASSUME NEW e \in Element, generate_candidate(e) \in Candidate
  PROVE  ElementsTyped(Sibling(e))
<1>1. e.prefix \in Candidate /\ e.remaining \in SUBSET Assignment
  BY PrefixIsCandidate DEF Element
<1> QED
  BY <1>1, NextElementsType DEF ElementsTyped, Sibling

LEMMA ChildrenTyped ==
  ASSUME NEW e \in Element, generate_candidate(e) \in Candidate, NEW k
  PROVE  ElementsTyped(Child(e, k))
<1>1. resolving_assignments(k) \in SUBSET Assignment
  BY DEF resolving_assignments
<1> QED
  BY <1>1, NextElementsType DEF ElementsTyped, Child

LEMMA StartSearchType ==
  ASSUME NEW from \in SUBSET Candidate, StartSearch(from)
  PROVE  /\ seeds' \in SUBSET Candidate
         /\ IsABag(agenda') /\ ElementsTyped(BagToSet(agenda'))
         /\ candidates_considered' \in Nat
         /\ candidates' \in Seq(Candidate)
         /\ candidatePartition' \in Seq(Seq(Candidate))
         /\ pc' = "search"
<1> DEFINE start == IF from = {} THEN {{}} ELSE from
<1>1. start \in SUBSET Candidate
  BY DEF Candidate
<1>2. seeds' = start /\ agenda' = SetToBag({seed(c) : c \in start})
  BY DEF StartSearch
<1> HIDE DEF start
<1>3. IsABag(agenda') /\ BagToSet(agenda') = {seed(c) : c \in start}
  BY <1>2, BagOfSet
<1>4. ElementsTyped(BagToSet(agenda'))
  BY <1>1, <1>3, SeedsTyped
<1>5. /\ candidates_considered' = 0
      /\ candidates' = <<>>
      /\ candidatePartition' = <<>>
      /\ pc' = "search"
  BY DEF StartSearch
<1> QED
  BY <1>1, <1>2, <1>3, <1>4, <1>5

LEMMA FreshSeedsType == FreshSeeds \in SUBSET Candidate
BY DEF FreshSeeds, Candidate

LEMMA InitType == Init => TypeOK
<1> SUFFICES ASSUME Init PROVE TypeOK
  OBVIOUS
<1>1. theory \in SUBSET Constraint /\ limits \in Limit
  BY SettingAssumption DEF Init
<1>2. {} \in Candidate
  BY DEF Candidate
<1>3. IsABag(agenda) /\ BagToSet(agenda) = {seed({})}
  BY BagOfSet DEF Init
<1>4. \A e \in BagToSet(agenda) : e \in Element /\ generate_candidate(e) \in Candidate
  BY <1>2, <1>3 DEF seed, Element, generate_candidate
<1>5. observed \in [Observable -> Value \cup {NULL}]
  BY DEF Init
<1>6. candidates \in Seq(Candidate) /\ candidatePartition \in Seq(Seq(Candidate))
  BY DEF Init
<1>7. /\ conflicts \in SUBSET SUBSET Assignment
      /\ candidates_considered \in Nat
      /\ it \in Nat
      /\ pc \in {"client", "search", "prune", "partition"}
  BY DEF Init
<1>8. seeds \in SUBSET Candidate
  BY <1>2 DEF Init
<1>9. hasTracker \in BOOLEAN /\ pc = "search"
  BY DEF Init
<1>10. pc \in {"prune", "partition"} => it > 0
  BY <1>9
<1> QED
  BY <1>1, <1>3, <1>4, <1>5, <1>6, <1>7, <1>8, <1>9, <1>10, Zenon DEF TypeOK

(* The steps of the loop of the search. *)
LEMMA SearchStepType ==
  ASSUME TypeOK, find_consistent_candidates
  PROVE  TypeOK'
<1>1. PICK e \in Best : next_inconsistent(e) \/ next_consistent_candidate(e)
  BY DEF find_consistent_candidates
<1>2. e \in BagToSet(agenda)
  BY DEF Best
<1>3. e \in Element /\ generate_candidate(e) \in Candidate /\ IsABag(agenda)
  BY <1>2 DEF TypeOK
<1>4. ElementsTyped(BagToSet(agenda)) /\ ElementsTyped(Sibling(e))
  BY <1>3, SiblingsTyped DEF TypeOK, ElementsTyped
<1>5. /\ IsABag(agenda') /\ ElementsTyped(BagToSet(agenda'))
      /\ conflicts' \in SUBSET SUBSET Assignment
      /\ candidates' \in Seq(Candidate)
      /\ candidatePartition' \in Seq(Seq(Candidate))
  <2>1. CASE next_inconsistent(e)
    <3>1. PICK k \in conflict(generate_candidate(e)) :
            /\ conflicts' = conflicts \cup {k}
            /\ \E child \in Insertions(Child(e, k)), sibling \in Insertions(Sibling(e)) :
                 agenda' = ((agenda (-) SetToBag({e})) (+) child) (+) sibling
      BY <2>1 DEF next_inconsistent
    <3>2. k \in SUBSET Assignment
      BY ConflictFacts, NogoodType DEF TypeOK
    <3>3. /\ IsABag(agenda')
          /\ BagToSet(agenda') \subseteq BagToSet(agenda) \cup Child(e, k) \cup Sibling(e)
      BY <3>1, <1>2, <1>3, AgendaUpdateTwo
    <3>4. ElementsTyped(Child(e, k))
      BY <1>3, ChildrenTyped
    <3>5. ElementsTyped(BagToSet(agenda'))
      BY <3>3, <3>4, <1>4 DEF ElementsTyped
    <3>6. UNCHANGED <<candidates, candidatePartition>>
      BY <2>1 DEF next_inconsistent
    <3> QED
      BY <3>1, <3>2, <3>3, <3>5, <3>6 DEF TypeOK
  <2>2. CASE next_consistent_candidate(e)
    <3>1. \E sibling \in Insertions(Sibling(e)) :
            agenda' = (agenda (-) SetToBag({e})) (+) sibling
      BY <2>2 DEF next_consistent_candidate
    <3>2. IsABag(agenda') /\ BagToSet(agenda') \subseteq BagToSet(agenda) \cup Sibling(e)
      BY <3>1, <1>2, <1>3, AgendaUpdate
    <3>3. ElementsTyped(BagToSet(agenda'))
      BY <3>2, <1>4 DEF ElementsTyped
    <3> DEFINE c == generate_candidate(e)
    <3>4. \/ UNCHANGED <<candidates, candidatePartition>>
          \/ /\ candidates' = Append(candidates, c)
             /\ candidatePartition' \in
                  {candidatePartition, addToPartition(candidatePartition, c)}
      BY <2>2 DEF next_consistent_candidate
    <3>5. c \in Candidate
      BY <1>3
    <3> HIDE DEF c
    <3>6. candidates \in Seq(Candidate) /\ candidatePartition \in Seq(Seq(Candidate))
      BY DEF TypeOK
    <3>7. Append(candidates, c) \in Seq(Candidate)
          /\ addToPartition(candidatePartition, c) \in Seq(Seq(Candidate))
      BY <3>5, <3>6, PartitionType
    <3>8. candidates' \in Seq(Candidate) /\ candidatePartition' \in Seq(Seq(Candidate))
      BY <3>4, <3>6, <3>7
    <3>9. UNCHANGED conflicts
      BY <2>2 DEF next_consistent_candidate
    <3> QED
      BY <3>2, <3>3, <3>8, <3>9 DEF TypeOK
  <2> QED
    BY <1>1, <2>1, <2>2
<1>6. candidates_considered' \in Nat
  BY DEF find_consistent_candidates, TypeOK
<1>7. UNCHANGED <<theoryVars, hasTracker, seeds, it, pc>>
  BY DEF find_consistent_candidates
<1>8. \A f \in BagToSet(agenda)' : (f \in Element /\ generate_candidate(f) \in Candidate)
  BY <1>5 DEF ElementsTyped, BagToSet
<1> QED
  BY <1>5, <1>6, <1>7, <1>8, Zenon DEF TypeOK, theoryVars, BagToSet, IsABag

(* Erasing the element at i closes the gap. *)
LEMMA RemoveAtFacts ==
  ASSUME NEW S, NEW s \in Seq(S), NEW i \in 1..Len(s)
  PROVE  /\ RemoveAt(s, i) \in Seq(S)
         /\ Len(RemoveAt(s, i)) = Len(s) - 1
         /\ \A j \in 1..(i - 1) : RemoveAt(s, i)[j] = s[j]
<1> DEFINE front == SubSeq(s, 1, i - 1)
           back == SubSeq(s, i + 1, Len(s))
<1>1. front \in Seq(S) /\ Len(front) = i - 1 /\ \A j \in 1..(i - 1) : front[j] = s[j]
  OBVIOUS
<1>2. back \in Seq(S) /\ Len(back) = Len(s) - i
  OBVIOUS
<1> HIDE DEF front, back
<1>3. /\ front \o back \in Seq(S)
      /\ Len(front \o back) = Len(front) + Len(back)
      /\ \A j \in 1..Len(front) : (front \o back)[j] = front[j]
  <2>1. front \in Seq(S) /\ back \in Seq(S)
    BY <1>1, <1>2
  <2> QED
    BY ONLY <2>1
<1>4. RemoveAt(s, i) = front \o back
  BY DEF RemoveAt, front, back
<1>5. Len(s) \in Nat
  OBVIOUS
<1> QED
  BY <1>1, <1>2, <1>3, <1>4, <1>5, SMTT(30)

LEMMA PruneStepType ==
  ASSUME TypeOK, prune_inconsistent_candidates
  PROVE  TypeOK'
<1>1. it \in 1..Len(candidates)
  BY DEF TypeOK, prune_inconsistent_candidates
<1>2. /\ conflicts' \in SUBSET SUBSET Assignment
      /\ candidates' \in Seq(Candidate)
      /\ it' \in Nat
  <2>1. CASE it' = it + 1 /\ UNCHANGED <<candidates, conflicts>>
    BY <2>1 DEF TypeOK
  <2>2. CASE /\ \E k \in conflict(candidates[it]) : conflicts' = conflicts \cup {k}
             /\ candidates' = RemoveAt(candidates, it)
             /\ UNCHANGED it
    <3>1. PICK k \in conflict(candidates[it]) : conflicts' = conflicts \cup {k}
      BY <2>2
    <3>2. k \in SUBSET Assignment
      BY ConflictFacts, NogoodType DEF TypeOK
    <3>3. RemoveAt(candidates, it) \in Seq(Candidate)
      BY <1>1, RemoveAtFacts DEF TypeOK
    <3> QED
      BY <2>2, <3>1, <3>2, <3>3 DEF TypeOK
  <2> QED
    BY <2>1, <2>2 DEF prune_inconsistent_candidates
<1>3. UNCHANGED <<theoryVars, searchVars, candidatePartition, hasTracker, pc>>
  BY DEF prune_inconsistent_candidates
<1>4. it' > 0
  BY <1>1 DEF prune_inconsistent_candidates
<1> QED
  BY <1>2, <1>3, <1>4, Zenon DEF TypeOK, theoryVars, searchVars, BagToSet, IsABag

(* A call that starts a search. *)
LEMMA StartStepType ==
  ASSUME TypeOK, NEW from \in SUBSET Candidate, StartSearch(from), it' \in Nat,
         UNCHANGED <<theoryVars, hasTracker, conflicts>>
  PROVE  TypeOK'
<1>1. /\ seeds' \in SUBSET Candidate
      /\ IsABag(agenda') /\ ElementsTyped(BagToSet(agenda'))
      /\ candidates_considered' \in Nat
      /\ candidates' \in Seq(Candidate)
      /\ candidatePartition' \in Seq(Seq(Candidate))
      /\ pc' = "search"
  BY StartSearchType
<1>2. pc' \in {"client", "search", "prune", "partition"} /\ pc' \notin {"prune", "partition"}
  BY <1>1
<1>3. \A f \in BagToSet(agenda)' : (f \in Element /\ generate_candidate(f) \in Candidate)
  BY <1>1 DEF ElementsTyped, BagToSet
<1> QED
  BY <1>1, <1>2, <1>3, Zenon DEF TypeOK, theoryVars, BagToSet, IsABag

LEMMA NextType == TypeOK /\ [Next]_vars => TypeOK'
<1> SUFFICES ASSUME TypeOK, [Next]_vars PROVE TypeOK'
  OBVIOUS
<1>1. CASE find_consistent_candidates
  BY <1>1, SearchStepType
<1>2. CASE find_consistent_candidates_return
  <2>1. UNCHANGED <<theoryVars, searchVars, candidates, candidatePartition, conflicts, it>>
        /\ hasTracker' = TRUE /\ pc' = "client"
    BY <1>2 DEF find_consistent_candidates_return
  <2>2. pc' \in {"client", "search", "prune", "partition"} /\ pc' \notin {"prune", "partition"}
    BY <2>1
  <2> QED
    BY <2>1, <2>2, Zenon DEF TypeOK, theoryVars, searchVars, BagToSet, IsABag
<1>3. CASE prune_inconsistent_candidates
  BY <1>3, PruneStepType
<1>4. CASE prune_inconsistent_candidates_return
  <2>1. CASE candidates = <<>>
    <3>1. StartSearch(FreshSeeds) /\ it' = 0 /\ UNCHANGED <<theoryVars, hasTracker, conflicts>>
      BY <1>4, <2>1 DEF prune_inconsistent_candidates_return
    <3> QED
      BY <3>1, FreshSeedsType, StartStepType
  <2>2. CASE candidates # <<>>
    <3>1. /\ it' = 1 /\ pc' = "partition"
          /\ UNCHANGED <<theoryVars, searchVars, conflicts>>
          /\ UNCHANGED <<candidates, candidatePartition, hasTracker>>
      BY <1>4, <2>2 DEF prune_inconsistent_candidates_return
    <3>2. it' \in Nat /\ it' > 0 /\ pc' \in {"client", "search", "prune", "partition"}
      BY <3>1
    <3> QED
      BY <3>1, <3>2, Zenon DEF TypeOK, theoryVars, searchVars, BagToSet, IsABag
  <2> QED
    BY <2>1, <2>2
<1>5. CASE partition
  <2>1. it \in 1..Len(candidates)
    BY <1>5 DEF partition, TypeOK
  <2>2. candidates[it] \in Candidate
    BY <2>1 DEF TypeOK
  <2>3. candidatePartition' \in Seq(Seq(Candidate))
    BY <1>5, <2>2, PartitionType DEF partition, TypeOK
  <2>4. it' \in Nat /\ it' > 0
    BY <1>5 DEF partition, TypeOK
  <2>5. UNCHANGED <<theoryVars, searchVars, candidates, hasTracker, conflicts, pc>>
    BY <1>5 DEF partition
  <2> QED
    BY <2>3, <2>4, <2>5, Zenon DEF TypeOK, theoryVars, searchVars, BagToSet, IsABag
<1>6. CASE prune_and_search_return
  <2>1. UNCHANGED <<theoryVars, searchVars, trackerVars, conflicts>> /\ it' = 0 /\ pc' = "client"
    BY <1>6 DEF prune_and_search_return
  <2>2. /\ it' \in Nat
        /\ pc' \in {"client", "search", "prune", "partition"} /\ pc' \notin {"prune", "partition"}
    BY <2>1
  <2> QED
    BY <2>1, <2>2, Zenon DEF TypeOK, theoryVars, searchVars, trackerVars, BagToSet, IsABag
<1>7. CASE extend_candidates
  <2>1. ToSet(candidates) \in SUBSET Candidate
    BY DEF TypeOK, ToSet
  <2>2. StartSearch(ToSet(candidates)) /\ UNCHANGED <<theoryVars, hasTracker, conflicts, it>>
    BY <1>7 DEF extend_candidates
  <2>3. it' \in Nat
    BY <2>2 DEF TypeOK
  <2> QED
    BY <2>1, <2>2, <2>3, StartStepType
<1>8. CASE find_fresh_candidates
  <2>1. StartSearch(FreshSeeds) /\ UNCHANGED <<theoryVars, hasTracker, conflicts, it>>
    BY <1>8 DEF find_fresh_candidates
  <2>2. it' \in Nat
    BY <2>1 DEF TypeOK
  <2> QED
    BY <2>1, <2>2, FreshSeedsType, StartStepType
<1>9. CASE prune_and_search
  <2>1. /\ it' = 1 /\ pc' = "prune" /\ candidatePartition' = <<>>
        /\ UNCHANGED <<theoryVars, searchVars, candidates, hasTracker, conflicts>>
    BY <1>9 DEF prune_and_search
  <2>2. it' \in Nat /\ it' > 0 /\ pc' \in {"client", "search", "prune", "partition"}
        /\ candidatePartition' \in Seq(Seq(Candidate))
    BY <2>1
  <2> QED
    BY <2>1, <2>2, Zenon DEF TypeOK, theoryVars, searchVars, BagToSet, IsABag
<1>10. CASE \E x \in Observable, v \in Value \cup {NULL} : observe(x, v)
  <2>1. observed' \in [Observable -> Value \cup {NULL}]
    BY <1>10 DEF TypeOK, observe
  <2>2. UNCHANGED <<theory, limits, trackerVars, searchVars, conflicts, it, pc>>
    BY <1>10 DEF observe
  <2> QED
    BY <2>1, <2>2, Zenon DEF TypeOK, trackerVars, searchVars, BagToSet, IsABag
<1>11. CASE UNCHANGED vars
  BY <1>11, Zenon DEF vars, TypeOK, theoryVars, trackerVars, searchVars, BagToSet, IsABag
<1> QED
  BY <1>1, <1>2, <1>3, <1>4, <1>5, <1>6, <1>7, <1>8, <1>9, <1>10, <1>11 DEF Next, Search

(* The variables of the search keep their types; every candidate, tracked or
   on the agenda, names each variable at most once (is_assignment_useful). *)
THEOREM TypeCorrect == Spec => []TypeOK
BY InitType, NextType, PTL DEF Spec

-----------------------------------------------------------------------------
(* The classes of the tracker *)

(* What FlattenSeq makes of the first n of the sequences. *)
Flattens(h, seqs, n) ==
  h = [i \in 1..n |-> IF i = 1 THEN seqs[i] ELSE h[i - 1] \o seqs[i]]

LEMMA FlattensAt ==
  ASSUME NEW h, NEW seqs, NEW n \in Nat, Flattens(h, seqs, n)
  PROVE  \A i \in 1..n : h[i] = IF i = 1 THEN seqs[i] ELSE h[i - 1] \o seqs[i]
BY DEF Flattens

LEMMA FlatteningExists ==
  ASSUME NEW seqs, NEW n \in Nat
  PROVE  \E h : Flattens(h, seqs, n)
<1> DEFINE P == {m \in Nat : \E h : Flattens(h, seqs, m)}
<1>1. 0 \in P
  <2>1. Flattens([i \in 1..0 |-> <<>>], seqs, 0)
    BY DEF Flattens
  <2> QED
    BY <2>1
<1>2. ASSUME NEW m \in Nat, m \in P PROVE m + 1 \in P
  <2>1. PICK h : Flattens(h, seqs, m)
    BY <1>2
  <2> DEFINE last == IF m + 1 = 1 THEN seqs[m + 1] ELSE h[m] \o seqs[m + 1]
             k == [i \in 1..(m + 1) |-> IF i = m + 1 THEN last ELSE h[i]]
             kk == [i \in 1..(m + 1) |-> IF i = 1 THEN seqs[i] ELSE k[i - 1] \o seqs[i]]
  <2>2. \A i \in 1..m : h[i] = IF i = 1 THEN seqs[i] ELSE h[i - 1] \o seqs[i]
    BY <2>1 DEF Flattens
  <2>3. \A i \in 1..(m + 1) : k[i] = IF i = m + 1 THEN last ELSE h[i]
    OBVIOUS
  <2>4. k = [i \in 1..(m + 1) |-> k[i]]
    OBVIOUS
  <2> HIDE DEF k
  <2>5. ASSUME NEW i \in 1..(m + 1)
        PROVE  k[i] = IF i = 1 THEN seqs[i] ELSE k[i - 1] \o seqs[i]
    <3>1. CASE i = m + 1 /\ i = 1
      BY <2>3, <3>1
    <3>2. CASE i = m + 1 /\ i # 1
      <4>1. i - 1 \in 1..m /\ i - 1 = m /\ i - 1 # m + 1
        BY <3>2
      <4>2. m \in 1..(m + 1) /\ m # m + 1
        BY <4>1
      <4>3. k[m] = h[m]
        BY <2>3, <4>2
      <4>4. k[i] = h[m] \o seqs[m + 1] /\ k[i - 1] = h[m] /\ seqs[i] = seqs[m + 1]
        BY <2>3, <3>2, <4>1, <4>3
      <4> QED
        BY <3>2, <4>4
    <3>3. CASE i # m + 1
      <4>1. i \in 1..m /\ (i # 1 => i - 1 \in 1..(m + 1) /\ i - 1 # m + 1)
        BY <3>3
      <4> QED
        BY <2>2, <2>3, <3>3, <4>1
    <3> QED
      BY <3>1, <3>2, <3>3
  <2>6. k = kk
    BY <2>4, <2>5
  <2>7. Flattens(k, seqs, m + 1)
    BY <2>6 DEF Flattens
  <2> QED
    BY <2>7
<1>3. Nat \subseteq P
  <2> HIDE DEF P
  <2> QED
    BY <1>1, <1>2, Induction
<1> QED
  BY <1>3

LEMMA FlattenSeqFlattens ==
  ASSUME NEW seqs, Len(seqs) \in Nat
  PROVE  IF Len(seqs) = 0 THEN FlattenSeq(seqs) = seqs
         ELSE \E h : Flattens(h, seqs, Len(seqs)) /\ FlattenSeq(seqs) = h[Len(seqs)]
<1>1. CASE Len(seqs) = 0
  BY <1>1 DEF FlattenSeq
<1>2. CASE Len(seqs) # 0
  <2> DEFINE flatten == CHOOSE h : h =
               [i \in 1..Len(seqs) |-> IF i = 1 THEN seqs[i] ELSE h[i - 1] \o seqs[i]]
  <2>1. \E h : h = [i \in 1..Len(seqs) |-> IF i = 1 THEN seqs[i] ELSE h[i - 1] \o seqs[i]]
    BY FlatteningExists DEF Flattens
  <2>2. Flattens(flatten, seqs, Len(seqs))
    BY <2>1 DEF Flattens
  <2>3. FlattenSeq(seqs) = flatten[Len(seqs)]
    BY <1>2, Zenon DEF FlattenSeq
  <2> QED
    BY <1>2, <2>2, <2>3
<1> QED
  BY <1>1, <1>2

Members(seqs, n) == UNION {ToSet(seqs[j]) : j \in 1..n}

LEMMA FlatteningMembers ==
  ASSUME NEW S, NEW seqs \in Seq(Seq(S)), NEW h, Flattens(h, seqs, Len(seqs))
  PROVE  \A i \in 1..Len(seqs) :
           h[i] \in Seq(S) /\ ToSet(h[i]) = Members(seqs, i)
<1> DEFINE P == {m \in Nat : m + 1 <= Len(seqs) =>
                   /\ h[m + 1] \in Seq(S)
                   /\ ToSet(h[m + 1]) = Members(seqs, m + 1)}
<1>1. /\ Len(seqs) \in Nat
      /\ \A i \in 1..Len(seqs) : seqs[i] \in Seq(S)
      /\ \A i \in 1..Len(seqs) : h[i] = IF i = 1 THEN seqs[i] ELSE h[i - 1] \o seqs[i]
  <2>1. Len(seqs) \in Nat /\ \A i \in 1..Len(seqs) : seqs[i] \in Seq(S)
    OBVIOUS
  <2> QED
    BY <2>1, FlattensAt
<1>2. 0 \in P
  <2> SUFFICES ASSUME 1 <= Len(seqs)
               PROVE  h[1] \in Seq(S) /\ ToSet(h[1]) = Members(seqs, 1)
    OBVIOUS
  <2>1. h[1] = seqs[1] /\ seqs[1] \in Seq(S)
    BY <1>1
  <2>2. \A j \in 1..1 : j = 1
    OBVIOUS
  <2>3. Members(seqs, 1) = ToSet(seqs[1])
    BY <2>2 DEF Members
  <2> QED
    BY <2>1, <2>3
<1>3. ASSUME NEW m \in Nat, m \in P PROVE m + 1 \in P
  <2> DEFINE n == m + 1
  <2> SUFFICES ASSUME n + 1 <= Len(seqs)
               PROVE  /\ h[n + 1] \in Seq(S)
                      /\ ToSet(h[n + 1]) = Members(seqs, n + 1)
    OBVIOUS
  <2>1. h[n] \in Seq(S) /\ ToSet(h[n]) = Members(seqs, n)
    BY <1>1, <1>3
  <2>2. n \in Nat /\ n + 1 \in 1..Len(seqs) /\ n + 1 # 1 /\ (n + 1) - 1 = n
    BY <1>1
  <2> HIDE DEF n
  <2>3. h[n + 1] = h[n] \o seqs[n + 1] /\ seqs[n + 1] \in Seq(S)
    BY <1>1, <2>2
  <2>4. ToSet(h[n] \o seqs[n + 1]) = ToSet(h[n]) \cup ToSet(seqs[n + 1])
    BY <2>1, <2>3, ConcatMembers
  <2>5. \A j : j \in 1..(n + 1) <=> (j \in 1..n \/ j = n + 1)
    BY <2>2
  <2>6. Members(seqs, n + 1) = Members(seqs, n) \cup ToSet(seqs[n + 1])
    BY <2>5 DEF Members
  <2>7. h[n] \o seqs[n + 1] \in Seq(S)
    BY <2>1, <2>3
  <2> QED
    BY <2>1, <2>3, <2>4, <2>6, <2>7
<1>4. Nat \subseteq P
  <2> HIDE DEF P
  <2> QED
    BY <1>2, <1>3, Induction
<1> SUFFICES ASSUME NEW i \in 1..Len(seqs)
             PROVE  h[i] \in Seq(S) /\ ToSet(h[i]) = Members(seqs, i)
  OBVIOUS
<1>5. i - 1 \in Nat /\ (i - 1) + 1 = i
  BY <1>1
<1>6. i - 1 \in P
  BY <1>4, <1>5
<1> QED
  BY <1>5, <1>6

Exceeds(m, n, yes) == IF yes THEN m = n + 1 ELSE m = n

(* One more element in the k-th sequence is one more from there on. *)
LEMMA FlatteningLengths ==
  ASSUME NEW S, NEW seqs \in Seq(Seq(S)), NEW new \in Seq(Seq(S)),
         NEW h, Flattens(h, seqs, Len(seqs)), NEW g, Flattens(g, new, Len(new)),
         NEW n \in Nat, n <= Len(seqs), n <= Len(new), NEW k \in Nat \ {0},
         \A j \in 1..n : Exceeds(Len(new[j]), Len(seqs[j]), j = k)
  PROVE  \A i \in 1..n : Exceeds(Len(g[i]), Len(h[i]), k <= i)
<1> DEFINE P == {m \in Nat : m + 1 <= n =>
                   Exceeds(Len(g[m + 1]), Len(h[m + 1]), k <= m + 1)}
<1>1. /\ Len(seqs) \in Nat /\ Len(new) \in Nat
      /\ \A i \in 1..n : /\ i \in 1..Len(seqs) /\ i \in 1..Len(new)
                         /\ seqs[i] \in Seq(S) /\ new[i] \in Seq(S)
      /\ \A i \in 1..Len(seqs) : h[i] = IF i = 1 THEN seqs[i] ELSE h[i - 1] \o seqs[i]
      /\ \A i \in 1..Len(new) : g[i] = IF i = 1 THEN new[i] ELSE g[i - 1] \o new[i]
  <2>1. /\ Len(seqs) \in Nat /\ Len(new) \in Nat
        /\ \A i \in 1..Len(seqs) : seqs[i] \in Seq(S)
        /\ \A i \in 1..Len(new) : new[i] \in Seq(S)
    OBVIOUS
  <2>2. \A i \in 1..n : i \in 1..Len(seqs) /\ i \in 1..Len(new)
    BY <2>1
  <2> QED
    BY <2>1, <2>2, FlattensAt, SMTT(30)
<1>2. \A i \in 1..n : h[i] \in Seq(S) /\ g[i] \in Seq(S)
  BY <1>1, FlatteningMembers
<1>3. 0 \in P
  <2> SUFFICES ASSUME 1 <= n PROVE Exceeds(Len(g[1]), Len(h[1]), k <= 1)
    OBVIOUS
  <2>1. 1 \in 1..n /\ h[1] = seqs[1] /\ g[1] = new[1]
    BY <1>1
  <2>2. Exceeds(Len(new[1]), Len(seqs[1]), 1 = k)
    BY <2>1
  <2>3. k <= 1 <=> 1 = k
    OBVIOUS
  <2> QED
    BY <2>1, <2>2, <2>3 DEF Exceeds
<1>4. ASSUME NEW m \in Nat, m \in P PROVE m + 1 \in P
  <2> DEFINE j == m + 1
  <2> SUFFICES ASSUME j + 1 <= n
               PROVE  Exceeds(Len(g[j + 1]), Len(h[j + 1]), k <= j + 1)
    OBVIOUS
  <2>1. Exceeds(Len(g[j]), Len(h[j]), k <= j)
    BY <1>4
  <2>2. j \in Nat /\ j \in 1..n /\ j + 1 \in 1..n /\ j + 1 # 1 /\ (j + 1) - 1 = j
    OBVIOUS
  <2> HIDE DEF j
  <2>3. h[j + 1] = h[j] \o seqs[j + 1] /\ g[j + 1] = g[j] \o new[j + 1]
    BY <1>1, <2>2
  <2>4. /\ h[j] \in Seq(S) /\ g[j] \in Seq(S) /\ seqs[j + 1] \in Seq(S) /\ new[j + 1] \in Seq(S)
    BY <1>1, <1>2, <2>2
  <2>5. /\ Len(h[j + 1]) = Len(h[j]) + Len(seqs[j + 1])
        /\ Len(g[j + 1]) = Len(g[j]) + Len(new[j + 1])
        /\ {Len(h[j]), Len(seqs[j + 1]), Len(g[j]), Len(new[j + 1])} \subseteq Nat
    <3>1. /\ Len(h[j] \o seqs[j + 1]) = Len(h[j]) + Len(seqs[j + 1])
          /\ Len(h[j]) \in Nat /\ Len(seqs[j + 1]) \in Nat
      BY <2>4, SMTT(30)
    <3>2. /\ Len(g[j] \o new[j + 1]) = Len(g[j]) + Len(new[j + 1])
          /\ Len(g[j]) \in Nat /\ Len(new[j + 1]) \in Nat
      BY <2>4, SMTT(30)
    <3> QED
      BY <2>3, <3>1, <3>2
  <2>6. Exceeds(Len(new[j + 1]), Len(seqs[j + 1]), j + 1 = k)
    BY <2>2
  <2> DEFINE a == Len(g[j])
             b == Len(h[j])
             c == Len(new[j + 1])
             d == Len(seqs[j + 1])
  <2>7. /\ {a, b, c, d} \subseteq Nat
        /\ Exceeds(a, b, k <= j) /\ Exceeds(c, d, j + 1 = k)
        /\ Len(h[j + 1]) = b + d /\ Len(g[j + 1]) = a + c
    BY <2>1, <2>5, <2>6
  <2> HIDE DEF a, b, c, d
  <2>8. Exceeds(a + c, b + d, k <= j + 1)
    <3>1. CASE k <= j
      BY <2>2, <2>7, <3>1 DEF Exceeds
    <3>2. CASE k = j + 1
      BY <2>2, <2>7, <3>2 DEF Exceeds
    <3>3. CASE k > j + 1
      BY <2>2, <2>7, <3>3 DEF Exceeds
    <3> QED
      BY <2>2, <3>1, <3>2, <3>3
  <2> QED
    BY <2>7, <2>8
<1>5. Nat \subseteq P
  <2> HIDE DEF P
  <2> QED
    BY <1>3, <1>4, Induction
<1> SUFFICES ASSUME NEW i \in 1..n
             PROVE  Exceeds(Len(g[i]), Len(h[i]), k <= i)
  OBVIOUS
<1>6. i - 1 \in Nat /\ (i - 1) + 1 = i /\ i <= n
  OBVIOUS
<1>7. i - 1 \in P
  BY <1>5, <1>6
<1> QED
  BY <1>6, <1>7

LEMMA FlattenFacts ==
  ASSUME NEW S, NEW seqs \in Seq(Seq(S))
  PROVE  /\ FlattenSeq(seqs) \in Seq(S)
         /\ ToSet(FlattenSeq(seqs)) = UNION {ToSet(seqs[j]) : j \in DOMAIN seqs}
         /\ seqs = <<>> => FlattenSeq(seqs) = <<>>
<1>1. Len(seqs) \in Nat /\ DOMAIN seqs = 1..Len(seqs)
  OBVIOUS
<1>2. CASE Len(seqs) = 0
  <2>1. seqs = <<>> /\ FlattenSeq(seqs) = <<>>
    BY <1>2, FlattenSeqFlattens
  <2>2. <<>> \in Seq(S) /\ ToSet(<<>>) = {} /\ DOMAIN seqs = {}
    BY <2>1 DEF ToSet
  <2> QED
    BY <2>1, <2>2
<1>3. CASE Len(seqs) # 0
  <2>1. PICK h : Flattens(h, seqs, Len(seqs)) /\ FlattenSeq(seqs) = h[Len(seqs)]
    BY <1>1, <1>3, FlattenSeqFlattens
  <2>2. Len(seqs) \in 1..Len(seqs)
    BY <1>1, <1>3
  <2>3. \A i \in 1..Len(seqs) :
          h[i] \in Seq(S) /\ ToSet(h[i]) = Members(seqs, i)
    BY <2>1, FlatteningMembers
  <2>4. seqs # <<>>
    BY <1>3
  <2> QED
    BY <1>1, <2>1, <2>2, <2>3, <2>4 DEF Members
<1> QED
  BY <1>2, <1>3

(* equivalenceClassIndex gives a class there is, or the next. *)
LEMMA ClassIndex ==
  ASSUME NEW classes \in Seq(Seq(Candidate)), NEW c
  PROVE  \/ equivalenceClassIndex(c, classes) \in DOMAIN classes
         \/ equivalenceClassIndex(c, classes) = Len(classes) + 1
<1> DEFINE home == {i \in DOMAIN classes : belongs(c, classes[i])}
<1>1. CASE home = {}
  BY <1>1 DEF equivalenceClassIndex
<1>2. CASE home # {}
  <2>1. home \subseteq Nat /\ home \subseteq DOMAIN classes
    OBVIOUS
  <2>2. equivalenceClassIndex(c, classes) = Min(home)
    BY <1>2 DEF equivalenceClassIndex
  <2> HIDE DEF home
  <2>3. \E m \in home : \A n \in home : m <= n
    BY <1>2, <2>1, LeastNatural
  <2>4. Min(home) \in home
    BY <2>3 DEF Min
  <2> QED
    BY <2>1, <2>2, <2>4
<1> QED
  BY <1>1, <1>2

(* The classes hold the candidates of cs, and each as often as cs does. *)
Hold(classes, cs) ==
  /\ ToSet(FlattenSeq(classes)) = ToSet(cs)
  /\ Len(FlattenSeq(classes)) = Len(cs)

LEMMA EmptyHolds == Hold(<<>>, <<>>)
<1>1. <<>> \in Seq(Seq({}))
  OBVIOUS
<1>2. FlattenSeq(<<>>) = <<>>
  BY <1>1, FlattenFacts
<1> QED
  BY <1>2 DEF Hold

LEMMA AddedToClasses ==
  ASSUME NEW classes \in Seq(Seq(Candidate)), NEW c \in Candidate
  PROVE  /\ ToSet(FlattenSeq(addToPartition(classes, c)))
              = ToSet(FlattenSeq(classes)) \cup {c}
         /\ Len(FlattenSeq(addToPartition(classes, c))) = Len(FlattenSeq(classes)) + 1
<1> DEFINE i == equivalenceClassIndex(c, classes)
           new == addToPartition(classes, c)
<1>1. i \in DOMAIN classes \/ i = Len(classes) + 1
  BY ClassIndex
<1>2. new = IF i <= Len(classes) THEN [classes EXCEPT ![i] = Append(classes[i], c)]
                                 ELSE Append(classes, <<c>>)
  BY DEF addToPartition
<1>3. Len(classes) \in Nat /\ DOMAIN classes = 1..Len(classes)
      /\ \A j \in DOMAIN classes : classes[j] \in Seq(Candidate)
  OBVIOUS
<1>4. new \in Seq(Seq(Candidate))
  BY PartitionType
<1> HIDE DEF i, new
<1>5. CASE i \in DOMAIN classes
  <2>1. /\ new = [classes EXCEPT ![i] = Append(classes[i], c)]
        /\ Len(new) = Len(classes) /\ DOMAIN new = DOMAIN classes
        /\ new[i] = Append(classes[i], c)
        /\ \A j \in DOMAIN classes : j # i => new[j] = classes[j]
    BY <1>2, <1>3, <1>5
  <2>2. ToSet(new[i]) = ToSet(classes[i]) \cup {c} /\ Len(new[i]) = Len(classes[i]) + 1
    BY <1>3, <1>5, <2>1, AppendMembers
  <2>3. UNION {ToSet(new[j]) : j \in DOMAIN new}
          = (UNION {ToSet(classes[j]) : j \in DOMAIN classes}) \cup {c}
    BY <1>5, <2>1, <2>2, ZenonT(60)
  <2>4. \A j \in 1..Len(classes) : Exceeds(Len(new[j]), Len(classes[j]), j = i)
    BY <1>3, <2>1, <2>2 DEF Exceeds
  <2>5. Len(classes) # 0 /\ i \in Nat \ {0} /\ i <= Len(classes)
    BY <1>3, <1>5
  <2>6. PICK h : Flattens(h, classes, Len(classes)) /\ FlattenSeq(classes) = h[Len(classes)]
    BY <1>3, <2>5, FlattenSeqFlattens
  <2>7. PICK g : Flattens(g, new, Len(new)) /\ FlattenSeq(new) = g[Len(classes)]
    BY <1>3, <2>1, <2>5, FlattenSeqFlattens
  <2>8. \A j \in 1..Len(classes) : Exceeds(Len(g[j]), Len(h[j]), i <= j)
    <3>1. Len(classes) <= Len(classes) /\ Len(classes) <= Len(new)
      BY <1>3, <2>1
    <3> QED
      BY <1>3, <1>4, <2>4, <2>5, <2>6, <2>7, <3>1, FlatteningLengths, Zenon
  <2>9. Exceeds(Len(g[Len(classes)]), Len(h[Len(classes)]), i <= Len(classes))
    BY <1>3, <2>5, <2>8
  <2> QED
    BY <1>4, <2>3, <2>5, <2>6, <2>7, <2>9, FlattenFacts DEF new, Exceeds
<1>6. CASE i = Len(classes) + 1
  <2> DEFINE n == Len(classes)
  <2>1. <<c>> \in Seq(Candidate) /\ ToSet(<<c>>) = {c} /\ Len(<<c>>) = 1
    BY DEF ToSet
  <2>2. new = Append(classes, <<c>>)
    BY <1>2, <1>3, <1>6
  <2>3. /\ Len(new) = n + 1 /\ DOMAIN new = DOMAIN classes \cup {n + 1}
        /\ new[n + 1] = <<c>>
        /\ \A j \in DOMAIN classes : new[j] = classes[j]
    BY <1>3, <2>1, <2>2
  <2>4. UNION {ToSet(new[j]) : j \in DOMAIN new}
          = (UNION {ToSet(classes[j]) : j \in DOMAIN classes}) \cup {c}
    BY <2>1, <2>3
  <2>5. PICK g : Flattens(g, new, Len(new)) /\ FlattenSeq(new) = g[n + 1]
    BY <1>3, <2>3, FlattenSeqFlattens
  <2>6. g[n + 1] = IF n + 1 = 1 THEN new[n + 1] ELSE g[n] \o new[n + 1]
    <3>1. n + 1 \in 1..Len(new) /\ Len(new) \in Nat /\ (n + 1) - 1 = n
      BY <1>3, <2>3
    <3>2. \A j \in 1..Len(new) : g[j] = IF j = 1 THEN new[j] ELSE g[j - 1] \o new[j]
      BY <2>5, <3>1, FlattensAt
    <3> QED
      BY <3>1, <3>2
  <2>7. Len(FlattenSeq(new)) = Len(FlattenSeq(classes)) + 1
    <3>1. CASE n = 0
      <4>1. FlattenSeq(classes) = <<>>
        BY <3>1, FlattenSeqFlattens
      <4> QED
        BY <2>1, <2>3, <2>5, <2>6, <3>1, <4>1
    <3>2. CASE n # 0
      <4>1. PICK h : Flattens(h, classes, n) /\ FlattenSeq(classes) = h[n]
        BY <1>3, <3>2, FlattenSeqFlattens
      <4>2. \A j \in 1..n : Exceeds(Len(new[j]), Len(classes[j]), j = n + 1)
        <5>1. \A j \in 1..n : j \in DOMAIN classes /\ new[j] = classes[j] /\ j # n + 1
          <6>1. n \in Nat /\ DOMAIN classes = 1..n
            BY <1>3
          <6>2. \A j \in DOMAIN classes : new[j] = classes[j]
            BY <2>3
          <6> HIDE DEF n
          <6>3. \A j \in 1..n : j # n + 1
            BY <6>1
          <6> QED
            BY <6>1, <6>2, <6>3, Zenon
        <5> QED
          BY <5>1 DEF Exceeds
      <4>3. \A j \in 1..n : Exceeds(Len(g[j]), Len(h[j]), n + 1 <= j)
        <5>1. n \in Nat /\ n <= Len(classes) /\ n <= Len(new) /\ n + 1 \in Nat \ {0}
          BY <1>3, <2>3
        <5> HIDE DEF n
        <5>2. Flattens(h, classes, Len(classes))
          BY <4>1 DEF n
        <5> QED
          BY <1>4, <2>5, <4>2, <5>1, <5>2, FlatteningLengths, Zenon
      <4>4. Len(g[n]) = Len(h[n])
        BY <1>3, <3>2, <4>3 DEF Exceeds
      <4>5. g[n] \in Seq(Candidate)
        <5>1. n \in 1..Len(new)
          BY <1>3, <2>3, <3>2
        <5>2. \A j \in 1..Len(new) : g[j] \in Seq(Candidate)
          BY <1>4, <2>5, FlatteningMembers
        <5> QED
          BY <5>1, <5>2
      <4>6. FlattenSeq(new) = g[n] \o <<c>>
        BY <1>3, <2>3, <2>5, <2>6, <3>2
      <4>7. Len(g[n] \o <<c>>) = Len(g[n]) + 1
        BY <2>1, <4>5
      <4> QED
        BY <4>1, <4>4, <4>6, <4>7
    <3> QED
      BY <3>1, <3>2
  <2> QED
    BY <1>4, <2>4, <2>7, FlattenFacts DEF new
<1> QED
  BY <1>1, <1>5, <1>6

(* What the classes hold at each point of the calls.  The search of the
   constructor, before the T_system knows of the tracker, makes no classes. *)
ClassesHold ==
  /\ ~hasTracker => candidatePartition = <<>> /\ pc = "search"
  /\ hasTracker /\ pc = "search" => Hold(candidatePartition, candidates)
  /\ pc = "client" => candidatePartition = <<>> \/ Hold(candidatePartition, candidates)
  /\ pc = "prune" => candidatePartition = <<>>
  /\ pc = "partition" => /\ it - 1 <= Len(candidates)
                         /\ Hold(candidatePartition, SubSeq(candidates, 1, it - 1))

LEMMA HoldMore ==
  ASSUME NEW classes \in Seq(Seq(Candidate)), NEW cs \in Seq(Candidate), Hold(classes, cs),
         NEW c \in Candidate
  PROVE  Hold(addToPartition(classes, c), Append(cs, c))
<1>1. /\ ToSet(Append(cs, c)) = ToSet(cs) \cup {c}
      /\ Len(Append(cs, c)) = Len(cs) + 1
  BY AppendMembers
<1>2. /\ ToSet(FlattenSeq(addToPartition(classes, c))) = ToSet(FlattenSeq(classes)) \cup {c}
      /\ Len(FlattenSeq(addToPartition(classes, c))) = Len(FlattenSeq(classes)) + 1
  BY AddedToClasses
<1> QED
  BY <1>1, <1>2, Zenon DEF Hold

LEMMA SearchStepHolds ==
  ASSUME TypeOK, ClassesHold, find_consistent_candidates
  PROVE  ClassesHold'
<1>1. PICK e \in Best : next_inconsistent(e) \/ next_consistent_candidate(e)
  BY DEF find_consistent_candidates
<1>2. /\ pc = "search" /\ pc' = "search" /\ hasTracker' = hasTracker
      /\ candidates \in Seq(Candidate) /\ candidatePartition \in Seq(Seq(Candidate))
      /\ generate_candidate(e) \in Candidate
  BY DEF find_consistent_candidates, TypeOK, Best
<1> DEFINE c == generate_candidate(e)
<1>3. \/ UNCHANGED <<candidates, candidatePartition>>
      \/ /\ candidates' = Append(candidates, c)
         /\ candidatePartition' = IF hasTracker THEN addToPartition(candidatePartition, c)
                                  ELSE candidatePartition
  BY <1>1 DEF next_inconsistent, next_consistent_candidate
<1> HIDE DEF c
<1>4. ~hasTracker => candidatePartition' = <<>>
  BY <1>3 DEF ClassesHold
<1>5. hasTracker => Hold(candidatePartition', candidates')
  <2>1. hasTracker => Hold(candidatePartition, candidates)
    BY <1>2 DEF ClassesHold
  <2>2. c \in Candidate
    BY <1>2 DEF c
  <2> QED
    BY <1>2, <1>3, <2>1, <2>2, HoldMore
<1> QED
  BY <1>2, <1>4, <1>5 DEF ClassesHold, Hold

LEMMA PartitionStepHolds ==
  ASSUME TypeOK, ClassesHold, partition
  PROVE  ClassesHold'
<1>1. /\ pc = "partition" /\ pc' = "partition" /\ it \in 1..Len(candidates)
      /\ candidates \in Seq(Candidate) /\ candidatePartition \in Seq(Seq(Candidate))
      /\ hasTracker' = hasTracker /\ candidates' = candidates /\ it' = it + 1
      /\ candidatePartition' = addToPartition(candidatePartition, candidates[it])
  BY DEF partition, TypeOK
<1>2. hasTracker
  BY <1>1 DEF ClassesHold, TypeOK
<1> DEFINE front == SubSeq(candidates, 1, it - 1)
<1>3. Hold(candidatePartition, front)
  BY <1>1 DEF ClassesHold
<1>4. front \in Seq(Candidate) /\ candidates[it] \in Candidate
  BY <1>1
<1>5. SubSeq(candidates, 1, it) = Append(front, candidates[it])
  BY <1>1
<1> HIDE DEF front
<1>6. Hold(candidatePartition', SubSeq(candidates, 1, it))
  BY <1>1, <1>3, <1>4, <1>5, HoldMore
<1>7. it' - 1 = it /\ it <= Len(candidates)
  BY <1>1
<1>8. Hold(candidatePartition', SubSeq(candidates', 1, it' - 1)) /\ it' - 1 <= Len(candidates')
  BY <1>1, <1>6, <1>7
<1> QED
  BY <1>1, <1>2, <1>8 DEF ClassesHold, Hold

LEMMA NextHolds ==
  ASSUME TypeOK, ClassesHold, [Next]_vars
  PROVE  ClassesHold'
<1>0. /\ candidates \in Seq(Candidate) /\ Len(candidates) \in Nat
      /\ pc \in {"client", "search", "prune", "partition"} /\ hasTracker \in BOOLEAN
      /\ it \in Nat
  BY DEF TypeOK
<1>1. CASE find_consistent_candidates
  BY <1>1, SearchStepHolds
<1>2. CASE partition
  BY <1>2, PartitionStepHolds
<1>3. ASSUME NEW from, StartSearch(from), pc # "search", hasTracker' = hasTracker
      PROVE  ClassesHold'
  <2>1. candidates' = <<>> /\ candidatePartition' = <<>> /\ pc' = "search" /\ hasTracker'
    BY <1>0, <1>3 DEF StartSearch, ClassesHold
  <2> QED
    BY <2>1, EmptyHolds DEF ClassesHold, Hold
<1>4. CASE extend_candidates \/ find_fresh_candidates
  BY <1>3, <1>4 DEF extend_candidates, find_fresh_candidates
<1>5. CASE prune_inconsistent_candidates_return
  <2>1. CASE candidates = <<>>
    BY <1>3, <1>5, <2>1 DEF prune_inconsistent_candidates_return
  <2>2. CASE candidates # <<>>
    <3>1. /\ it' = 1 /\ pc' = "partition" /\ pc = "prune"
          /\ hasTracker' = hasTracker /\ candidates' = candidates
          /\ candidatePartition' = candidatePartition
      BY <1>5, <2>2 DEF prune_inconsistent_candidates_return
    <3>2. candidatePartition = <<>> /\ hasTracker
      BY <1>0, <3>1 DEF ClassesHold
    <3>3. SubSeq(candidates, 1, 1 - 1) = <<>> /\ it' - 1 = 0 /\ it' - 1 <= Len(candidates')
      BY <1>0, <3>1
    <3>4. Hold(candidatePartition', SubSeq(candidates', 1, it' - 1))
      BY <3>1, <3>2, <3>3, EmptyHolds
    <3> QED
      BY <3>1, <3>2, <3>3, <3>4 DEF ClassesHold, Hold
  <2> QED
    BY <2>1, <2>2
<1>6. CASE prune_and_search_return
  <2>1. /\ pc = "partition" /\ pc' = "client" /\ it > Len(candidates)
        /\ UNCHANGED <<hasTracker, candidates, candidatePartition>>
    BY <1>6 DEF prune_and_search_return, trackerVars
  <2>2. it - 1 = Len(candidates) /\ hasTracker
    BY <1>0, <2>1 DEF ClassesHold
  <2>3. SubSeq(candidates, 1, it - 1) = candidates
    BY <1>0, <2>2
  <2>4. Hold(candidatePartition, candidates)
    BY <2>1, <2>3 DEF ClassesHold
  <2> QED
    BY <2>1, <2>2, <2>4 DEF ClassesHold, Hold
<1>7. CASE find_consistent_candidates_return
  <2>1. /\ pc = "search" /\ pc' = "client" /\ hasTracker'
        /\ UNCHANGED <<candidates, candidatePartition>>
    BY <1>7 DEF find_consistent_candidates_return, SearchEnds
  <2>2. candidatePartition = <<>> \/ Hold(candidatePartition, candidates)
    BY <1>0, <2>1 DEF ClassesHold
  <2> QED
    BY <2>1, <2>2 DEF ClassesHold, Hold
<1>8. CASE prune_and_search \/ prune_inconsistent_candidates
  <2>1. pc' = "prune" /\ candidatePartition' = <<>> /\ hasTracker'
    BY <1>0, <1>8 DEF prune_and_search, prune_inconsistent_candidates, ClassesHold
  <2> QED
    BY <2>1 DEF ClassesHold
<1>9. CASE UNCHANGED <<hasTracker, candidates, candidatePartition, pc, it>>
  BY <1>9 DEF ClassesHold, Hold
<1>10. CASE \E x \in Observable, v \in Value \cup {NULL} : observe(x, v)
  BY <1>9, <1>10 DEF observe, trackerVars
<1>11. CASE UNCHANGED vars
  BY <1>9, <1>11 DEF vars, trackerVars
<1> QED
  BY <1>1, <1>2, <1>4, <1>5, <1>6, <1>7, <1>8, <1>10, <1>11 DEF Next, Search

(* Tracker::partition and find_consistent_candidates: once the tracker is known,
   its classes hold each candidate as often as the tracker has it, and nothing
   else, be they made anew after a pruning or grown with a search. *)
THEOREM PartitionAlwaysCovers == Spec => []PartitionCovers
<1>1. Init => ClassesHold
  BY DEF Init, ClassesHold
<1>2. TypeOK /\ ClassesHold /\ [Next]_vars => ClassesHold'
  BY NextHolds
<1>3. ClassesHold => PartitionCovers
  BY DEF ClassesHold, PartitionCovers, Hold
<1> QED
  BY <1>1, <1>2, <1>3, TypeCorrect, PTL DEF Spec

-----------------------------------------------------------------------------
(* The inductive invariant *)

(* Every recorded conflict contains a nogood that is in force. *)
ConflictsHold == \A k \in conflicts : \E n \in Nogoods : n \subseteq k

(* Candidate c is among those that e stands for. *)
Covers(e, c) ==
  /\ e.prefix \subseteq c
  /\ \/ e.current = NULL
     \/ e.current \in c
     \/ \E a \in UsefulAssignments(e.prefix, e.remaining) : a \in c

(* Every explanation is found or still to be found. *)
NoneLost ==
  pc = "search" =>
    \A c \in Explanation :
      superset_candidate(c, candidates) \/ \E e \in BagToSet(agenda) : Covers(e, c)

(* The search only extends what it began with. *)
Seeded ==
  pc = "search" => \A e \in BagToSet(agenda) : \E s \in seeds : s \subseteq e.prefix

(* The candidates that the loop of prune_inconsistent_candidates has passed. *)
KeptSoFar ==
  pc = "prune" =>
    \A i \in 1..(it - 1) : i \in DOMAIN candidates /\ NotRuledOut(candidates[i])

-----------------------------------------------------------------------------
(* Candidates *)

LEMMA ConsistentMeansNotRuledOut ==
  ASSUME theory \in SUBSET Constraint, NEW c, IsConsistent(c)
  PROVE  NotRuledOut(c)
<1> SUFFICES ASSUME NEW n \in Nogoods PROVE \E a \in n : ~Holds(a, c)
  BY DEF NotRuledOut
<1>1. PICK a \in n : a \notin install(c)
  BY DEF IsConsistent, LastConflicts
<1>2. a \in Assignment
  BY NogoodType
<1>3. variable[a] \in Assumption
  BY <1>2, AssignmentAssumption
<1>4. ~Holds(a, c)
  BY <1>1, <1>3 DEF Holds, install
<1> QED
  BY <1>4

(* An explanation that contains candidate g resolves every conflict of g by an
   assignment that expand_element follows. *)
LEMMA ConflictIsResolved ==
  ASSUME theory \in SUBSET Constraint, ConflictsHold,
         NEW g, NEW k \in conflict(g),
         NEW c \in Candidate, NotRuledOut(c), g \subseteq c
  PROVE  \E b \in c : b \in UsefulAssignments(g, resolving_assignments(k))
<1>1. k \subseteq install(g) /\ k \in conflicts \cup Nogoods
  BY ConflictFacts
<1>2. PICK n \in Nogoods : n \subseteq k
  BY <1>1 DEF ConflictsHold
<1>3. PICK a \in n : ~Holds(a, c)
  BY DEF NotRuledOut
<1>4. a \in Assignment /\ a \in k /\ a \in install(g)
  BY <1>1, <1>2, NogoodType
<1>5. a \notin g
  BY <1>3 DEF Holds, Variables
<1>6. PICK v \in Assumption \ Variables(g) : a = default[v]
  BY <1>4, <1>5 DEF install
<1>7. variable[a] = v
  BY <1>6, AssignmentAssumption
<1>8. v \in Variables(c) /\ a \notin c
  BY <1>3, <1>6, <1>7 DEF Holds
<1>9. PICK b \in c : variable[b] = v
  BY <1>8 DEF Variables
<1>10. b \in Assignment /\ b # a
  BY <1>8, <1>9 DEF Candidate
<1>11. b \notin g
  BY <1>6, <1>9 DEF Variables
<1>12. b \notin k
  <2> SUFFICES ASSUME b \in k PROVE FALSE
    OBVIOUS
  <2>1. PICK u \in Assumption : b = default[u]
    BY <1>1, <1>11 DEF install
  <2>2. u = v
    BY <2>1, <1>9, AssignmentAssumption
  <2> QED
    BY <2>1, <2>2, <1>6, <1>10
<1>13. b \in resolving_assignments(k)
  BY <1>4, <1>7, <1>9, <1>10, <1>12 DEF resolving_assignments
<1>14. is_assignment_useful(b, g)
  BY <1>6, <1>9, <1>10, <1>11 DEF is_assignment_useful
<1> QED
  BY <1>13, <1>14 DEF UsefulAssignments

(* The element for a list covers whoever takes one of its useful assignments. *)
LEMMA NextElementsCover ==
  ASSUME NEW prefix \in Candidate, NEW list \in SUBSET Assignment,
         NEW c, prefix \subseteq c,
         NEW b \in UsefulAssignments(prefix, list), b \in c,
         NEW x \in NextElements(prefix, list)
  PROVE  Covers(x, c)
<1>1. x.prefix = prefix /\ x.remaining = list \ {x.current}
  BY NextElementsType
<1>2. b = x.current \/ b \in UsefulAssignments(prefix, x.remaining)
  BY <1>1 DEF UsefulAssignments
<1> QED
  BY <1>1, <1>2 DEF Covers

LEMMA PartOfSuperset ==
  ASSUME NEW g, NEW c, g \subseteq c, NEW found, superset_candidate(g, found)
  PROVE  superset_candidate(c, found)
<1>1. StateAssignments(g) \subseteq StateAssignments(c)
  BY DEF StateAssignments
<1> QED
  BY <1>1, Zenon DEF superset_candidate, supersetWithState

LEMMA AppendKeepsSupersets ==
  ASSUME NEW found \in Seq(Candidate), NEW g \in Candidate, NEW c
  PROVE  /\ superset_candidate(c, found) => superset_candidate(c, Append(found, g))
         /\ g \subseteq c => superset_candidate(c, Append(found, g))
<1> DEFINE longer == Append(found, g)
<1>1. /\ DOMAIN longer = 1..(Len(found) + 1)
      /\ \A i \in DOMAIN found : i \in DOMAIN longer /\ longer[i] = found[i]
      /\ Len(found) + 1 \in DOMAIN longer /\ longer[Len(found) + 1] = g
  OBVIOUS
<1> HIDE DEF longer
<1>2. superset_candidate(c, found) => superset_candidate(c, longer)
  BY <1>1 DEF superset_candidate
<1>3. g \subseteq c => supersetWithState(c, g)
  BY DEF supersetWithState
<1>4. g \subseteq c => superset_candidate(c, longer)
  BY <1>1, <1>3 DEF superset_candidate
<1> QED
  BY <1>2, <1>4 DEF longer

LEMMA SameExplanations ==
  ASSUME UNCHANGED <<theory, observed, seeds>>
  PROVE  Nogoods' = Nogoods /\ Explanation' = Explanation
BY DEF Nogoods, Explanation, NotRuledOut

-----------------------------------------------------------------------------
(* The steps of the search *)

(* One turn of the loop loses no explanation. *)
LEMMA SearchStepLosesNone ==
  ASSUME TypeOK, ConflictsHold, NoneLost, find_consistent_candidates
  PROVE  NoneLost'
<1>1. PICK e \in Best : next_inconsistent(e) \/ next_consistent_candidate(e)
  BY DEF find_consistent_candidates
<1>2. e \in BagToSet(agenda)
  BY DEF Best
<1>3. e \in Element /\ generate_candidate(e) \in Candidate /\ IsABag(agenda)
  BY <1>2 DEF TypeOK
<1>4. pc = "search" /\ UNCHANGED <<theory, observed, seeds>>
  BY DEF find_consistent_candidates, theoryVars
<1>5. Explanation' = Explanation
  BY <1>4, SameExplanations
<1> SUFFICES ASSUME NEW c \in Explanation
             PROVE  superset_candidate(c, candidates') \/ \E f \in BagToSet(agenda') : Covers(f, c)
  BY <1>5, Zenon DEF NoneLost, superset_candidate, supersetWithState, StateAssignments,
       Covers, UsefulAssignments, is_assignment_useful, Variables, BagToSet
<1>6. c \in Candidate /\ NotRuledOut(c)
  BY DEF Explanation
<1>7. candidates \in Seq(Candidate) /\ theory \in SUBSET Constraint
  BY DEF TypeOK
<1> DEFINE g == generate_candidate(e)
<1>8. candidates' = candidates \/ candidates' = Append(candidates, g)
  BY <1>1 DEF next_inconsistent, next_consistent_candidate
<1>9. CASE superset_candidate(c, candidates)
  BY <1>3, <1>7, <1>8, <1>9, AppendKeepsSupersets
<1>10. CASE \E f \in BagToSet(agenda) : Covers(f, c)
  <2>1. PICK f \in BagToSet(agenda) : Covers(f, c)
    BY <1>10
  <2>2. e.prefix \in Candidate /\ e.remaining \in SUBSET Assignment
    BY <1>3, PrefixIsCandidate DEF Element
  <2>3. \/ f # e
        \/ g \subseteq c
        \/ e.prefix \subseteq c /\ \E a \in UsefulAssignments(e.prefix, e.remaining) : a \in c
    BY <2>1 DEF Covers, generate_candidate
  <2>4. ASSUME e.prefix \subseteq c, NEW a \in UsefulAssignments(e.prefix, e.remaining), a \in c
        PROVE  Sibling(e) # {} /\ \A x \in Sibling(e) : Covers(x, c)
    BY <2>2, <2>4, NextElementsExist, NextElementsCover DEF Sibling
  <2>5. CASE next_inconsistent(e)
    <3>1. PICK k \in conflict(g) :
            \E child \in Insertions(Child(e, k)), sibling \in Insertions(Sibling(e)) :
              agenda' = ((agenda (-) SetToBag({e})) (+) child) (+) sibling
      BY <2>5 DEF next_inconsistent
    <3>2. /\ \A x \in BagToSet(agenda) : x # e => x \in BagToSet(agenda')
          /\ Child(e, k) # {} => \E x \in Child(e, k) : x \in BagToSet(agenda')
          /\ Sibling(e) # {} => \E x \in Sibling(e) : x \in BagToSet(agenda')
      BY <3>1, <1>2, <1>3, AgendaUpdateTwo
    <3>3. CASE g \subseteq c
      <4>1. PICK b \in c : b \in UsefulAssignments(g, resolving_assignments(k))
        BY <1>6, <1>7, <3>3, ConflictIsResolved
      <4>2. g \in Candidate /\ resolving_assignments(k) \in SUBSET Assignment
        BY <1>3 DEF resolving_assignments
      <4> HIDE DEF g
      <4>3. NextElements(g, resolving_assignments(k)) # {}
        BY <4>1, <4>2, NextElementsExist
      <4>4. \A x \in NextElements(g, resolving_assignments(k)) : Covers(x, c)
        BY <4>1, <4>2, <3>3, NextElementsCover
      <4> QED
        BY <4>3, <4>4, <3>2 DEF Child, g
    <3> QED
      BY <2>1, <2>3, <2>4, <3>2, <3>3
  <2>6. CASE next_consistent_candidate(e)
    <3>1. \E sibling \in Insertions(Sibling(e)) :
            agenda' = (agenda (-) SetToBag({e})) (+) sibling
      BY <2>6 DEF next_consistent_candidate
    <3>2. /\ \A x \in BagToSet(agenda) : x # e => x \in BagToSet(agenda')
          /\ Sibling(e) # {} => \E x \in Sibling(e) : x \in BagToSet(agenda')
      BY <3>1, <1>2, <1>3, AgendaUpdate
    <3>3. superset_candidate(g, candidates) \/ candidates' = Append(candidates, g)
      BY <2>6 DEF next_consistent_candidate
    <3>4. superset_candidate(g, candidates) => candidates' = candidates
      BY <2>6 DEF next_consistent_candidate
    <3>5. CASE g \subseteq c
      BY <1>3, <1>7, <3>3, <3>4, <3>5, PartOfSuperset, AppendKeepsSupersets
    <3> QED
      BY <2>1, <2>3, <2>4, <3>2, <3>5
  <2> QED
    BY <1>1, <2>5, <2>6
<1> QED
  BY <1>4, <1>9, <1>10 DEF NoneLost

LEMMA StartLosesNone ==
  ASSUME NEW from, StartSearch(from)
  PROVE  NoneLost' /\ Seeded' /\ FoundAreExplanations'
<1> DEFINE start == IF from = {} THEN {{}} ELSE from
<1>1. /\ seeds' = start
      /\ agenda' = SetToBag({seed(s) : s \in start})
      /\ candidates' = <<>>
  BY DEF StartSearch
<1> HIDE DEF start
<1>2. BagToSet(agenda') = {seed(s) : s \in start}
  BY <1>1, BagOfSet
<1>3. BagToSet(agenda)' = {seed(s) : s \in seeds'}
  BY <1>1, <1>2 DEF BagToSet
<1>4. NoneLost'
  <2> SUFFICES ASSUME NEW c \in Explanation'
               PROVE  \E f \in BagToSet(agenda)' : Covers(f, c)
    BY Zenon DEF NoneLost, Covers, UsefulAssignments, is_assignment_useful, Variables
  <2>1. PICK s \in seeds' : s \subseteq c
    BY DEF Explanation
  <2>2. seed(s) \in BagToSet(agenda)' /\ Covers(seed(s), c)
    BY <2>1, <1>3 DEF Covers, seed
  <2> QED
    BY <2>2
<1>5. Seeded'
  BY <1>3 DEF Seeded, seed
<1>6. FoundAreExplanations'
  BY <1>1 DEF FoundAreExplanations
<1> QED
  BY <1>4, <1>5, <1>6

LEMMA InitLosesNone == Init => ConflictsHold /\ NoneLost /\ Seeded /\ FoundAreExplanations
<1> SUFFICES ASSUME Init PROVE ConflictsHold /\ NoneLost /\ Seeded /\ FoundAreExplanations
  OBVIOUS
<1>1. BagToSet(agenda) = {seed({})} /\ seeds = {{}}
  BY BagOfSet DEF Init
<1>2. NoneLost
  BY <1>1 DEF NoneLost, Covers, seed
<1>3. Seeded
  BY <1>1 DEF Seeded, seed
<1>4. ConflictsHold /\ FoundAreExplanations
  BY DEF Init, ConflictsHold, FoundAreExplanations
<1> QED
  BY <1>2, <1>3, <1>4

(* One turn of the loop extends what it began with, and what it finds is
   consistent. *)
LEMMA SearchStepFinds ==
  ASSUME TypeOK, Seeded, FoundAreExplanations, find_consistent_candidates
  PROVE  Seeded' /\ FoundAreExplanations'
<1>1. PICK e \in Best : next_inconsistent(e) \/ next_consistent_candidate(e)
  BY DEF find_consistent_candidates
<1>2. e \in BagToSet(agenda)
  BY DEF Best
<1>3. e \in Element /\ generate_candidate(e) \in Candidate /\ IsABag(agenda)
  BY <1>2 DEF TypeOK
<1>4. pc = "search" /\ UNCHANGED <<theory, observed, seeds>>
  BY DEF find_consistent_candidates, theoryVars
<1>5. Explanation' = Explanation
  BY <1>4, SameExplanations
<1>6. e.prefix \in Candidate /\ e.remaining \in SUBSET Assignment
  BY <1>3, PrefixIsCandidate DEF Element
<1> DEFINE g == generate_candidate(e)
<1>7. PICK s \in seeds : s \subseteq e.prefix
  BY <1>2, <1>4 DEF Seeded
<1>8. s \subseteq g
  BY <1>7 DEF generate_candidate
<1>9. \A x \in Sibling(e) : s \subseteq x.prefix
  BY <1>6, <1>7, NextElementsType DEF Sibling
<1>10. ASSUME NEW k PROVE \A x \in Child(e, k) : s \subseteq x.prefix
  <2>1. resolving_assignments(k) \in SUBSET Assignment
    BY DEF resolving_assignments
  <2> QED
    BY <2>1, <1>3, <1>8, NextElementsType DEF Child
<1>11. \A x \in BagToSet(agenda') : \E r \in seeds : r \subseteq x.prefix
  <2>1. CASE next_inconsistent(e)
    <3>1. PICK k \in conflict(g) :
            \E child \in Insertions(Child(e, k)), sibling \in Insertions(Sibling(e)) :
              agenda' = ((agenda (-) SetToBag({e})) (+) child) (+) sibling
      BY <2>1 DEF next_inconsistent
    <3>2. BagToSet(agenda') \subseteq BagToSet(agenda) \cup Child(e, k) \cup Sibling(e)
      BY <3>1, <1>2, <1>3, AgendaUpdateTwo
    <3> QED
      BY <3>2, <1>4, <1>9, <1>10 DEF Seeded
  <2>2. CASE next_consistent_candidate(e)
    <3>1. BagToSet(agenda') \subseteq BagToSet(agenda) \cup Sibling(e)
      BY <2>2, <1>2, <1>3, AgendaUpdate DEF next_consistent_candidate
    <3> QED
      BY <3>1, <1>4, <1>9 DEF Seeded
  <2> QED
    BY <1>1, <2>1, <2>2
<1>12. Seeded'
  BY <1>4, <1>11 DEF Seeded, BagToSet
<1>13. \/ candidates' = candidates
       \/ candidates' = Append(candidates, g) /\ IsConsistent(g)
  BY <1>1 DEF next_inconsistent, next_consistent_candidate
<1>14. IsConsistent(g) => g \in Explanation
  BY <1>3, <1>8, ConsistentMeansNotRuledOut DEF Explanation, TypeOK
<1>15. candidates \in Seq(Candidate) /\ \A i \in DOMAIN candidates : candidates[i] \in Explanation
  BY <1>4 DEF TypeOK, FoundAreExplanations
<1>16. \A i \in DOMAIN candidates' : candidates'[i] \in Explanation
  BY <1>3, <1>13, <1>14, <1>15
<1>17. FoundAreExplanations'
  BY <1>5, <1>16 DEF FoundAreExplanations
<1> QED
  BY <1>12, <1>17

-----------------------------------------------------------------------------
(* Recorded conflicts *)

(* What was ruled out stays ruled out while observations are only added. *)
LEMMA NogoodsStay ==
  ASSUME TypeOK, ReviseObservations = FALSE,
         NEW x \in Observable, NEW v, observe(x, v)
  PROVE  Nogoods \subseteq Nogoods'
<1>1. observed[x] = NULL /\ observed' = [observed EXCEPT ![x] = v] /\ theory' = theory
  BY DEF observe
<1> SUFFICES ASSUME NEW n \in Nogoods PROVE n \in Nogoods'
  OBVIOUS
<1>2. PICK k \in theory : n = k.nogood /\ \A o \in k.given : observed[o[1]] = o[2]
  BY DEF Nogoods
<1>3. k.given \subseteq Observable \X Value
  BY DEF TypeOK, Constraint
<1>4. \A o \in k.given : observed'[o[1]] = o[2]
  <2> SUFFICES ASSUME NEW o \in k.given PROVE observed'[o[1]] = o[2]
    OBVIOUS
  <2>1. o[1] \in Observable /\ o[2] \in Value /\ observed[o[1]] = o[2]
    BY <1>2, <1>3
  <2>2. o[1] # x
    BY <2>1, <1>1, AssignmentAssumption
  <2> QED
    BY <2>1, <2>2, <1>1 DEF TypeOK
<1> QED
  BY <1>1, <1>2, <1>4 DEF Nogoods

LEMMA ConflictsStay ==
  ASSUME ConflictsHold, Nogoods' = Nogoods,
         conflicts' = conflicts \/ \E c : \E k \in conflict(c) : conflicts' = conflicts \cup {k}
  PROVE  ConflictsHold'
<1>1. \A k \in conflicts' : k \in conflicts \cup Nogoods
  BY ConflictFacts
<1> QED
  BY <1>1 DEF ConflictsHold

LEMMA NextConflicts ==
  ASSUME TypeOK, ReviseObservations = FALSE, ConflictsHold, [Next]_vars
  PROVE  ConflictsHold'
<1>1. CASE find_consistent_candidates \/ prune_inconsistent_candidates
  <2>1. conflicts' = conflicts \/ \E c : \E k \in conflict(c) : conflicts' = conflicts \cup {k}
    BY <1>1 DEF find_consistent_candidates, next_inconsistent, next_consistent_candidate,
                prune_inconsistent_candidates
  <2>2. Nogoods' = Nogoods
    BY <1>1 DEF find_consistent_candidates, prune_inconsistent_candidates, theoryVars, Nogoods
  <2> QED
    BY <2>1, <2>2, ConflictsStay
<1>2. CASE \E x \in Observable, v \in Value \cup {NULL} : observe(x, v)
  <2>1. Nogoods \subseteq Nogoods' /\ conflicts' = conflicts
    BY <1>2, NogoodsStay DEF observe
  <2> QED
    BY <2>1 DEF ConflictsHold
<1>3. CASE UNCHANGED <<theoryVars, conflicts>>
  <2>1. Nogoods' = Nogoods /\ conflicts' = conflicts
    BY <1>3 DEF theoryVars, Nogoods
  <2> QED
    BY <2>1 DEF ConflictsHold
<1> QED
  BY <1>1, <1>2, <1>3 DEF Next, Search, find_consistent_candidates_return,
     prune_inconsistent_candidates_return, partition, prune_and_search_return,
     extend_candidates, find_fresh_candidates, prune_and_search, vars

-----------------------------------------------------------------------------
(* The other steps *)

(* Every step but one turn of the loop starts a search or is outside one. *)
LEMMA OtherSteps ==
  ASSUME [Next]_vars, ~find_consistent_candidates
  PROVE  \/ \E from : StartSearch(from)
         \/ pc' # "search"
         \/ UNCHANGED <<theory, observed, seeds, candidates, agenda, pc>>
BY DEF Next, Search, find_consistent_candidates_return, prune_inconsistent_candidates,
   prune_inconsistent_candidates_return, partition, prune_and_search_return,
   extend_candidates, find_fresh_candidates, prune_and_search, observe, vars, theoryVars,
   trackerVars, searchVars

LEMMA NextFinds ==
  ASSUME TypeOK, Seeded, FoundAreExplanations, [Next]_vars
  PROVE  Seeded' /\ FoundAreExplanations'
<1>1. CASE find_consistent_candidates
  BY <1>1, SearchStepFinds
<1>2. CASE \E from : StartSearch(from)
  BY <1>2, StartLosesNone
<1>3. CASE pc' # "search"
  BY <1>3 DEF Seeded, FoundAreExplanations
<1>4. CASE UNCHANGED <<theory, observed, seeds, candidates, agenda, pc>>
  <2>1. Explanation' = Explanation
    BY <1>4, SameExplanations
  <2>2. BagToSet(agenda)' = BagToSet(agenda)
    BY <1>4 DEF BagToSet
  <2> QED
    BY <1>4, <2>1, <2>2 DEF Seeded, FoundAreExplanations
<1> QED
  BY <1>1, <1>2, <1>3, <1>4, OtherSteps

LEMMA NextLosesNone ==
  ASSUME TypeOK, ConflictsHold, NoneLost, [Next]_vars
  PROVE  NoneLost'
<1>1. CASE find_consistent_candidates
  BY <1>1, SearchStepLosesNone
<1>2. CASE \E from : StartSearch(from)
  BY <1>2, StartLosesNone
<1>3. CASE pc' # "search"
  BY <1>3 DEF NoneLost
<1>4. CASE UNCHANGED <<theory, observed, seeds, candidates, agenda, pc>>
  <2>1. Explanation' = Explanation
    BY <1>4, SameExplanations
  <2>2. BagToSet(agenda)' = BagToSet(agenda)
    BY <1>4 DEF BagToSet
  <2> QED
    BY <1>4, <2>1, <2>2 DEF NoneLost, superset_candidate, supersetWithState, StateAssignments,
       Covers, UsefulAssignments, is_assignment_useful, Variables
<1> QED
  BY <1>1, <1>2, <1>3, <1>4, OtherSteps

-----------------------------------------------------------------------------
(* Pruning *)

LEMMA PruneStepKeeps ==
  ASSUME TypeOK, KeptSoFar, prune_inconsistent_candidates
  PROVE  KeptSoFar'
<1>1. pc = "prune" /\ it \in 1..Len(candidates) /\ candidates \in Seq(Candidate)
  BY DEF TypeOK, prune_inconsistent_candidates
<1>2. Nogoods' = Nogoods
  BY DEF prune_inconsistent_candidates, theoryVars, Nogoods
<1>3. \A i \in 1..(it - 1) : i \in DOMAIN candidates /\ NotRuledOut(candidates[i])
  BY <1>1 DEF KeptSoFar
<1>4. \A i \in 1..(it' - 1) : i \in DOMAIN candidates' /\ NotRuledOut(candidates'[i])
  <2>1. CASE IsConsistent(candidates[it]) /\ it' = it + 1 /\ UNCHANGED candidates
    <3>1. NotRuledOut(candidates[it])
      BY <2>1, ConsistentMeansNotRuledOut DEF TypeOK
    <3> QED
      BY <1>1, <1>3, <2>1, <3>1
  <2>2. CASE candidates' = RemoveAt(candidates, it) /\ UNCHANGED it
    <3>1. /\ RemoveAt(candidates, it) \in Seq(Candidate)
          /\ Len(RemoveAt(candidates, it)) = Len(candidates) - 1
          /\ \A j \in 1..(it - 1) : RemoveAt(candidates, it)[j] = candidates[j]
      BY <1>1, RemoveAtFacts
    <3> QED
      BY <1>1, <1>3, <2>2, <3>1
  <2> QED
    BY <2>1, <2>2 DEF prune_inconsistent_candidates
<1>5. \A i \in 1..(it' - 1) : NotRuledOut(candidates[i])'
  BY <1>2, <1>4 DEF NotRuledOut, Holds, Variables
<1> QED
  BY <1>4, <1>5 DEF KeptSoFar

LEMMA NextKeeps ==
  ASSUME TypeOK, KeptSoFar, [Next]_vars
  PROVE  KeptSoFar'
<1>1. CASE prune_inconsistent_candidates
  BY <1>1, PruneStepKeeps
<1>2. CASE prune_and_search
  BY <1>2 DEF prune_and_search, KeptSoFar
<1>3. CASE pc' # "prune"
  BY <1>3 DEF KeptSoFar
<1>4. CASE UNCHANGED <<theoryVars, candidates, it, pc>>
  BY <1>4 DEF KeptSoFar, theoryVars, NotRuledOut, Nogoods
<1>5. prune_inconsistent_candidates \/ prune_and_search \/ pc' # "prune"
      \/ UNCHANGED <<theoryVars, candidates, it, pc>>
  BY DEF Next, Search, find_consistent_candidates, find_consistent_candidates_return,
     prune_inconsistent_candidates_return, StartSearch, partition, prune_and_search_return,
     extend_candidates, find_fresh_candidates, observe, vars, theoryVars, trackerVars
<1> QED
  BY <1>1, <1>2, <1>3, <1>4, <1>5

-----------------------------------------------------------------------------

(* find_consistent_candidates returns explanations only: candidates that extend
   one it began with and that no nogood in force rules out, also when
   observations were revised and stale conflicts misled it. *)
THEOREM FoundAlwaysExplanations == Spec => []FoundAreExplanations
<1>1. Init => Seeded /\ FoundAreExplanations
  BY InitLosesNone
<1>2. TypeOK /\ Seeded /\ FoundAreExplanations /\ [Next]_vars
        => Seeded' /\ FoundAreExplanations'
  BY NextFinds
<1> QED
  BY <1>1, <1>2, TypeCorrect, PTL DEF Spec

(* While observations are not revised, a search that runs its agenda empty
   ("exhaustive search") has found a part of every explanation, although
   expand_element follows the resolutions of one conflict at a time and
   add_conflict answers with recorded conflicts. *)
THEOREM ExhaustiveSearchComplete ==
  ASSUME ReviseObservations = FALSE
  PROVE  Spec => []ExhaustiveMeansComplete
<1>1. Init => ConflictsHold /\ NoneLost
  BY InitLosesNone
<1>2. TypeOK /\ ConflictsHold /\ NoneLost /\ [Next]_vars => ConflictsHold' /\ NoneLost'
  BY NextConflicts, NextLosesNone
<1>3. NoneLost => ExhaustiveMeansComplete
  BY EmptyBagIsEmpty DEF NoneLost, ExhaustiveMeansComplete
<1> QED
  BY <1>1, <1>2, <1>3, TypeCorrect, PTL DEF Spec

(* prune_inconsistent_candidates leaves no candidate that a nogood in force
   rules out, although it erases from the list it iterates over. *)
THEOREM KeptAlwaysConsistent == Spec => []KeptAreConsistent
<1>1. Init => KeptSoFar
  BY DEF Init, KeptSoFar
<1>2. TypeOK /\ KeptSoFar /\ [Next]_vars => KeptSoFar'
  BY NextKeeps
<1>3. TypeOK /\ KeptSoFar => KeptAreConsistent
  <2> SUFFICES ASSUME TypeOK, KeptSoFar, pc = "prune", it > Len(candidates),
                      NEW i \in DOMAIN candidates
               PROVE  NotRuledOut(candidates[i])
    BY DEF KeptAreConsistent
  <2>1. i \in 1..(it - 1)
    BY DEF TypeOK
  <2> QED
    BY <2>1 DEF KeptSoFar
<1> QED
  BY <1>1, <1>2, <1>3, TypeCorrect, PTL DEF Spec

-----------------------------------------------------------------------------
(***************************************************************************)
(* The order in which the search finds its candidates, for every set of    *)
(* weights.                                                                *)
(*                                                                         *)
(* The argument.  The weight of a candidate is the sum of the weights of   *)
(* its assignments, so a part of it weighs no more than it does.  What an  *)
(* agenda element leads to weighs no less than the element: a child has    *)
(* its whole candidate as its prefix, and a sibling has the next of a list *)
(* that is taken in the order of the weights.  The lightest element is     *)
(* popped, hence no candidate that is still to come weighs less than the   *)
(* one that is found, and candidates are found in the order of their       *)
(* weights.  Together with NoneLost, which gives an element for each       *)
(* explanation that is not found yet, and which weighs no more than it, no *)
(* lighter explanation is passed over.                                     *)
(***************************************************************************)

(* The weight of a candidate *)

(* get_weight sums the weights of the assignments. *)
LEMMA WeightIsSum ==
  ASSUME NEW c \in SUBSET Assignment
  PROVE  /\ get_weight(c) = Sum(weight, c)
         /\ IsFiniteSet(c) /\ \A a \in c : weight[a] \in Nat
<1> DEFINE iter == CHOOSE iter : iter =
             [s \in SUBSET c |->
                IF s = {} THEN 0
                ELSE weight[CHOOSE x \in s : TRUE] + iter[s \ {CHOOSE x \in s : TRUE}]]
<1>1. IsFiniteSet(c) /\ \A a \in c : weight[a] \in Nat
  BY AssignmentAssumption, WeightAssumption, FS_Subset
<1>2. \E h : Accumulates(h, weight, c)
  BY <1>1, SumAccumulates
<1>3. Accumulates(iter, weight, c)
  BY <1>2 DEF Accumulates
<1>4. get_weight(c) = iter[c]
  BY Zenon DEF get_weight, MapThenSumSet, MapThenFoldSet
<1> HIDE DEF iter
<1>5. iter[c] = Sum(weight, c)
  BY <1>1, <1>3, SumAccumulates
<1> QED
  BY <1>1, <1>4, <1>5

(* get_weight: the weight of a candidate grows by that of what is added to it,
   and no part of it weighs more. *)
LEMMA WeightFacts ==
  ASSUME NEW c \in SUBSET Assignment
  PROVE  /\ get_weight(c) \in Nat
         /\ \A a \in Assignment \ c : get_weight(c \cup {a}) = get_weight(c) + weight[a]
         /\ \A d \in SUBSET c : get_weight(d) <= get_weight(c)
<1>1. get_weight(c) = Sum(weight, c) /\ Sum(weight, c) \in Nat
  <2>1. c \in SUBSET c
    OBVIOUS
  <2> QED
    BY <2>1, WeightIsSum, SumFacts
<1>2. ASSUME NEW a \in Assignment \ c
      PROVE  get_weight(c \cup {a}) = get_weight(c) + weight[a]
  <2>1. /\ c \cup {a} \in SUBSET Assignment /\ (c \cup {a}) \ {a} = c
        /\ c \cup {a} \in SUBSET (c \cup {a}) /\ a \in c \cup {a}
    OBVIOUS
  <2>2. /\ get_weight(c \cup {a}) = Sum(weight, c \cup {a}) /\ IsFiniteSet(c \cup {a})
        /\ \A x \in c \cup {a} : weight[x] \in Nat
    BY <2>1, WeightIsSum
  <2>3. Sum(weight, c \cup {a}) = weight[a] + Sum(weight, (c \cup {a}) \ {a})
    BY <2>1, <2>2, SumFacts
  <2>4. weight[a] \in Nat
    BY WeightAssumption
  <2>5. get_weight(c \cup {a}) = weight[a] + Sum(weight, c)
    BY <2>1, <2>2, <2>3
  <2> QED
    BY <1>1, <2>4, <2>5
<1>3. ASSUME NEW d \in SUBSET c
      PROVE  get_weight(d) <= get_weight(c)
  <2>1. get_weight(d) = Sum(weight, d)
    BY WeightIsSum
  <2> QED
    BY <1>1, <2>1, WeightIsSum, SumOfPart
<1> QED
  BY <1>1, <1>2, <1>3

-----------------------------------------------------------------------------
(* The order of the agenda *)

(* The current assignment is the lightest of those that the element is to try. *)
ListSorted(e) ==
  /\ e.current = NULL => e.remaining = {}
  /\ e.current # NULL =>
       /\ e.current \notin e.prefix
       /\ \A b \in UsefulAssignments(e.prefix, e.remaining) : weight[e.current] <= weight[b]

Typed(e) == e \in Element /\ generate_candidate(e) \in Candidate

Sorted == pc = "search" => \A e \in BagToSet(agenda) : ListSorted(e)

(* Candidates are found in the order of their weights, and none that weighs less
   than one that was found is still to come. *)
FoundInOrder ==
  pc = "search" =>
    \A i \in DOMAIN candidates :
      /\ \A e \in BagToSet(agenda) : get_weight(candidates[i]) <= compute_element_weight(e)
      /\ \A j \in DOMAIN candidates :
           i < j => get_weight(candidates[i]) <= get_weight(candidates[j])

(* compute_element_weight tells the weight of the candidate without making it. *)
LEMMA ElementWeight ==
  ASSUME NEW e, Typed(e), ListSorted(e)
  PROVE  /\ compute_element_weight(e) = get_weight(generate_candidate(e))
         /\ compute_element_weight(e) \in Nat
         /\ get_weight(e.prefix) \in Nat
<1>1. /\ e.prefix \in SUBSET Assignment
      /\ e.current \in Assignment \cup {NULL}
      /\ generate_candidate(e) \in SUBSET Assignment
  BY DEF Typed, Element, Candidate
<1>2. get_weight(e.prefix) \in Nat /\ get_weight(generate_candidate(e)) \in Nat
  BY <1>1, WeightFacts
<1>3. CASE e.current = NULL
  BY <1>2, <1>3 DEF compute_element_weight, generate_candidate
<1>4. CASE e.current # NULL
  <2>1. e.current \in Assignment \ e.prefix
    BY <1>1, <1>4 DEF ListSorted
  <2>2. get_weight(e.prefix \cup {e.current}) = get_weight(e.prefix) + weight[e.current]
    BY <1>1, <2>1, WeightFacts
  <2> QED
    BY <1>2, <1>4, <2>2 DEF compute_element_weight, generate_candidate
<1> QED
  BY <1>2, <1>3, <1>4

LEMMA NextElementsSorted ==
  ASSUME NEW prefix \in Candidate, NEW list \in SUBSET Assignment,
         NEW x \in NextElements(prefix, list)
  PROVE  Typed(x) /\ ListSorted(x)
<1>1. /\ Typed(x)
      /\ x.prefix = prefix
      /\ x.current \in UsefulAssignments(prefix, list)
      /\ x.remaining = list \ {x.current}
  BY NextElementsType DEF Typed
<1>2. x.current \in Assignment /\ x.current \notin prefix /\ x.current # NULL
  BY <1>1, AssignmentAssumption DEF UsefulAssignments, is_assignment_useful
<1>3. x.current \in Lightest(UsefulAssignments(prefix, list))
  BY DEF NextElements
<1>4. UsefulAssignments(prefix, x.remaining) \subseteq UsefulAssignments(prefix, list)
  BY <1>1 DEF UsefulAssignments
<1> QED
  BY <1>1, <1>2, <1>3, <1>4 DEF ListSorted, Lightest

(* A child has the candidate of its parent as its prefix. *)
LEMMA ChildWeighsMore ==
  ASSUME NEW e, Typed(e), ListSorted(e), NEW k, NEW x \in Child(e, k)
  PROVE  /\ Typed(x) /\ ListSorted(x)
         /\ compute_element_weight(e) <= compute_element_weight(x)
<1>1. generate_candidate(e) \in Candidate /\ resolving_assignments(k) \in SUBSET Assignment
  BY DEF Typed, resolving_assignments
<1>2. Typed(x) /\ ListSorted(x) /\ x.prefix = generate_candidate(e)
  BY <1>1, NextElementsSorted, NextElementsType DEF Child
<1>3. generate_candidate(x) \in SUBSET Assignment /\ x.prefix \subseteq generate_candidate(x)
  BY <1>2 DEF Typed, Candidate, generate_candidate
<1>4. get_weight(x.prefix) <= get_weight(generate_candidate(x))
  BY <1>3, WeightFacts
<1> QED
  BY <1>2, <1>4, ElementWeight

(* A sibling has the same prefix and an assignment further on in the list. *)
LEMMA SiblingWeighsMore ==
  ASSUME NEW e, Typed(e), ListSorted(e), NEW x \in Sibling(e)
  PROVE  /\ Typed(x) /\ ListSorted(x)
         /\ compute_element_weight(e) <= compute_element_weight(x)
<1>1. e.prefix \in Candidate /\ e.remaining \in SUBSET Assignment
  BY PrefixIsCandidate DEF Typed, Element
<1>2. /\ Typed(x) /\ ListSorted(x) /\ x.prefix = e.prefix
      /\ x.current \in UsefulAssignments(e.prefix, e.remaining)
  BY <1>1, NextElementsSorted, NextElementsType DEF Sibling
<1>3. x.current \in e.remaining /\ x.current \in Assignment /\ x.current # NULL
  BY <1>1, <1>2, AssignmentAssumption DEF UsefulAssignments
<1>4. e.current # NULL /\ e.current \in Assignment
  BY <1>3 DEF ListSorted, Typed, Element
<1>5. weight[e.current] <= weight[x.current]
  BY <1>2, <1>4 DEF ListSorted
<1>6. weight[e.current] \in Nat /\ weight[x.current] \in Nat
  BY <1>3, <1>4, WeightAssumption
<1>7. get_weight(e.prefix) \in Nat
  BY ElementWeight
<1> QED
  BY <1>2, <1>3, <1>4, <1>5, <1>6, <1>7 DEF compute_element_weight

(* An element weighs no more than any candidate that it stands for. *)
LEMMA CoverWeighsNoMore ==
  ASSUME NEW e, Typed(e), ListSorted(e), NEW c \in Candidate, Covers(e, c)
  PROVE  compute_element_weight(e) <= get_weight(c) /\ get_weight(c) \in Nat
<1>1. e.prefix \in SUBSET Assignment /\ c \in SUBSET Assignment /\ e.prefix \subseteq c
  BY DEF Typed, Element, Candidate, Covers
<1>2. get_weight(c) \in Nat /\ get_weight(e.prefix) \in Nat
  BY <1>1, WeightFacts
<1>3. ASSUME NEW a \in c, a \notin e.prefix
      PROVE  get_weight(e.prefix) + weight[a] <= get_weight(c)
  <2>1. get_weight(e.prefix \cup {a}) = get_weight(e.prefix) + weight[a]
    BY <1>1, <1>3, WeightFacts
  <2>2. e.prefix \cup {a} \in SUBSET c
    BY <1>1
  <2>3. get_weight(e.prefix \cup {a}) <= get_weight(c)
    BY <1>1, <2>2, WeightFacts
  <2> QED
    BY <2>1, <2>3
<1>4. CASE e.current = NULL
  <2>1. get_weight(e.prefix) <= get_weight(c)
    BY <1>1, WeightFacts
  <2> QED
    BY <1>2, <1>4, <2>1 DEF compute_element_weight
<1>5. CASE e.current # NULL /\ e.current \in c
  BY <1>2, <1>3, <1>5 DEF compute_element_weight, ListSorted
<1>6. CASE e.current # NULL /\ \E a \in UsefulAssignments(e.prefix, e.remaining) : a \in c
  <2>1. PICK a \in UsefulAssignments(e.prefix, e.remaining) : a \in c
    BY <1>6
  <2>2. a \notin e.prefix /\ weight[e.current] <= weight[a]
    BY <1>6 DEF UsefulAssignments, is_assignment_useful, ListSorted
  <2>3. get_weight(e.prefix) + weight[a] <= get_weight(c)
    BY <1>3, <2>1, <2>2
  <2>4. weight[e.current] \in Nat /\ weight[a] \in Nat
    BY <1>1, <1>6, <2>1, WeightAssumption DEF Typed, Element
  <2> QED
    BY <1>2, <1>6, <2>2, <2>3, <2>4 DEF compute_element_weight
<1> QED
  BY <1>4, <1>5, <1>6 DEF Covers

-----------------------------------------------------------------------------
(* One turn of the loop *)

(* What expand_element may put on the agenda in the place of e. *)
Follows(x, e) ==
  /\ Typed(x) /\ ListSorted(x)
  /\ compute_element_weight(e) <= compute_element_weight(x)
  /\ e.prefix \subseteq x.prefix
  /\ \E a \in Assignment : /\ a # default[variable[a]]
                           /\ generate_candidate(x) \subseteq generate_candidate(e) \cup {a}

LEMMA ElementsFollow ==
  ASSUME NEW e, Typed(e), ListSorted(e)
  PROVE  /\ \A x \in Sibling(e) : Follows(x, e)
         /\ \A k : \A x \in Child(e, k) : Follows(x, e)
<1>1. /\ e.prefix \in Candidate /\ e.remaining \in SUBSET Assignment
      /\ generate_candidate(e) \in Candidate
      /\ e.prefix \subseteq generate_candidate(e)
  BY PrefixIsCandidate DEF Typed, Element, generate_candidate
<1>2. ASSUME NEW prefix \in Candidate, NEW list \in SUBSET Assignment,
             NEW x \in NextElements(prefix, list)
      PROVE  /\ x.prefix = prefix
             /\ \E a \in Assignment : /\ a # default[variable[a]]
                                      /\ generate_candidate(x) \subseteq prefix \cup {a}
  <2>1. x.prefix = prefix /\ x.current \in UsefulAssignments(prefix, list)
    BY <1>2, NextElementsType
  <2>2. x.current \in Assignment /\ x.current # default[variable[x.current]]
    BY <2>1 DEF UsefulAssignments, is_assignment_useful
  <2>3. generate_candidate(x) \subseteq prefix \cup {x.current}
    BY <2>1 DEF generate_candidate
  <2> QED
    BY <2>1, <2>2, <2>3
<1>3. ASSUME NEW x \in Sibling(e) PROVE Follows(x, e)
  <2>1. /\ Typed(x) /\ ListSorted(x)
        /\ compute_element_weight(e) <= compute_element_weight(x)
    BY <1>3, SiblingWeighsMore
  <2>2. /\ x.prefix = e.prefix
        /\ \E a \in Assignment : /\ a # default[variable[a]]
                                 /\ generate_candidate(x) \subseteq e.prefix \cup {a}
    BY <1>1, <1>2 DEF Sibling
  <2> QED
    BY <1>1, <2>1, <2>2 DEF Follows
<1>4. ASSUME NEW k, NEW x \in Child(e, k) PROVE Follows(x, e)
  <2>1. /\ Typed(x) /\ ListSorted(x)
        /\ compute_element_weight(e) <= compute_element_weight(x)
    BY <1>4, ChildWeighsMore
  <2>2. resolving_assignments(k) \in SUBSET Assignment
    BY DEF resolving_assignments
  <2>3. /\ x.prefix = generate_candidate(e)
        /\ \E a \in Assignment :
             /\ a # default[variable[a]]
             /\ generate_candidate(x) \subseteq generate_candidate(e) \cup {a}
    BY <1>1, <1>2, <2>2 DEF Child
  <2> QED
    BY <1>1, <2>1, <2>3 DEF Follows
<1> QED
  BY <1>3, <1>4

LEMMA SearchTurn ==
  ASSUME TypeOK, Sorted, find_consistent_candidates
  PROVE  \E e \in Best :
           /\ Typed(e) /\ ListSorted(e)
           /\ \/ candidates' = candidates
              \/ /\ candidates' = Append(candidates, generate_candidate(e))
                 /\ ~superset_candidate(generate_candidate(e), candidates)
           /\ \A x \in BagToSet(agenda') : x \in BagToSet(agenda) \/ Follows(x, e)
<1>1. PICK e \in Best : next_inconsistent(e) \/ next_consistent_candidate(e)
  BY DEF find_consistent_candidates
<1>2. e \in BagToSet(agenda) /\ pc = "search"
  BY DEF Best, find_consistent_candidates
<1>3. Typed(e) /\ ListSorted(e) /\ IsABag(agenda)
  BY <1>2 DEF TypeOK, Typed, Sorted
<1>4. \/ candidates' = candidates
      \/ /\ candidates' = Append(candidates, generate_candidate(e))
         /\ ~superset_candidate(generate_candidate(e), candidates)
  BY <1>1 DEF next_inconsistent, next_consistent_candidate
<1>5. CASE next_inconsistent(e)
  <2>1. PICK k \in conflict(generate_candidate(e)) :
          \E child \in Insertions(Child(e, k)), sibling \in Insertions(Sibling(e)) :
            agenda' = ((agenda (-) SetToBag({e})) (+) child) (+) sibling
    BY <1>5 DEF next_inconsistent
  <2>2. BagToSet(agenda') \subseteq BagToSet(agenda) \cup Child(e, k) \cup Sibling(e)
    BY <2>1, <1>2, <1>3, AgendaUpdateTwo
  <2> QED
    BY <1>3, <1>4, <2>2, ElementsFollow
<1>6. CASE next_consistent_candidate(e)
  <2>1. \E sibling \in Insertions(Sibling(e)) :
          agenda' = (agenda (-) SetToBag({e})) (+) sibling
    BY <1>6 DEF next_consistent_candidate
  <2>2. BagToSet(agenda') \subseteq BagToSet(agenda) \cup Sibling(e)
    BY <2>1, <1>2, <1>3, AgendaUpdate
  <2> QED
    BY <1>3, <1>4, <2>2, ElementsFollow
<1> QED
  BY <1>1, <1>5, <1>6

(* The search finds the candidates in the order of their weights. *)
LEMMA SearchStepOrders ==
  ASSUME TypeOK, Sorted, FoundInOrder, find_consistent_candidates
  PROVE  Sorted' /\ FoundInOrder'
<1>1. PICK e \in Best :
        /\ Typed(e) /\ ListSorted(e)
        /\ \/ candidates' = candidates
           \/ candidates' = Append(candidates, generate_candidate(e))
        /\ \A x \in BagToSet(agenda') : x \in BagToSet(agenda) \/ Follows(x, e)
  BY SearchTurn
<1>2. /\ pc = "search" /\ candidates \in Seq(Candidate)
      /\ \A x \in BagToSet(agenda) : Typed(x) /\ ListSorted(x)
  BY DEF find_consistent_candidates, TypeOK, Typed, Sorted
<1>3. /\ e \in BagToSet(agenda)
      /\ \A f \in BagToSet(agenda) : compute_element_weight(e) <= compute_element_weight(f)
  BY DEF Best
<1>4. \A x \in BagToSet(agenda') :
        Typed(x) /\ ListSorted(x) /\ compute_element_weight(e) <= compute_element_weight(x)
  BY <1>1, <1>2, <1>3 DEF Follows
<1>5. Sorted'
  BY <1>4 DEF Sorted, BagToSet, ListSorted, UsefulAssignments, is_assignment_useful, Variables
<1> DEFINE w == compute_element_weight(e)
<1>6. w \in Nat /\ w = get_weight(generate_candidate(e))
  BY <1>1, ElementWeight
<1>7. \A x \in BagToSet(agenda') : compute_element_weight(x) \in Nat
  BY <1>4, ElementWeight
<1>8. \A i \in DOMAIN candidates :
        /\ get_weight(candidates[i]) <= w
        /\ get_weight(candidates[i]) \in Nat
        /\ \A j \in DOMAIN candidates :
             i < j => get_weight(candidates[i]) <= get_weight(candidates[j])
  <2> SUFFICES ASSUME NEW i \in DOMAIN candidates
               PROVE  get_weight(candidates[i]) \in Nat
    BY <1>2, <1>3 DEF FoundInOrder
  <2>1. candidates[i] \in SUBSET Assignment
    BY <1>2 DEF Candidate
  <2> QED
    BY <2>1, WeightFacts
<1> HIDE DEF w
<1>9. \A i \in DOMAIN candidates' :
        /\ get_weight(candidates'[i]) <= w
        /\ get_weight(candidates'[i]) \in Nat
        /\ \A j \in DOMAIN candidates' :
             i < j => get_weight(candidates'[i]) <= get_weight(candidates'[j])
  <2>1. CASE candidates' = candidates
    BY <1>8, <2>1
  <2>2. CASE candidates' = Append(candidates, generate_candidate(e))
    <3> DEFINE g == generate_candidate(e)
               n == Len(candidates) + 1
    <3>1. get_weight(g) = w
      BY <1>6
    <3> HIDE DEF g
    <3>2. /\ DOMAIN candidates' = 1..n /\ n \in Nat /\ DOMAIN candidates = 1..(n - 1)
          /\ candidates'[n] = g
          /\ \A i \in 1..(n - 1) : candidates'[i] = candidates[i]
      BY <1>2, <2>2 DEF g
    <3> HIDE DEF n
    <3> SUFFICES ASSUME NEW i \in 1..n
                 PROVE  /\ get_weight(candidates'[i]) <= w
                        /\ get_weight(candidates'[i]) \in Nat
                        /\ \A j \in 1..n :
                             i < j => get_weight(candidates'[i]) <= get_weight(candidates'[j])
      BY <3>2
    <3>3. CASE i = n
      BY <1>6, <3>1, <3>2, <3>3
    <3>4. CASE i # n
      <4>1. i \in DOMAIN candidates /\ candidates'[i] = candidates[i]
        BY <3>2, <3>4
      <4>2. ASSUME NEW j \in 1..n, i < j
            PROVE  get_weight(candidates[i]) <= get_weight(candidates'[j])
        BY <1>8, <3>1, <3>2, <4>1, <4>2
      <4> QED
        BY <1>8, <4>1, <4>2
    <3> QED
      BY <3>3, <3>4
  <2> QED
    BY <1>1, <2>1, <2>2
<1>10. \A i \in DOMAIN candidates' : \A x \in BagToSet(agenda') :
         get_weight(candidates'[i]) <= compute_element_weight(x)
  BY <1>4, <1>6, <1>7, <1>9 DEF w
<1>11. FoundInOrder'
  BY <1>9, <1>10 DEF FoundInOrder, BagToSet, compute_element_weight
<1> QED
  BY <1>5, <1>11

LEMMA StartOrders ==
  ASSUME NEW from, StartSearch(from)
  PROVE  Sorted' /\ FoundInOrder'
<1>1. \E start : agenda' = SetToBag({seed(s) : s \in start})
  BY DEF StartSearch
<1>2. \A e \in BagToSet(agenda)' : e.current = NULL /\ e.remaining = {}
  BY <1>1, BagOfSet DEF seed, BagToSet
<1>3. candidates' = <<>>
  BY DEF StartSearch
<1> QED
  BY <1>2, <1>3 DEF Sorted, ListSorted, FoundInOrder

LEMMA NextOrders ==
  ASSUME TypeOK, Sorted, FoundInOrder, [Next]_vars
  PROVE  Sorted' /\ FoundInOrder'
<1>1. CASE find_consistent_candidates
  BY <1>1, SearchStepOrders
<1>2. CASE \E from : StartSearch(from)
  BY <1>2, StartOrders
<1>3. CASE pc' # "search"
  BY <1>3 DEF Sorted, FoundInOrder
<1>4. CASE UNCHANGED <<theory, observed, seeds, candidates, agenda, pc>>
  BY <1>4 DEF Sorted, FoundInOrder, BagToSet, ListSorted, UsefulAssignments,
       is_assignment_useful, Variables, compute_element_weight
<1> QED
  BY <1>1, <1>2, <1>3, <1>4, OtherSteps

LEMMA InitOrders == Init => Sorted /\ FoundInOrder
<1> SUFFICES ASSUME Init PROVE Sorted /\ FoundInOrder
  OBVIOUS
<1>1. BagToSet(agenda) = {seed({})} /\ candidates = <<>>
  BY BagOfSet DEF Init
<1> QED
  BY <1>1 DEF Sorted, ListSorted, FoundInOrder, seed

-----------------------------------------------------------------------------
(* No lighter explanation is passed over *)

(* BestFirst, while the search still goes on. *)
LighterFound ==
  pc = "search" =>
    \A i \in DOMAIN candidates : \A c \in Explanation :
      get_weight(c) < get_weight(candidates[i]) =>
        superset_candidate(c, SubSeq(candidates, 1, i - 1))

(* An explanation lighter than all that is on the agenda has been found. *)
LEMMA LightestIsFound ==
  ASSUME TypeOK, Sorted, NoneLost, pc = "search", NEW c \in Explanation, NEW w \in Nat,
         \A e \in BagToSet(agenda) : w <= compute_element_weight(e), get_weight(c) < w
  PROVE  superset_candidate(c, candidates)
<1> SUFFICES ASSUME NEW e \in BagToSet(agenda), Covers(e, c) PROVE FALSE
  BY DEF NoneLost
<1>1. Typed(e) /\ ListSorted(e) /\ c \in Candidate
  BY DEF TypeOK, Typed, Sorted, Explanation
<1>2. compute_element_weight(e) <= get_weight(c) /\ get_weight(c) \in Nat
  BY <1>1, CoverWeighsNoMore
<1>3. w <= compute_element_weight(e) /\ compute_element_weight(e) \in Nat
  BY <1>1, ElementWeight
<1> QED
  BY <1>2, <1>3

LEMMA SearchStepPassesNone ==
  ASSUME TypeOK, Sorted, NoneLost, LighterFound, find_consistent_candidates
  PROVE  LighterFound'
<1>1. PICK e \in Best :
        /\ Typed(e) /\ ListSorted(e)
        /\ \/ candidates' = candidates
           \/ candidates' = Append(candidates, generate_candidate(e))
  BY SearchTurn
<1>2. /\ pc = "search" /\ candidates \in Seq(Candidate)
      /\ UNCHANGED <<theory, observed, seeds>>
  BY DEF find_consistent_candidates, TypeOK, theoryVars
<1>3. Explanation' = Explanation
  BY <1>2, SameExplanations
<1>4. \A f \in BagToSet(agenda) : compute_element_weight(e) <= compute_element_weight(f)
  BY DEF Best
<1>5. /\ compute_element_weight(e) \in Nat
      /\ compute_element_weight(e) = get_weight(generate_candidate(e))
  BY <1>1, ElementWeight
<1> SUFFICES ASSUME NEW i \in DOMAIN candidates', NEW c \in Explanation,
                    get_weight(c) < get_weight(candidates'[i])
             PROVE  superset_candidate(c, SubSeq(candidates', 1, i - 1))
  BY <1>3 DEF LighterFound, superset_candidate, supersetWithState, StateAssignments
<1>6. CASE i \in DOMAIN candidates
  <2>1. candidates'[i] = candidates[i]
    BY <1>1, <1>2, <1>6
  <2>2. SubSeq(candidates', 1, i - 1) = SubSeq(candidates, 1, i - 1)
    BY <1>1, <1>2, <1>6, SMTT(30)
  <2> QED
    BY <1>2, <1>6, <2>1, <2>2 DEF LighterFound
<1>7. CASE i \notin DOMAIN candidates
  <2>1. /\ candidates' = Append(candidates, generate_candidate(e))
        /\ i = Len(candidates) + 1
        /\ candidates'[i] = generate_candidate(e)
    BY <1>1, <1>2, <1>7
  <2>2. SubSeq(candidates', 1, i - 1) = candidates
    BY <1>2, <2>1
  <2>3. superset_candidate(c, candidates)
    BY <1>2, <1>4, <1>5, <2>1, LightestIsFound
  <2> QED
    BY <2>2, <2>3
<1> QED
  BY <1>6, <1>7

LEMMA NextPassesNone ==
  ASSUME TypeOK, Sorted, NoneLost, LighterFound, [Next]_vars
  PROVE  LighterFound'
<1>1. CASE find_consistent_candidates
  BY <1>1, SearchStepPassesNone
<1>2. CASE \E from : StartSearch(from)
  <2>1. candidates' = <<>>
    BY <1>2 DEF StartSearch
  <2> QED
    BY <2>1 DEF LighterFound
<1>3. CASE pc' # "search"
  BY <1>3 DEF LighterFound
<1>4. CASE UNCHANGED <<theory, observed, seeds, candidates, agenda, pc>>
  <2>1. Explanation' = Explanation
    BY <1>4, SameExplanations
  <2>2. /\ candidates' = candidates /\ pc' = pc
        /\ pc = "search" => \A i \in DOMAIN candidates : \A c \in Explanation :
             get_weight(c) < get_weight(candidates[i]) =>
               superset_candidate(c, SubSeq(candidates, 1, i - 1))
    BY <1>4 DEF LighterFound
  <2>3. pc' = "search" => \A i \in DOMAIN candidates' : \A c \in Explanation' :
          get_weight(c) < get_weight(candidates'[i]) =>
            superset_candidate(c, SubSeq(candidates', 1, i - 1))
    BY <2>1, <2>2, Zenon
  <2> QED
    BY <2>3, Zenon DEF LighterFound, superset_candidate, supersetWithState, StateAssignments
<1> QED
  BY <1>1, <1>2, <1>3, <1>4, OtherSteps

(* next_consistent_candidate: while observations are not revised, whatever limit
   ends the search, every explanation lighter than a candidate it returns
   contains one that it found before. *)
THEOREM NoLighterPassedOver ==
  ASSUME ReviseObservations = FALSE
  PROVE  Spec => []BestFirst
<1>1. Init => ConflictsHold /\ NoneLost /\ Sorted /\ FoundInOrder /\ LighterFound
  <2>1. Init => LighterFound
    BY DEF Init, LighterFound
  <2> QED
    BY <2>1, InitLosesNone, InitOrders
<1>2. TypeOK /\ ConflictsHold /\ NoneLost
        /\ Sorted /\ FoundInOrder /\ LighterFound /\ [Next]_vars
        => ConflictsHold' /\ NoneLost' /\ Sorted' /\ FoundInOrder' /\ LighterFound'
  BY NextConflicts, NextLosesNone, NextOrders, NextPassesNone
<1>3. LighterFound => BestFirst
  BY DEF LighterFound, BestFirst, SearchEnds
<1> QED
  BY <1>1, <1>2, <1>3, TypeCorrect, PTL DEF Spec

(* terminate_search: when the search stops because all that is on the agenda is
   heavier than cutoff_weight, it has found a part of every explanation within
   that weight. *)
THEOREM CutoffCompleteBelow ==
  ASSUME ReviseObservations = FALSE
  PROVE  Spec => []CutoffMeansCompleteBelow
<1>1. Init => ConflictsHold /\ NoneLost /\ Sorted /\ FoundInOrder
  BY InitLosesNone, InitOrders
<1>2. TypeOK /\ ConflictsHold /\ NoneLost /\ Sorted /\ FoundInOrder /\ [Next]_vars
        => ConflictsHold' /\ NoneLost' /\ Sorted' /\ FoundInOrder'
  BY NextConflicts, NextLosesNone, NextOrders
<1>3. TypeOK /\ NoneLost /\ Sorted => CutoffMeansCompleteBelow
  <2> SUFFICES ASSUME TypeOK, NoneLost, Sorted, pc = "search",
                      terminate_search = "WEIGHT_CUTOFF",
                      NEW c \in Explanation, get_weight(c) <= limits.cutoff_weight
               PROVE  superset_candidate(c, candidates)
    BY DEF CutoffMeansCompleteBelow
  <2>1. limits.cutoff_weight \in Nat
    BY DEF TypeOK, Limit
  <2>2. \A e \in BagToSet(agenda) : compute_element_weight(e) > limits.cutoff_weight
    BY DEF terminate_search
  <2>3. \A e \in BagToSet(agenda) : compute_element_weight(e) \in Nat
    BY ElementWeight DEF TypeOK, Typed, Sorted
  <2>4. c \in SUBSET Assignment
    BY DEF Explanation, Candidate
  <2>5. get_weight(c) \in Nat
    BY <2>4, WeightFacts
  <2>6. \A e \in BagToSet(agenda) : limits.cutoff_weight + 1 <= compute_element_weight(e)
    BY <2>1, <2>2, <2>3
  <2> QED
    BY <2>1, <2>5, <2>6, LightestIsFound
<1> QED
  BY <1>1, <1>2, <1>3, TypeCorrect, PTL DEF Spec

-----------------------------------------------------------------------------
(* No candidate contains another *)

(* A candidate names no default, but perhaps that of the state variable. *)
NamesFaults(c) == \A a \in c : a # default[variable[a]] \/ variable[a] = StateVariable

FaultsOnly ==
  /\ \A i \in DOMAIN candidates : NamesFaults(candidates[i])
  /\ pc = "search" => \A e \in BagToSet(agenda) : NamesFaults(generate_candidate(e))

(* superset_candidate looks back. *)
LaterAreNew ==
  pc = "search" =>
    \A i, j \in DOMAIN candidates :
      i < j => ~supersetWithState(candidates[j], candidates[i])

(* A part of a candidate that leaves out a fault is lighter. *)
LEMMA PartIsLighter ==
  ASSUME NEW c \in SUBSET Assignment, NEW d \in SUBSET c, NEW a \in c \ d,
         a # default[variable[a]], variable[a] # StateVariable
  PROVE  get_weight(d) < get_weight(c)
<1>1. d \in SUBSET Assignment /\ a \in Assignment \ d /\ weight[a] \in Nat /\ weight[a] > 0
  BY WeightAssumption, FaultWeightAssumption
<1>2. get_weight(d \cup {a}) = get_weight(d) + weight[a] /\ get_weight(d) \in Nat
  BY <1>1, WeightFacts
<1>3. d \cup {a} \in SUBSET c
  OBVIOUS
<1>4. get_weight(d \cup {a}) <= get_weight(c) /\ get_weight(c) \in Nat
  BY <1>3, WeightFacts
<1> QED
  BY <1>1, <1>2, <1>4

(* The past has its share in the weight of a candidate, the faults the rest. *)
LEMMA WeightOfPast ==
  ASSUME NEW c \in SUBSET Assignment
  PROVE  /\ get_weight(c) = get_weight(c \ StateAssignments(c)) + get_weight(StateAssignments(c))
         /\ get_weight(c \ StateAssignments(c)) \in Nat
         /\ get_weight(StateAssignments(c)) \in Nat
<1> DEFINE past == StateAssignments(c)
           faults == c \ past
<1>1. /\ past \in SUBSET Assignment /\ faults \in SUBSET Assignment
      /\ faults \cup past = c /\ faults \cap past = {}
  BY DEF StateAssignments
<1> HIDE DEF past, faults
<1>2. IsFiniteSet(past) /\ IsFiniteSet(faults)
  BY <1>1, AssignmentAssumption, FS_Subset
<1>3. \A x \in faults \cup past : weight[x] \in Nat
  BY <1>1, WeightAssumption
<1>4. Sum(weight, c) = Sum(weight, faults) + Sum(weight, past)
  BY <1>1, <1>2, <1>3, SumOfUnion
<1>5. /\ get_weight(c) = get_weight(faults) + get_weight(past)
      /\ get_weight(faults) \in Nat /\ get_weight(past) \in Nat
  BY <1>1, <1>4, WeightIsSum, WeightFacts
<1> QED
  BY <1>5 DEF past, faults

(* A candidate that contains one that is no lighter is contained in it, too, when
   its past is no lighter either. *)
LEMMA NoHeavierPart ==
  ASSUME NEW c \in Candidate, NEW d \in Candidate, NamesFaults(c),
         supersetWithState(c, d), HeavierPast(c, d), get_weight(c) <= get_weight(d)
  PROVE  supersetWithState(d, c)
<1> DEFINE past == StateAssignments(c)
           part == StateAssignments(d)
           c0 == c \ past
           d0 == d \ part
<1>1. c \in SUBSET Assignment /\ d \in SUBSET Assignment
  BY DEF Candidate
<1>2. /\ d0 \in SUBSET c0 /\ c0 \in SUBSET Assignment
      /\ \A x \in c0 : variable[x] # StateVariable /\ x # default[variable[x]]
  BY <1>1 DEF supersetWithState, StateAssignments, NamesFaults
<1>3. c0 \subseteq d0 /\ supersetWithState(part, past) => supersetWithState(d, c)
  BY DEF supersetWithState, StateAssignments
<1>4. /\ get_weight(c) = get_weight(c0) + get_weight(past)
      /\ get_weight(d) = get_weight(d0) + get_weight(part)
      /\ get_weight(c0) \in Nat /\ get_weight(past) \in Nat
      /\ get_weight(d0) \in Nat /\ get_weight(part) \in Nat
  BY <1>1, WeightOfPast
<1>5. \/ get_weight(part) < get_weight(past)
      \/ get_weight(part) = get_weight(past) /\ supersetWithState(part, past)
  BY DEF HeavierPast
<1> HIDE DEF past, part, c0, d0
<1>6. get_weight(d0) <= get_weight(c0)
  BY <1>2, WeightFacts
<1>7. supersetWithState(part, past) /\ get_weight(c0) = get_weight(d0)
  <2>1. get_weight(c0) + get_weight(past) <= get_weight(d0) + get_weight(part)
    BY <1>4
  <2>2. ~(get_weight(part) < get_weight(past))
    BY <1>4, <1>6, <2>1
  <2> QED
    BY <1>4, <1>5, <1>6, <2>1, <2>2
<1>8. ASSUME NEW x \in c0, x \notin d0 PROVE FALSE
  <2>1. get_weight(d0) < get_weight(c0)
    BY <1>2, <1>8, PartIsLighter
  <2> QED
    BY <1>4, <1>7, <2>1
<1> QED
  BY <1>3, <1>7, <1>8

LEMMA SearchStepFaults ==
  ASSUME TypeOK, Sorted, FaultsOnly, LaterAreNew, find_consistent_candidates
  PROVE  FaultsOnly' /\ LaterAreNew'
<1>1. PICK e \in Best :
        /\ Typed(e) /\ ListSorted(e)
        /\ \/ candidates' = candidates
           \/ /\ candidates' = Append(candidates, generate_candidate(e))
              /\ ~superset_candidate(generate_candidate(e), candidates)
        /\ \A x \in BagToSet(agenda') : x \in BagToSet(agenda) \/ Follows(x, e)
  BY SearchTurn
<1>2. pc = "search" /\ candidates \in Seq(Candidate) /\ e \in BagToSet(agenda)
  BY DEF find_consistent_candidates, TypeOK, Best
<1> DEFINE g == generate_candidate(e)
<1>3. \/ candidates' = candidates
      \/ /\ Len(candidates) + 1 \in DOMAIN candidates'
         /\ DOMAIN candidates' = DOMAIN candidates \cup {Len(candidates) + 1}
         /\ candidates'[Len(candidates) + 1] = g
         /\ \A i \in DOMAIN candidates :
              candidates'[i] = candidates[i] /\ i < Len(candidates) + 1
         /\ ~superset_candidate(g, candidates)
  <2>1. g \in Candidate
    BY <1>1 DEF Typed
  <2> QED
    <3> DEFINE longer == Append(candidates, g)
    <3>1. /\ Len(candidates) + 1 \in DOMAIN longer
          /\ DOMAIN longer = DOMAIN candidates \cup {Len(candidates) + 1}
          /\ longer[Len(candidates) + 1] = g
          /\ \A i \in DOMAIN candidates : longer[i] = candidates[i] /\ i < Len(candidates) + 1
      BY <1>2, <2>1, AppendFacts
    <3> HIDE DEF longer
    <3>2. candidates' = candidates
          \/ (candidates' = longer /\ ~superset_candidate(g, candidates))
      BY <1>1 DEF longer
    <3> QED
      BY <3>1, <3>2
<1>4. ASSUME NEW x, Follows(x, e)
      PROVE  \E a \in Assignment : /\ a # default[variable[a]]
                                   /\ generate_candidate(x) \subseteq g \cup {a}
  BY <1>4 DEF Follows
<1> HIDE DEF g
<1>5. FaultsOnly'
  <2>1. NamesFaults(g) /\ \A i \in DOMAIN candidates : NamesFaults(candidates[i])
    BY <1>2 DEF FaultsOnly, g
  <2>2. \A i \in DOMAIN candidates' : NamesFaults(candidates'[i])
    BY <1>3, <2>1
  <2>3. \A x \in BagToSet(agenda') : NamesFaults(generate_candidate(x))
    <3> SUFFICES ASSUME NEW x, Follows(x, e) PROVE NamesFaults(generate_candidate(x))
      BY <1>1, <1>2 DEF FaultsOnly
    <3> QED
      BY <1>4, <2>1 DEF NamesFaults
  <2> QED
    BY <2>2, <2>3 DEF FaultsOnly, BagToSet, NamesFaults, generate_candidate
<1>6. LaterAreNew'
  <2>1. \A i, j \in DOMAIN candidates :
          i < j => ~supersetWithState(candidates[j], candidates[i])
    BY <1>2 DEF LaterAreNew
  <2>2. \A i, j \in DOMAIN candidates' :
          i < j => ~supersetWithState(candidates'[j], candidates'[i])
    <3>1. CASE candidates' = candidates
      BY <2>1, <3>1
    <3>2. CASE candidates' # candidates
      <4>1. \A i \in DOMAIN candidates : ~supersetWithState(g, candidates[i])
        BY <1>3, <3>2 DEF superset_candidate
      <4>2. \A i \in DOMAIN candidates' : i \in DOMAIN candidates \/ i = Len(candidates) + 1
        BY <1>3, <3>2
      <4>3. \A i \in DOMAIN candidates : i < Len(candidates) + 1 /\ i \in Nat
        BY <1>2
      <4>4. Len(candidates) \in Nat
        BY <1>2
      <4> QED
        BY <1>3, <2>1, <3>2, <4>1, <4>2, <4>3, <4>4
    <3> QED
      BY <3>1, <3>2
  <2> QED
    BY <2>2 DEF LaterAreNew, supersetWithState, StateAssignments
<1> QED
  BY <1>5, <1>6

(* A search starts from candidates that name faults. *)
LEMMA StartFaults ==
  ASSUME NEW from, StartSearch(from), \A c \in from : NamesFaults(c)
  PROVE  FaultsOnly' /\ LaterAreNew'
<1> DEFINE start == IF from = {} THEN {{}} ELSE from
<1>1. agenda' = SetToBag({seed(s) : s \in start}) /\ candidates' = <<>>
  BY DEF StartSearch
<1>2. \A c \in start : NamesFaults(c)
  BY DEF NamesFaults
<1> HIDE DEF start
<1>3. \A e \in BagToSet(agenda)' : e.prefix \in start /\ generate_candidate(e) = e.prefix
  BY <1>1, BagOfSet DEF seed, generate_candidate, BagToSet
<1>4. \A e \in BagToSet(agenda)' : NamesFaults(generate_candidate(e))
  BY <1>2, <1>3
<1>5. FaultsOnly'
  BY <1>1, <1>4 DEF FaultsOnly, NamesFaults, generate_candidate
<1>6. LaterAreNew'
  BY <1>1 DEF LaterAreNew
<1> QED
  BY <1>5, <1>6

LEMMA FreshSeedsNameFaults == \A c \in FreshSeeds : NamesFaults(c)
  BY DEF FreshSeeds, NamesFaults

(* What the steps outside of the loop do to the candidates. *)
LEMMA CandidatesStep ==
  ASSUME TypeOK, [Next]_vars, ~find_consistent_candidates
  PROVE  \/ StartSearch(ToSet(candidates)) \/ StartSearch(FreshSeeds)
         \/ /\ pc' # "search"
            /\ \A i \in DOMAIN candidates' :
                 \E j \in DOMAIN candidates : candidates'[i] = candidates[j]
         \/ UNCHANGED <<candidates, agenda, pc>>
<1>1. CASE prune_inconsistent_candidates
  <2>1. pc' # "search" /\ it \in 1..Len(candidates) /\ candidates \in Seq(Candidate)
    BY <1>1 DEF prune_inconsistent_candidates, TypeOK
  <2>2. candidates' = candidates \/ candidates' = RemoveAt(candidates, it)
    BY <1>1 DEF prune_inconsistent_candidates
  <2>3. \A i \in DOMAIN RemoveAt(candidates, it) :
          \E j \in DOMAIN candidates : RemoveAt(candidates, it)[i] = candidates[j]
    BY <2>1, RemoveAtKeeps
  <2> QED
    BY <2>1, <2>2, <2>3
<1>2. CASE ~prune_inconsistent_candidates
  BY <1>2 DEF Next, Search, find_consistent_candidates_return,
     prune_inconsistent_candidates_return, partition, prune_and_search_return,
     extend_candidates, find_fresh_candidates, prune_and_search, observe, vars, theoryVars,
     trackerVars, searchVars
<1> QED
  BY <1>1, <1>2

LEMMA NextFaults ==
  ASSUME TypeOK, Sorted, FaultsOnly, LaterAreNew, [Next]_vars
  PROVE  FaultsOnly' /\ LaterAreNew'
<1>1. CASE find_consistent_candidates
  BY <1>1, SearchStepFaults
<1>2. CASE StartSearch(ToSet(candidates))
  <2>1. \A c \in ToSet(candidates) : NamesFaults(c)
    BY DEF FaultsOnly, ToSet
  <2> QED
    BY <1>2, <2>1, StartFaults
<1>3. CASE StartSearch(FreshSeeds)
  BY <1>3, FreshSeedsNameFaults, StartFaults
<1>4. CASE /\ pc' # "search"
           /\ \A i \in DOMAIN candidates' : \E j \in DOMAIN candidates : candidates'[i] = candidates[j]
  <2>1. LaterAreNew'
    BY <1>4 DEF LaterAreNew
  <2>2. \A i \in DOMAIN candidates' : NamesFaults(candidates'[i])
    BY <1>4 DEF FaultsOnly
  <2>3. FaultsOnly'
    BY <1>4, <2>2 DEF FaultsOnly, NamesFaults
  <2> QED
    BY <2>1, <2>3
<1>5. CASE UNCHANGED <<candidates, agenda, pc>>
  BY <1>5 DEF FaultsOnly, LaterAreNew, BagToSet, NamesFaults, StateAssignments,
       generate_candidate, supersetWithState
<1> QED
  BY <1>1, <1>2, <1>3, <1>4, <1>5, CandidatesStep

LEMMA InitFaults == Init => FaultsOnly /\ LaterAreNew
<1> SUFFICES ASSUME Init PROVE FaultsOnly /\ LaterAreNew
  OBVIOUS
<1>1. BagToSet(agenda) = {seed({})} /\ candidates = <<>>
  BY BagOfSet DEF Init
<1>2. generate_candidate(seed({})) = {}
  BY DEF generate_candidate, seed
<1> QED
  BY <1>1, <1>2 DEF FaultsOnly, LaterAreNew, NamesFaults

(* superset_candidate only looks back, at what was found before; but no candidate
   contains a later one either, as later ones weigh no less: not as candidates, and
   so not without their pasts when the pasts weigh no less.  Whatever the pasts
   weigh, that of the default state value included. *)
THEOREM NoneContainsAnother == Spec => []NoneRedundant
<1> DEFINE Inv == Sorted /\ FoundInOrder /\ FaultsOnly /\ LaterAreNew
<1>1. Init => Inv
  BY InitOrders, InitFaults
<1>2. TypeOK /\ Inv /\ [Next]_vars => Inv'
  BY NextOrders, NextFaults
<1>3. TypeOK /\ Inv => NoneRedundant
  <2> SUFFICES ASSUME TypeOK, Inv, pc = "search", NEW i \in DOMAIN candidates,
                      NEW j \in DOMAIN candidates,
                      supersetWithState(candidates[i], candidates[j]),
                      HeavierPast(candidates[i], candidates[j])
               PROVE  i = j
    BY DEF NoneRedundant
  <2>1. i \in Nat /\ j \in Nat /\ candidates[i] \in Candidate /\ candidates[j] \in Candidate
    BY DEF TypeOK
  <2>2. ~(j < i)
    BY DEF LaterAreNew
  <2>3. ASSUME i < j PROVE FALSE
    <3>1. get_weight(candidates[i]) <= get_weight(candidates[j])
      BY <2>3 DEF FoundInOrder
    <3>2. NamesFaults(candidates[i])
      BY DEF FaultsOnly
    <3>3. supersetWithState(candidates[j], candidates[i])
      BY <2>1, <3>1, <3>2, NoHeavierPart
    <3> QED
      BY <2>3, <3>3 DEF LaterAreNew
  <2> QED
    BY <2>1, <2>2, <2>3
<1> QED
  BY <1>1, <1>2, <1>3, TypeCorrect, PTL DEF Spec

=============================================================================
