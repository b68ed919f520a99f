----------------------------- MODULE LTMSProofs -----------------------------
(***************************************************************************)
(* Proofs about LTMS for every set of propositions, every set of clauses   *)
(* and every choice of clause bodies: types and caches first, and then     *)
(* that its answers are right for every theory, every truth value entailed *)
(* and every conflict a conflict.                                          *)
(***************************************************************************)
EXTENDS LTMS, FiniteSetTheorems, TLAPS

(* Clauses are finite sets of literals, so their literals can be counted. *)
LEMMA FiniteLits ==
  ASSUME DataOK, NEW c \in Clause
  PROVE  /\ IsFiniteSet(lits[c])
         /\ IsFiniteSet(Unassigned(c))
         /\ count_unassigned(c) \in Nat
<1>1. IsFiniteSet({"PTRUE"} \cup {"PFALSE"})
  BY FS_Singleton, FS_AddElement
<1>2. IsFiniteSet(Literal)
  BY <1>1, FiniteAssumption, FS_Product DEF Literal
<1>3. lits[c] \subseteq Literal /\ Unassigned(c) \subseteq lits[c]
  BY DEF DataOK, Unassigned
<1>4. IsFiniteSet(lits[c]) /\ IsFiniteSet(Unassigned(c))
  BY <1>2, <1>3, FS_Subset
<1> QED
  BY <1>4, FS_CardinalityType DEF count_unassigned

(* Every step keeps the data of its type. *)
LEMMA DataStep == DataOK /\ [Next]_vars => DataOK'
<1> SUFFICES ASSUME DataOK, [Next]_vars PROVE DataOK'
  OBVIOUS
<1> USE StampAssumption DEF DataOK
<1>1. ASSUME NEW c \in Clause, NEW body \in Bodies, create_clause(c, body)
      PROVE  DataOK'
  BY <1>1, FiniteAssumption DEF create_clause
<1>2. ASSUME NEW c \in Clause, add(c) PROVE DataOK'
  <2>1. find_satisfying_prop(c) \in Prop \cup {NULL}
    BY DEF find_satisfying_prop, Satisfying, Literal
  <2>2. count_unassigned(c) \in Int
    BY FiniteLits
  <2> QED BY <1>2, <2>1, <2>2 DEF add, traceVars
<1>3. ASSUME NEW c \in Clause, remove(c) PROVE DataOK'
  BY <1>3 DEF remove, Active, traceVars
<1>4. ASSUME NEW D \in SUBSET Prop, finish_destroying(D) PROVE DataOK'
  BY <1>4 DEF finish_destroying, traceVars
<1>5. CASE propagate
  BY <1>5 DEF propagate, theoryVars, cacheVars, supportVars, traceVars
<1>6. ASSUME NEW c \in Clause, last_conflict(c) PROVE DataOK'
  BY <1>6 DEF last_conflict, NextStamp, FreshStamps, theoryVars, cacheVars, supportVars
<1>7. ASSUME NEW p \in Prop, undo_propagations(p) PROVE DataOK'
  <2>1. CASE tv[p] = "UNKNOWN"
    BY <1>7, <2>1 DEF undo_propagations, theoryVars, cacheVars, traceVars
  <2>2. CASE tv[p] # "UNKNOWN"
    <3>1. \A d \in Clause : \A S \in SUBSET Satisfying(d) :
            S # {} => (CHOOSE l \in S : TRUE)[1] \in Prop
      BY DEF Satisfying, Literal
    <3>2. unassign(p)
      BY <1>7, <2>2 DEF undo_propagations
    <3>3. Active \subseteq Clause
      BY DEF Active
    <3>4. satisfying_prop' \in [Clause -> Prop \cup {NULL}]
      BY <3>1, <3>2 DEF unassign
    <3>5. undo_list' \subseteq Prop /\ supports' \in [Clause -> Prop \cup {NULL}]
      BY <3>2, <3>3 DEF unassign
    <3>6. num_unassigned' \in [Clause -> Int]
      BY <3>2 DEF unassign, Occurrences
    <3> QED BY <1>7, <3>2, <3>3, <3>4, <3>5, <3>6
            DEF undo_propagations, unassign, theoryVars, traceVars
  <2> QED BY <2>1, <2>2
<1>8. CASE undo_propagations_return
  BY <1>8 DEF undo_propagations_return, theoryVars, cacheVars, supportVars, traceVars
<1>9. ASSUME NEW c \in Clause, propagate_clause(c) PROVE DataOK'
  <2>1. PICK l \in Unassigned(c) :
          /\ assign(l[1], l[2], c, fringe \ {c})
          /\ supports' = [supports EXCEPT ![c] = l[1]]
    BY <1>9 DEF propagate_clause
  <2>2. l[1] \in Prop /\ l[2] \in {"PTRUE", "PFALSE"}
    BY DEF Unassigned, Literal
  <2>3. num_unassigned' \in [Clause -> Int]
    BY <2>1 DEF assign, Occurrences
  <2> QED
    BY <1>9, <2>1, <2>2, <2>3
    DEF propagate_clause, assign, Active, theoryVars, traceVars
<1>10. CASE propagate_return
  BY <1>10 DEF propagate_return, theoryVars, cacheVars, supportVars, traceVars
<1>11. ASSUME NEW c \in Clause, get_clause_support(c) PROVE DataOK'
  <2>1. PropsOf(c) \subseteq Prop
    BY DEF PropsOf, Literal
  <2> QED
    BY <1>11, <2>1 DEF get_clause_support, theoryVars, cacheVars, supportVars
<1>12. CASE last_conflict_return
  BY <1>12 DEF last_conflict_return, theoryVars, cacheVars, supportVars, traceVars
<1>13. CASE UNCHANGED vars
  BY <1>13 DEF vars, theoryVars, cacheVars, supportVars, traceVars
<1> QED
  BY <1>1, <1>2, <1>3, <1>4, <1>5, <1>6, <1>7, <1>8, <1>9, <1>10, <1>11, <1>12,
     <1>13 DEF Next, Call, Run

(* Every state of the LTMS is of its type: no operation leaves a dangling or
   ill-typed pointer in a clause, a proposition or a list. *)
THEOREM TypeCorrect == Spec => []TypeOK
<1>1. Init => TypeOK
  BY StampAssumption DEF Init, TypeOK, DataOK, Literal
<1>2. TypeOK /\ [Next]_vars => TypeOK'
  <2>1. TypeOK /\ [Next]_vars => DataOK'
    BY DataStep DEF TypeOK
  <2>2. TypeOK /\ [Next]_vars => pc' \in {pc, "client", "remove", "finish_destroying",
                                        "propagate", "last_conflict"}
    BY DEF Next, Call, Run, create_clause, add, remove, finish_destroying, propagate,
           last_conflict, undo_propagations, undo_propagations_return,
           propagate_clause, propagate_return, get_clause_support,
           last_conflict_return, vars
  <2> QED BY <2>1, <2>2 DEF TypeOK
<1> QED
  BY <1>1, <1>2, PTL DEF Spec

LEMMA DataTyped == Spec => []DataOK
<1>1. TypeOK => DataOK
  BY DEF TypeOK
<1> QED BY <1>1, TypeCorrect, PTL


-----------------------------------------------------------------------------
(* The unassigned literals of S under the truth values f, counted. *)
CountIn(S, f) == Cardinality({l \in S : f[l[1]] = "UNKNOWN"})

(* The number of literals of p in S. *)
OccursIn(S, p) == (IF <<p, "PTRUE">> \in S THEN 1 ELSE 0)
                    + (IF <<p, "PFALSE">> \in S THEN 1 ELSE 0)

(* When exactly p goes from UNKNOWN under f to a value under g, the number of
   unassigned literals of S changes by the occurrences of p. *)
LEMMA Recount ==
  ASSUME NEW S \in SUBSET Literal, IsFiniteSet(S),
         NEW f, NEW g, NEW p \in Prop,
         f[p] = "UNKNOWN", g[p] # "UNKNOWN",
         \A q \in Prop \ {p} : g[q] = f[q]
  PROVE  CountIn(S, f) = CountIn(S, g) + OccursIn(S, p)
<1> DEFINE F == {l \in S : f[l[1]] = "UNKNOWN"}
           G == {l \in S : g[l[1]] = "UNKNOWN"}
           a == <<p, "PTRUE">>
           b == <<p, "PFALSE">>
<1>1. IsFiniteSet(F) /\ IsFiniteSet(F \ {a}) /\ IsFiniteSet(G)
  BY FS_Subset
<1>2. \A l \in S : l[1] = p <=> l = a \/ l = b
  BY DEF Literal
<1>3. \A l \in S : l[1] \in Prop
  BY DEF Literal
<1>4. G = (F \ {a}) \ {b}
  BY <1>2, <1>3
<1>5. (a \in F <=> a \in S) /\ (b \in F \ {a} <=> b \in S)
  BY <1>2
<1> HIDE DEF F, G, a, b
<1>6. Cardinality(G) = IF b \in F \ {a} THEN Cardinality(F \ {a}) - 1
                                        ELSE Cardinality(F \ {a})
  BY <1>1, <1>4, FS_RemoveElement
<1>7. Cardinality(F \ {a}) = IF a \in F THEN Cardinality(F) - 1 ELSE Cardinality(F)
  BY <1>1, FS_RemoveElement
<1>8. Cardinality(F) \in Nat /\ Cardinality(G) \in Nat /\ Cardinality(F \ {a}) \in Nat
  BY <1>1, FS_CardinalityType
<1>9. Cardinality(F) = Cardinality(G) + ((IF a \in S THEN 1 ELSE 0)
                                           + (IF b \in S THEN 1 ELSE 0))
  BY <1>5, <1>6, <1>7, <1>8
<1> QED
  BY <1>9 DEF F, G, a, b, CountIn, OccursIn

(* The caches are exact when they are exact but for the clauses of no set. *)
LEMMA ExactButForNone == CachesExact <=> CachesExactBut({})
<1>1. fringe = {c \in Active : IsUnit(c)} <=>
        fringe \subseteq Active /\ \A c \in Active : c \in fringe <=> IsUnit(c)
  OBVIOUS
<1>2. unsatisfied = {c \in Active : IsFalsified(c)} <=>
        /\ unsatisfied \subseteq Active
        /\ \A c \in Active : c \in unsatisfied <=> IsFalsified(c)
  OBVIOUS
<1>3. Active \ {} = Active
      /\ ((fringe \cup unsatisfied) \ {} \subseteq Active
             <=> fringe \subseteq Active /\ unsatisfied \subseteq Active)
  OBVIOUS
<1> QED
  BY <1>1, <1>2, <1>3 DEF CachesExact, CachesExactBut, ClauseExact

(* assign() repairs the caches of every clause whose caches were exact, whether a
   clause that the value satisfies was taken out of the fringe before or not. *)
LEMMA AssignCaches ==
  ASSUME DataOK, NEW K, CachesExactBut(K), UNCHANGED theoryVars,
         NEW c, NEW p \in Prop, NEW v \in {"PTRUE", "PFALSE"}, tv[p] = "UNKNOWN",
         NEW rest \in SUBSET fringe, \A d \in fringe \ rest : <<p, v>> \in lits[d],
         assign(p, v, c, rest)
  PROVE  CachesExactBut(K)'
<1> DEFINE Live == Active \ K
<1>1. tv' = [tv EXCEPT ![p] = v] /\ lits' = lits /\ Active' = Active
  BY DEF assign, theoryVars, Active
<1>2. Live \subseteq Active /\ Live \subseteq Clause
  BY DEF Active, DataOK
<1>3. /\ tv'[p] # "UNKNOWN"
      /\ \A q \in Prop \ {p} : tv'[q] = tv[q]
  BY <1>1 DEF DataOK
<1>4. ASSUME NEW d \in Live
      PROVE  /\ num_unassigned[d] \in Nat
             /\ count_unassigned(d)' = num_unassigned[d] - Occurrences(p, d)
             /\ count_unassigned(d)' \in Nat
  <2>1. IsFiniteSet(lits[d]) /\ lits[d] \in SUBSET Literal
    BY <1>2, FiniteLits DEF DataOK
  <2>2. CountIn(lits[d], tv) = CountIn(lits[d], tv') + OccursIn(lits[d], p)
    BY <1>3, <2>1, Recount
  <2>3. count_unassigned(d) = count_unassigned(d)' + Occurrences(p, d)
    BY <1>1, <2>2
    DEF count_unassigned, Unassigned, Occurrences, CountIn, OccursIn
  <2>4. count_unassigned(d)' \in Nat
    BY <1>1, <2>1, FS_Subset, FS_CardinalityType DEF count_unassigned, Unassigned
  <2> QED BY <2>3, <2>4, <1>2, FiniteLits DEF CachesExactBut, ClauseExact, Occurrences
<1>5. ASSUME NEW d \in Live
      PROVE  Satisfying(d)' = Satisfying(d) \cup ({<<p, v>>} \cap lits[d])
  BY <1>1, <1>2, <1>3 DEF Satisfying, DataOK, Literal
<1> DEFINE same == {d \in Active : <<p, v>> \in lits[d]}
           opposite == {d \in Active : <<p, Opposite(v)>> \in lits[d]}
           open == {d \in Active : satisfying_prop[d] = NULL}
           hit == (opposite \ same) \cap open
           left(d) == IF d \in Active THEN num_unassigned[d] - Occurrences(p, d)
                                      ELSE num_unassigned[d]
<1>6. /\ num_unassigned' = [d \in Clause |-> left(d)]
      /\ satisfying_prop' = [d \in Clause |->
            IF d \in same \cap open THEN p ELSE satisfying_prop[d]]
      /\ fringe' = (rest \ ((same \cap open) \cup hit))
                     \cup {d \in hit \ rest : left(d) = 1}
      /\ unsatisfied' = unsatisfied \cup (hit \cap rest)
  BY DEF assign
<1>7. \A d \in Live : /\ d \in open <=> Satisfying(d) = {}
                      /\ d \in open \ same <=> Satisfying(d)' = {}
  BY <1>2, <1>5, NullAssumption DEF CachesExactBut, ClauseExact, Satisfying, DataOK, Literal
<1>8. \A d \in Live : Occurrences(p, d) = (IF d \in same THEN 1 ELSE 0)
                                              + (IF d \in opposite THEN 1 ELSE 0)
  BY DEF Occurrences, Opposite
<1>9. \A d \in Live : d \in fringe \ rest => d \in same \cap open
  BY <1>7 DEF CachesExactBut, ClauseExact, IsUnit
<1>10. \A d \in Live : num_unassigned[d] \in Nat /\ left(d) = count_unassigned(d)'
  BY <1>4
<1>11. \A d \in Live : /\ d \in fringe <=> d \in open /\ num_unassigned[d] = 1
                       /\ d \in unsatisfied <=> d \in open /\ num_unassigned[d] = 0
  BY <1>7 DEF CachesExactBut, ClauseExact, IsUnit, IsFalsified
<1>12. ASSUME NEW d \in Live
       PROVE  /\ num_unassigned'[d] = count_unassigned(d)'
              /\ IF Satisfying(d)' = {}
                   THEN satisfying_prop'[d] = NULL
                   ELSE \E l \in Satisfying(d)' : l[1] = satisfying_prop'[d]
  <2>1. num_unassigned'[d] = count_unassigned(d)'
    BY <1>2, <1>6, <1>10
  <2>2. CASE d \in open \ same
    BY <1>2, <1>6, <1>7, <2>1, <2>2
  <2>3. CASE d \in open \cap same
    <3>1. satisfying_prop'[d] = p /\ <<p, v>> \in Satisfying(d)'
      BY <1>2, <1>5, <1>6, <2>3
    <3> QED BY <2>1, <3>1
  <2>4. CASE d \notin open
    <3>1. satisfying_prop'[d] = satisfying_prop[d]
      BY <1>2, <1>6, <2>4
    <3>2. PICK l \in Satisfying(d) : l[1] = satisfying_prop[d]
      BY <1>7, <2>4 DEF CachesExactBut, ClauseExact
    <3>3. l \in Satisfying(d)'
      BY <1>5, <3>2
    <3> QED BY <2>1, <3>1, <3>2, <3>3
  <2> QED BY <2>2, <2>3, <2>4
<1> HIDE DEF same, opposite, open, left
<1>13. ASSUME NEW d \in Live
       PROVE  /\ d \in fringe' <=> d \in open \ same /\ left(d) = 1
              /\ d \in unsatisfied' <=> d \in open \ same /\ left(d) = 0
  <2>1. /\ left(d) = num_unassigned[d] - ((IF d \in same THEN 1 ELSE 0)
                                            + (IF d \in opposite THEN 1 ELSE 0))
        /\ left(d) \in Nat /\ num_unassigned[d] \in Nat
    BY <1>4, <1>8 DEF left
  <2>2. /\ d \in fringe <=> d \in open /\ num_unassigned[d] = 1
        /\ d \in unsatisfied <=> d \in open /\ num_unassigned[d] = 0
    BY <1>11
  <2>3. /\ d \in fringe' <=>
             \/ d \in rest /\ d \notin same \cap open /\ d \notin hit
             \/ d \in hit /\ d \notin rest /\ left(d) = 1
        /\ d \in unsatisfied' <=> d \in unsatisfied \/ (d \in hit /\ d \in rest)
    BY <1>6, Zenon
  <2>4. /\ d \in rest => d \in fringe
        /\ d \in fringe /\ d \notin rest => d \in same /\ d \in open
    BY <1>9
  <2> QED BY <2>1, <2>2, <2>3, <2>4
<1>14. (fringe' \cup unsatisfied') \ K \subseteq Active
  BY <1>6 DEF CachesExactBut, open, opposite
<1>15. \A d \in Live : /\ d \in fringe' <=> IsUnit(d)'
                       /\ d \in unsatisfied' <=> IsFalsified(d)'
  BY <1>7, <1>10, <1>13 DEF IsUnit, IsFalsified
<1> QED
  BY <1>1, <1>12, <1>14, <1>15 DEF CachesExactBut, ClauseExact

(* unassign() repairs the caches of every clause whose caches were exact. *)
LEMMA UnassignCaches ==
  ASSUME DataOK, NEW K, CachesExactBut(K), UNCHANGED theoryVars,
         NEW p \in Prop, tv[p] # "UNKNOWN", unassign(p)
  PROVE  CachesExactBut(K)'
<1> DEFINE v == tv[p]
           Live == Active \ K
<1>1. /\ tv' = [tv EXCEPT ![p] = "UNKNOWN"] /\ lits' = lits /\ Active' = Active
      /\ v \in {"PTRUE", "PFALSE"}
  BY DEF unassign, theoryVars, Active, DataOK
<1>2. Live \subseteq Active /\ Live \subseteq Clause
  BY DEF Active, DataOK
<1>3. /\ tv'[p] = "UNKNOWN"
      /\ \A q \in Prop \ {p} : tv[q] = tv'[q]
  BY <1>1 DEF DataOK
<1>4. ASSUME NEW d \in Live
      PROVE  /\ num_unassigned[d] \in Nat
             /\ count_unassigned(d)' = num_unassigned[d] + Occurrences(p, d)
  <2>1. IsFiniteSet(lits[d]) /\ lits[d] \in SUBSET Literal
    BY <1>2, FiniteLits DEF DataOK
  <2>2. CountIn(lits[d], tv') = CountIn(lits[d], tv) + OccursIn(lits[d], p)
    BY <1>3, <2>1, Recount
  <2>3. count_unassigned(d)' = count_unassigned(d) + Occurrences(p, d)
    BY <1>1, <2>2
    DEF count_unassigned, Unassigned, Occurrences, CountIn, OccursIn
  <2> QED BY <2>3, <1>2, FiniteLits DEF CachesExactBut, ClauseExact, Occurrences
<1>5. ASSUME NEW d \in Live
      PROVE  Satisfying(d)' = Satisfying(d) \ {<<p, v>>}
  BY <1>1, <1>2, <1>3 DEF Satisfying, DataOK, Literal
<1> DEFINE same == {d \in Active : <<p, v>> \in lits[d]}
           opposite == {d \in Active : <<p, Opposite(v)>> \in lits[d]}
           others(d) == Satisfying(d) \ {<<p, v>>}
           resatisfied(d) == IF others(d) = {} THEN NULL
                             ELSE (CHOOSE l \in others(d) : TRUE)[1]
           lost == {d \in same : satisfying_prop[d] = p /\ others(d) = {}}
           reopened == fringe \cup {d \in lost : num_unassigned[d] + 1 = 1}
           more(d) == IF d \in Active THEN num_unassigned[d] + Occurrences(p, d)
                                      ELSE num_unassigned[d]
<1>6. /\ num_unassigned' = [d \in Clause |-> more(d)]
      /\ satisfying_prop' = [d \in Clause |->
            IF d \in same /\ satisfying_prop[d] = p
              THEN resatisfied(d) ELSE satisfying_prop[d]]
      /\ fringe' = (reopened \ opposite) \cup (opposite \cap unsatisfied)
      /\ unsatisfied' = unsatisfied \ opposite
  BY DEF unassign
<1>7. ASSUME NEW d \in Live
      PROVE  /\ satisfying_prop[d] = NULL <=> Satisfying(d) = {}
             /\ d \in same <=> <<p, v>> \in Satisfying(d)
             /\ Satisfying(d)' = {} <=> Satisfying(d) = {} \/ d \in lost
  <2>1. d \in same <=> <<p, v>> \in Satisfying(d)
    BY DEF Satisfying
  <2>2. satisfying_prop[d] = NULL <=> Satisfying(d) = {}
    BY <1>2, NullAssumption DEF CachesExactBut, ClauseExact, Satisfying, DataOK, Literal
  <2>3. Satisfying(d) = {<<p, v>>} => satisfying_prop[d] = p
    <3>1. Satisfying(d) # {} =>
            \E l \in Satisfying(d) : l[1] = satisfying_prop[d]
      BY DEF CachesExactBut, ClauseExact
    <3> QED BY <3>1
  <2> QED BY <1>5, <2>1, <2>2, <2>3
<1>8. \A d \in Live : Occurrences(p, d) = (IF d \in same THEN 1 ELSE 0)
                                              + (IF d \in opposite THEN 1 ELSE 0)
  BY <1>1 DEF Occurrences, Opposite
<1>9. \A d \in Live : num_unassigned[d] \in Nat /\ more(d) = count_unassigned(d)'
  BY <1>4
<1>10. ASSUME NEW d \in Live
       PROVE  /\ num_unassigned'[d] = count_unassigned(d)'
              /\ IF Satisfying(d)' = {}
                   THEN satisfying_prop'[d] = NULL
                   ELSE \E l \in Satisfying(d)' : l[1] = satisfying_prop'[d]
  <2>1. num_unassigned'[d] = count_unassigned(d)'
    BY <1>2, <1>6, <1>9
  <2>2. CASE d \in same /\ satisfying_prop[d] = p
    <3>1. satisfying_prop'[d] = resatisfied(d)
      BY <1>2, <1>6, <2>2
    <3>2. CASE others(d) = {}
      BY <1>5, <2>1, <3>1, <3>2
    <3>3. CASE others(d) # {}
      <4>1. (CHOOSE l \in others(d) : TRUE) \in Satisfying(d)'
        BY <1>5, <3>3
      <4> QED BY <2>1, <3>1, <3>3, <4>1
    <3> QED BY <3>2, <3>3
  <2>3. CASE ~(d \in same /\ satisfying_prop[d] = p)
    <3>1. satisfying_prop'[d] = satisfying_prop[d]
      BY <1>2, <1>6, <2>3
    <3>2. CASE Satisfying(d) = {}
      BY <1>5, <1>7, <2>1, <3>1, <3>2
    <3>3. CASE Satisfying(d) # {}
      <4>1. PICK l \in Satisfying(d) : l[1] = satisfying_prop[d]
        BY <3>3 DEF CachesExactBut, ClauseExact
      <4>2. l # <<p, v>>
        BY <1>7, <2>3, <4>1
      <4>3. l \in Satisfying(d)'
        BY <1>5, <4>1, <4>2
      <4> QED BY <2>1, <3>1, <4>1, <4>3
    <3> QED BY <3>2, <3>3
  <2> QED BY <2>2, <2>3
<1>11. \A d \in Live :
         /\ d \in fringe <=> Satisfying(d) = {} /\ num_unassigned[d] = 1
         /\ d \in unsatisfied <=> Satisfying(d) = {} /\ num_unassigned[d] = 0
  BY DEF CachesExactBut, ClauseExact, IsUnit, IsFalsified
<1>12. (fringe' \cup unsatisfied') \ K \subseteq Active
  BY <1>6 DEF CachesExactBut
<1>13. \A d \in Live :
         d \in reopened <=> d \in fringe \/ (d \in lost /\ num_unassigned[d] + 1 = 1)
  OBVIOUS
<1> HIDE DEF same, opposite, lost, reopened, more, v
<1>14. ASSUME NEW d \in Live
       PROVE  /\ d \in fringe' <=> Satisfying(d)' = {} /\ more(d) = 1
              /\ d \in unsatisfied' <=> Satisfying(d)' = {} /\ more(d) = 0
  <2>1. /\ more(d) = num_unassigned[d] + ((IF d \in same THEN 1 ELSE 0)
                                            + (IF d \in opposite THEN 1 ELSE 0))
        /\ num_unassigned[d] \in Nat
    BY <1>4, <1>8 DEF more
  <2>2. /\ d \in fringe' <=> \/ (d \in reopened /\ d \notin opposite)
                             \/ (d \in opposite /\ d \in unsatisfied)
        /\ d \in unsatisfied' <=> d \in unsatisfied /\ d \notin opposite
    BY <1>6
  <2>3. /\ d \in lost => d \in same
        /\ d \in same => Satisfying(d) # {}
    BY <1>7 DEF lost
  <2> QED BY <1>7, <1>11, <1>13, <2>1, <2>2, <2>3
<1>15. \A d \in Live : /\ d \in fringe' <=> IsUnit(d)'
                       /\ d \in unsatisfied' <=> IsFalsified(d)'
  BY <1>9, <1>14 DEF IsUnit, IsFalsified
<1> QED
  BY <1>1, <1>10, <1>12, <1>15 DEF CachesExactBut, ClauseExact

(* The caches of a clause depend on its literals and their values alone. *)
LEMMA SameCaches ==
  ASSUME NEW c \in Clause, lits'[c] = lits[c],
         \A p \in PropsOf(c) : tv'[p] = tv[p]
  PROVE  /\ Satisfying(c)' = Satisfying(c)
         /\ Unassigned(c)' = Unassigned(c)
         /\ count_unassigned(c)' = count_unassigned(c)
         /\ IsUnit(c)' <=> IsUnit(c)
         /\ IsFalsified(c)' <=> IsFalsified(c)
<1>1. \A l \in lits[c] : tv'[l[1]] = tv[l[1]]
  BY DEF PropsOf
<1>2. Satisfying(c)' = Satisfying(c) /\ Unassigned(c)' = Unassigned(c)
  BY <1>1 DEF Satisfying, Unassigned
<1> QED
  BY <1>2 DEF count_unassigned, IsUnit, IsFalsified

(* Every step repairs the caches it disturbs, of every clause whose caches were
   exact. *)
LEMMA CachesStep ==
  ASSUME DataOK, NEW K, CachesExactBut(K), [Next]_vars
  PROVE  CachesExactBut(K)'
<1> DEFINE Live == Active \ K
<1>a. Live \subseteq Active /\ Live \subseteq Clause
  BY DEF Active, DataOK
<1>b. CASE UNCHANGED <<theoryVars, cacheVars, tv>>
  <2>1. \A c \in Live :
          /\ Satisfying(c)' = Satisfying(c)
          /\ count_unassigned(c)' = count_unassigned(c)
    BY <1>a, <1>b, SameCaches DEF theoryVars
  <2> QED
    BY <1>b, <2>1
    DEF CachesExactBut, ClauseExact, Active, IsUnit, IsFalsified, theoryVars, cacheVars
<1>1. ASSUME NEW c \in Clause, NEW body \in Bodies, create_clause(c, body)
      PROVE  CachesExactBut(K)'
  <2>1. Active' = Active /\ c \notin Active
    BY <1>1 DEF create_clause, Active, DataOK
  <2>2. \A d \in Live :
          /\ Satisfying(d)' = Satisfying(d)
          /\ count_unassigned(d)' = count_unassigned(d)
          /\ num_unassigned'[d] = num_unassigned[d]
          /\ satisfying_prop'[d] = satisfying_prop[d]
    BY <1>1, <1>a, <2>1, SameCaches DEF create_clause, DataOK
  <2> QED
    BY <1>1, <2>1, <2>2
    DEF create_clause, CachesExactBut, ClauseExact, IsUnit, IsFalsified
<1>2. ASSUME NEW c \in Clause, add(c) PROVE CachesExactBut(K)'
  <2>1. Active' = Active \cup {c} /\ c \notin Active
    BY <1>2 DEF add, Active, DataOK
  <2>2. \A d \in Clause :
          /\ Satisfying(d)' = Satisfying(d)
          /\ count_unassigned(d)' = count_unassigned(d)
          /\ IsUnit(d)' <=> IsUnit(d)
          /\ IsFalsified(d)' <=> IsFalsified(d)
    BY <1>2, SameCaches DEF add
  <2>3. /\ num_unassigned'[c] = count_unassigned(c)
        /\ satisfying_prop'[c] = find_satisfying_prop(c)
        /\ \A d \in Live : /\ num_unassigned'[d] = num_unassigned[d]
                           /\ satisfying_prop'[d] = satisfying_prop[d]
    BY <1>2, <1>a, <2>1 DEF add, DataOK
  <2>4. IF Satisfying(c) = {}
          THEN find_satisfying_prop(c) = NULL
          ELSE \E l \in Satisfying(c) : l[1] = find_satisfying_prop(c)
    BY DEF find_satisfying_prop
  <2>5. c \notin K => c \notin fringe \cup unsatisfied
    BY <2>1 DEF CachesExactBut
  <2>6. /\ fringe' = IF IsUnit(c) THEN fringe \cup {c} ELSE fringe
        /\ unsatisfied' = IF IsFalsified(c) THEN unsatisfied \cup {c} ELSE unsatisfied
    BY <1>2 DEF add
  <2>7. ASSUME c \notin K PROVE ClauseExact(c)'
    BY <2>2, <2>3, <2>4, <2>5, <2>6, <2>7 DEF ClauseExact
  <2>8. ASSUME NEW d \in Live PROVE ClauseExact(d)'
    <3>1. d # c /\ d \in Clause /\ ClauseExact(d)
      BY <1>a, <2>1 DEF CachesExactBut
    <3> QED BY <2>2, <2>3, <2>6, <3>1 DEF ClauseExact
  <2>9. (fringe' \cup unsatisfied') \ K \subseteq Active'
    BY <2>1, <2>6 DEF CachesExactBut
  <2> QED BY <2>1, <2>7, <2>8, <2>9 DEF CachesExactBut
<1>3. ASSUME NEW c \in Clause, remove(c) PROVE CachesExactBut(K)'
  <2>1. Active' = Active \ {c} /\ c \in Active
    BY <1>3 DEF remove, Active
  <2>2. \A d \in Clause :
          /\ Satisfying(d)' = Satisfying(d)
          /\ count_unassigned(d)' = count_unassigned(d)
    BY <1>3, SameCaches DEF remove
  <2>3. c \notin K => ~(c \in fringe /\ c \in unsatisfied)
    BY <2>1 DEF CachesExactBut, ClauseExact, IsUnit, IsFalsified
  <2>4. /\ fringe' = fringe \ {c}
        /\ unsatisfied' = IF c \in fringe THEN unsatisfied ELSE unsatisfied \ {c}
        /\ num_unassigned' = num_unassigned /\ satisfying_prop' = satisfying_prop
    BY <1>3 DEF remove
  <2>5. \A d \in Live \ {c} : ClauseExact(d)'
    BY <1>a, <2>2, <2>4 DEF CachesExactBut, ClauseExact, IsUnit, IsFalsified
  <2>6. (fringe' \cup unsatisfied') \ K \subseteq Active \ {c}
    BY <2>3, <2>4 DEF CachesExactBut
  <2> QED BY <2>1, <2>5, <2>6 DEF CachesExactBut
<1>4. ASSUME NEW D \in SUBSET Prop, finish_destroying(D) PROVE CachesExactBut(K)'
  <2> DEFINE doomed == {c \in clauses : PropsOf(c) \cap D # {}}
  <2>1. Active' = Active \ doomed
    BY <1>4 DEF finish_destroying, Active, DataOK
  <2>2. \A d \in Live \ doomed : d \in clauses /\ PropsOf(d) \cap D = {}
    BY DEF Active
  <2>3. \A d \in Live \ doomed :
          /\ lits'[d] = lits[d]
          /\ \A q \in PropsOf(d) : tv'[q] = tv[q]
    BY <1>4, <1>a, <2>2 DEF finish_destroying, PropsOf, DataOK, Literal
  <2>4. \A d \in Live \ doomed :
          /\ Satisfying(d)' = Satisfying(d)
          /\ count_unassigned(d)' = count_unassigned(d)
    BY <1>a, <2>3, SameCaches
  <2>5. /\ fringe' = fringe \ doomed /\ unsatisfied' = unsatisfied \ doomed
        /\ num_unassigned' = num_unassigned /\ satisfying_prop' = satisfying_prop
    BY <1>4 DEF finish_destroying
  <2> HIDE DEF doomed
  <2> QED
    BY <2>1, <2>4, <2>5 DEF CachesExactBut, ClauseExact, IsUnit, IsFalsified
<1>5. CASE propagate
  BY <1>5, <1>b DEF propagate, supportVars
<1>6. ASSUME NEW c \in Clause, last_conflict(c) PROVE CachesExactBut(K)'
  BY <1>6, <1>b DEF last_conflict, supportVars
<1>7. ASSUME NEW p \in Prop, undo_propagations(p) PROVE CachesExactBut(K)'
  <2>1. CASE tv[p] = "UNKNOWN"
    BY <1>7, <1>b, <2>1 DEF undo_propagations
  <2>2. CASE tv[p] # "UNKNOWN"
    BY <1>7, <2>2, UnassignCaches DEF undo_propagations
  <2> QED BY <2>1, <2>2
<1>8. CASE undo_propagations_return
  BY <1>8, <1>b DEF undo_propagations_return, supportVars
<1>9. ASSUME NEW c \in Clause, propagate_clause(c) PROVE CachesExactBut(K)'
  <2>1. PICK l \in Unassigned(c) : assign(l[1], l[2], c, fringe \ {c})
    BY <1>9 DEF propagate_clause
  <2>2. /\ l[1] \in Prop /\ l[2] \in {"PTRUE", "PFALSE"}
        /\ <<l[1], l[2]>> \in lits[c] /\ tv[l[1]] = "UNKNOWN"
    BY DEF Unassigned, DataOK, Literal
  <2>3. /\ UNCHANGED theoryVars /\ fringe \ {c} \in SUBSET fringe
        /\ \A d \in fringe \ (fringe \ {c}) : <<l[1], l[2]>> \in lits[d]
    BY <1>9, <2>2 DEF propagate_clause, FringeClauses
  <2> QED BY <2>1, <2>2, <2>3, AssignCaches
<1>10. CASE propagate_return
  BY <1>10, <1>b DEF propagate_return, supportVars
<1>11. ASSUME NEW c \in Clause, get_clause_support(c) PROVE CachesExactBut(K)'
  BY <1>11, <1>b DEF get_clause_support, supportVars
<1>12. CASE last_conflict_return
  BY <1>12, <1>b DEF last_conflict_return, supportVars
<1>13. CASE UNCHANGED vars
  BY <1>13, <1>b DEF vars, supportVars
<1> QED
  BY <1>1, <1>2, <1>3, <1>4, <1>5, <1>6, <1>7, <1>8, <1>9, <1>10, <1>11, <1>12,
     <1>13 DEF Next, Call, Run

LEMMA CachesStepExact == DataOK /\ CachesExact /\ [Next]_vars => CachesExact'
<1>1. (CachesExact <=> CachesExactBut({}))'
  BY ExactButForNone, PTL
<1>2. DataOK /\ CachesExactBut({}) /\ [Next]_vars => CachesExactBut({})'
  BY CachesStep
<1> QED BY <1>1, <1>2, ExactButForNone

(* The caches agree with the truth values in every state: the counts, the
   satisfying propositions, the fringe and the unsatisfied list. *)
THEOREM CachesAlwaysExact == Spec => []CachesExact
<1>1. Init => CachesExact
  BY DEF Init, CachesExact, Active
<1>2. DataOK /\ CachesExact /\ [Next]_vars => CachesExact'
  BY CachesStepExact
<1> QED
  BY <1>1, <1>2, DataTyped, PTL DEF Spec

-----------------------------------------------------------------------------
(* What the LTMS answers *)

(* Between calls, and in calls that do not retract, nothing waits for undo. *)
UndoOnlyInRetraction ==
  pc \notin {"remove", "finish_destroying"} => undo_list = {}

JInv == JustificationsExact /\ UndoOnlyInRetraction

(* A justified value satisfies its clause, and the clause has no UNKNOWN
   proposition. *)
LEMMA JustifiedClause ==
  ASSUME DataOK, NEW c \in Clause, NEW p \in Assigned, Justifies(c, p)
  PROVE  /\ Satisfying(c) # {}
         /\ \A q \in PropsOf(c) : tv[q] # "UNKNOWN"
         /\ p \in PropsOf(c)
<1>1. <<p, tv[p]>> \in Satisfying(c)
  BY DEF Justifies, Satisfying
<1>2. \A l \in lits[c] : tv[l[1]] # "UNKNOWN"
  BY DEF Justifies, Assigned, Opposite
<1> QED
  BY <1>1, <1>2 DEF PropsOf, Justifies

(* An open clause supports nothing. *)
LEMMA OpenSupportsNothing ==
  ASSUME DataOK, JustificationsExact, NEW c \in Clause, Satisfying(c) = {}
  PROVE  supports[c] = NULL
<1> SUFFICES ASSUME supports[c] # NULL PROVE FALSE
  OBVIOUS
<1> DEFINE p == supports[c]
<1>1. p \in Prop /\ supported_by[p] = c /\ p \notin undo_list
  BY DEF JustificationsExact, JustifiedBut, DataOK
<1>2. p \in Assigned
  BY <1>1, NullAssumption DEF JustificationsExact, JustifiedBut, Assigned
<1>3. Justifies(c, p)
  BY <1>1, <1>2 DEF JustificationsExact, JustifiedBut
<1> QED
  BY <1>2, <1>3, JustifiedClause

(* A clause keeps justifying p while its literals and their values stay. *)
LEMMA StillJustifies ==
  ASSUME NEW c \in Clause, NEW p \in Prop, Justifies(c, p), lits'[c] = lits[c],
         \A q \in PropsOf(c) : tv'[q] = tv[q]
  PROVE  Justifies(c, p)'
<1>1. \A l \in lits[c] : tv'[l[1]] = tv[l[1]]
  BY DEF PropsOf
<1>2. tv'[p] = tv[p]
  BY DEF Justifies, PropsOf
<1> QED
  BY <1>1, <1>2 DEF Justifies

(* A step of propagate() gives a justified value and disturbs no other. *)
LEMMA PropagateJustifies ==
  ASSUME DataOK, CachesExact, JInv, NEW c \in Clause, propagate_clause(c)
  PROVE  JInv'
<1>1. PICK l \in Unassigned(c) : /\ assign(l[1], l[2], c, fringe \ {c})
                                 /\ supports' = [supports EXCEPT ![c] = l[1]]
  BY DEF propagate_clause
<1> DEFINE p == l[1]
           v == l[2]
<1>2. /\ p \in Prop /\ v \in {"PTRUE", "PFALSE"} /\ l = <<p, v>>
      /\ l \in lits[c] /\ tv[p] = "UNKNOWN"
  BY DEF Unassigned, DataOK, Literal
<1>3. /\ tv' = [tv EXCEPT ![p] = v] /\ supported_by' = [supported_by EXCEPT ![p] = c]
      /\ lits' = lits /\ Active' = Active /\ undo_list' = undo_list /\ pc' = pc
      /\ undo_list = {} /\ c \in fringe
  BY <1>1 DEF assign, propagate_clause, theoryVars, Active, FringeClauses, JInv,
              UndoOnlyInRetraction
<1>4. c \in Active /\ Satisfying(c) = {} /\ count_unassigned(c) = 1
  BY <1>3 DEF CachesExact, IsUnit
<1>5. Unassigned(c) = {l}
  <2>1. PICK x : Unassigned(c) = {x}
    BY <1>4, FiniteLits, FS_Singleton DEF count_unassigned
  <2> QED BY <1>1, <2>1
<1>6. Justifies(c, p)'
  <2>1. \A k \in lits[c] \ {l} : k[1] # p
    BY <1>2, <1>5 DEF Unassigned
  <2>2. \A k \in lits[c] \ {l} : tv[k[1]] = Opposite(k[2])
    BY <1>4, <1>5 DEF Unassigned, Satisfying, DataOK, Literal, Opposite
  <2>3. \A k \in lits[c] \ {l} : tv'[k[1]] = tv[k[1]]
    BY <1>3, <2>1 DEF DataOK, Literal
  <2>4. tv'[p] = v
    BY <1>2, <1>3 DEF DataOK
  <2> QED BY <1>2, <1>3, <2>1, <2>2, <2>3, <2>4 DEF Justifies
<1>7. Assigned' = Assigned \cup {p} /\ p \notin Assigned
  BY <1>2, <1>3 DEF Assigned, DataOK
<1>8. ASSUME NEW q \in Assigned
      PROVE  /\ q # p /\ supported_by'[q] = supported_by[q]
             /\ supported_by[q] \in Active /\ supported_by[q] # c
             /\ supports'[supported_by[q]] = q
             /\ Justifies(supported_by[q], q)'
  <2> DEFINE d == supported_by[q]
  <2>1. q # p /\ q \in Prop /\ d \in Active /\ d \in Clause /\ supports[d] = q
        /\ Justifies(d, q)
    BY <1>3, <1>7 DEF JInv, JustificationsExact, JustifiedBut, Assigned, Active, DataOK
  <2>2. d # c
    BY <1>4, <2>1, JustifiedClause
  <2>3. \A r \in PropsOf(d) : tv[r] # "UNKNOWN" /\ tv'[r] = tv[r]
    <3>1. \A r \in PropsOf(d) : tv[r] # "UNKNOWN" /\ r \in Prop
      BY <2>1, JustifiedClause DEF PropsOf, DataOK, Literal
    <3> QED BY <1>2, <1>3, <3>1 DEF DataOK
  <2>4. Justifies(d, q)'
    BY <1>3, <2>1, <2>3, StillJustifies
  <2> QED BY <1>1, <1>3, <2>1, <2>2, <2>4 DEF DataOK
<1>9. supported_by'[p] = c /\ supports'[c] = p
  BY <1>1, <1>2, <1>3 DEF DataOK
<1>10. \A q \in Prop : tv'[q] = "UNKNOWN" <=> supported_by'[q] = NULL
  <2>1. \A q \in Prop \ {p} : tv'[q] = tv[q] /\ supported_by'[q] = supported_by[q]
    BY <1>3 DEF DataOK
  <2>2. tv'[p] # "UNKNOWN" /\ supported_by'[p] # NULL
    BY <1>2, <1>3, <1>9, NullAssumption DEF DataOK
  <2> QED BY <2>1, <2>2 DEF JInv, JustificationsExact, JustifiedBut
<1>11. ASSUME NEW d \in Clause, supports'[d] # NULL
       PROVE  d \in Active /\ supported_by'[supports'[d]] = d
  <2>1. CASE d = c
    BY <1>4, <1>9, <2>1
  <2>2. CASE d # c
    <3>1. supports'[d] = supports[d]
      BY <1>1, <2>2 DEF DataOK
    <3>2. supports[d] \in Assigned /\ d \in Active /\ supported_by[supports[d]] = d
      BY <1>11, <3>1, NullAssumption DEF JInv, JustificationsExact, JustifiedBut, Assigned, DataOK
    <3> QED BY <1>8, <3>1, <3>2
  <2> QED BY <2>1, <2>2
<1>12. JustificationsExact'
  <2>1. \A q \in Assigned' \ undo_list' :
          /\ supported_by'[q] \in Active'
          /\ supports'[supported_by'[q]] = q
          /\ Justifies(supported_by[q], q)'
    <3> TAKE q \in Assigned' \ undo_list'
    <3>1. CASE q = p
      BY <1>3, <1>4, <1>6, <1>9, <3>1
    <3>2. CASE q # p
      BY <1>3, <1>7, <1>8, <3>2
    <3> QED BY <3>1, <3>2
  <2> QED BY <1>3, <1>10, <1>11, <2>1 DEF JustificationsExact, JustifiedBut
<1> QED
  BY <1>3, <1>12 DEF JInv, UndoOnlyInRetraction

(* unassign() queues exactly the values whose clause it leaves open. *)
LEMMA UnassignJustifies ==
  ASSUME DataOK, CachesExact, NEW U, JustifiedBut(U), NEW p \in U,
         undo_list \ {p} = U \ {p}, unassign(p), UNCHANGED theoryVars
  PROVE  JustificationsExact'
<1> DEFINE v == tv[p]
           same == {d \in Active : <<p, v>> \in lits[d]}
           opposite == {d \in Active : <<p, Opposite(v)>> \in lits[d]}
           lost == {d \in same : satisfying_prop[d] = p
                                   /\ Satisfying(d) \ {<<p, v>>} = {}}
           reopened == fringe \cup {d \in lost : num_unassigned[d] + 1 = 1}
           released == {d \in opposite \ (unsatisfied \cup reopened) :
                          supports[d] # NULL}
<1>1. /\ tv' = [tv EXCEPT ![p] = "UNKNOWN"]
      /\ supported_by' = [supported_by EXCEPT ![p] = NULL]
      /\ supports' = [d \in Clause |-> IF d \in released THEN NULL ELSE supports[d]]
      /\ undo_list' = (undo_list \ {p}) \cup {supports[d] : d \in released}
      /\ lits' = lits /\ Active' = Active
  BY DEF unassign, theoryVars, Active
<1>a. undo_list' = (U \ {p}) \cup {supports[d] : d \in released}
  BY <1>1
<1>2. p \in Prop /\ p \in Assigned /\ Active \subseteq Clause
  BY DEF JustifiedBut, Assigned, DataOK, Active
<1>3. Assigned' = Assigned \ {p}
  BY <1>1, <1>a, <1>2 DEF Assigned, DataOK
<1>4. \A d \in Clause : supports[d] # NULL =>
        /\ supports[d] \in Assigned /\ supports[d] # p /\ supports[d] \notin U
        /\ supported_by[supports[d]] = d /\ d \in Active
  BY NullAssumption DEF JustifiedBut, Assigned, DataOK
<1>5. ASSUME NEW d \in Clause, supports[d] # NULL, p \in PropsOf(d)
      PROVE  d \in released
  <2> DEFINE q == supports[d]
  <2>1. q \in Assigned \ U /\ q # p /\ d \in Active /\ Justifies(d, q)
    BY <1>4, <1>5 DEF JustifiedBut
  <2>2. PICK k \in lits[d] : k[1] = p
    BY <1>5 DEF PropsOf
  <2>3. k \in Literal /\ k = <<p, k[2]>> /\ k[2] \in {"PTRUE", "PFALSE"}
    BY <2>2 DEF DataOK, Literal
  <2>4. tv[p] = Opposite(k[2])
    BY <2>1, <2>2, <2>3 DEF Justifies
  <2>5. k[2] = Opposite(v)
    BY <2>3, <2>4 DEF Opposite
  <2>6. d \in opposite
    BY <2>1, <2>2, <2>3, <2>5
  <2>7. Satisfying(d) # {}
    BY <2>1, JustifiedClause
  <2>8. d \notin unsatisfied /\ d \notin fringe
    BY <2>7 DEF CachesExact, IsUnit, IsFalsified
  <2>9. <<q, tv[q]>> \in Satisfying(d) \ {<<p, v>>}
    BY <2>1 DEF Justifies, Satisfying
  <2>10. d \notin lost
    BY <2>9
  <2> QED BY <1>5, <2>6, <2>8, <2>10
<1>6. released \subseteq Clause
  BY <1>2
<1> HIDE DEF released
<1>7. \A q \in Prop : tv'[q] = "UNKNOWN" <=> supported_by'[q] = NULL
  BY <1>1, <1>a, <1>2 DEF JustifiedBut, DataOK
<1>8. ASSUME NEW q \in Assigned' \ undo_list'
      PROVE  /\ supported_by'[q] \in Active'
             /\ supports'[supported_by'[q]] = q
             /\ Justifies(supported_by[q], q)'
  <2> DEFINE d == supported_by[q]
  <2>1. q \in Prop /\ q # p /\ q \in Assigned \ U
    BY <1>1, <1>a, <1>3 DEF Assigned
  <2>2. d \in Active /\ d \in Clause /\ supports[d] = q /\ Justifies(d, q)
    BY <1>2, <2>1 DEF JustifiedBut
  <2>3. q # NULL
    BY <2>1, NullAssumption
  <2>4. d \notin released
    BY <1>1, <1>a, <1>8, <2>2
  <2>5. p \notin PropsOf(d)
    BY <1>5, <2>2, <2>3, <2>4
  <2>6. \A r \in PropsOf(d) : tv'[r] = tv[r]
    <3>1. PropsOf(d) \subseteq Prop
      BY <2>2 DEF PropsOf, DataOK, Literal
    <3> QED BY <1>1, <1>a, <2>5, <3>1 DEF DataOK
  <2>7. Justifies(d, q)'
    BY <1>1, <1>a, <2>1, <2>2, <2>6, StillJustifies
  <2>8. supported_by'[q] = d
    BY <1>1, <1>a, <2>1 DEF DataOK
  <2> QED BY <1>1, <1>a, <2>2, <2>4, <2>7, <2>8
<1>9. ASSUME NEW d \in Clause, supports'[d] # NULL
      PROVE  /\ d \in Active'
             /\ supports'[d] \notin undo_list'
             /\ supported_by'[supports'[d]] = d
  <2>1. supports'[d] = supports[d] /\ d \notin released
    BY <1>1, <1>a, <1>9
  <2>2. \A e \in released : supports[e] # supports[d]
    BY <1>4, <1>6, <1>9, <2>1
  <2> QED BY <1>1, <1>a, <1>4, <1>9, <2>1, <2>2 DEF DataOK, Assigned
<1>10. undo_list' \subseteq Assigned'
  <2>1. \A e \in released : supports[e] \in Assigned /\ supports[e] # p
    BY <1>4, <1>6 DEF released
  <2> QED BY <1>1, <1>a, <1>3, <2>1 DEF JustifiedBut
<1> QED
  BY <1>7, <1>8, <1>9, <1>10 DEF JustificationsExact, JustifiedBut

(* Every step keeps the justifications. *)
LEMMA JustificationsStep == DataOK /\ CachesExact /\ JInv /\ [Next]_vars => JInv'
<1> SUFFICES ASSUME DataOK, CachesExact, JInv, [Next]_vars PROVE JInv'
  OBVIOUS
<1>a. Active \subseteq Clause
  BY DEF Active, DataOK
<1>b. CASE UNCHANGED <<theoryVars, supportVars>> /\ UndoOnlyInRetraction'
  BY <1>b
  DEF JInv, JustificationsExact, JustifiedBut, Assigned, Active, Justifies, theoryVars, supportVars
<1>c. \A c \in Clause : supports[c] # NULL =>
        /\ supports[c] \in Assigned \ undo_list
        /\ supported_by[supports[c]] = c /\ c \in Active
  BY NullAssumption DEF JInv, JustificationsExact, JustifiedBut, Assigned, DataOK
<1>1. ASSUME NEW c \in Clause, NEW body \in Bodies, create_clause(c, body)
      PROVE  JInv'
  <2>1. /\ Active' = Active /\ c \notin Active /\ tv' = tv
        /\ supported_by' = supported_by /\ undo_list' = undo_list /\ pc' = pc
        /\ \A d \in Clause \ {c} : lits'[d] = lits[d] /\ supports'[d] = supports[d]
        /\ supports'[c] = NULL
    BY <1>1 DEF create_clause, Active, DataOK
  <2>2. \A q \in Prop, d \in Active : Justifies(d, q) => Justifies(d, q)'
    BY <1>a, <2>1, StillJustifies
  <2> QED
    BY <1>a, <2>1, <2>2 DEF JInv, JustificationsExact, JustifiedBut, UndoOnlyInRetraction, Assigned
<1>2. ASSUME NEW c \in Clause, add(c) PROVE JInv'
  <2>1. /\ Active' = Active \cup {c} /\ c \notin Active /\ tv' = tv /\ lits' = lits
        /\ supported_by' = supported_by /\ undo_list' = undo_list /\ pc' = pc
        /\ supports' = [supports EXCEPT ![c] = NULL]
    BY <1>2 DEF add, Active, DataOK
  <2>2. supports[c] = NULL
    BY <1>c, <2>1
  <2>3. supports' = supports
    BY <2>1, <2>2 DEF DataOK
  <2> QED
    BY <2>1, <2>3
    DEF JInv, JustificationsExact, JustifiedBut, UndoOnlyInRetraction, Assigned, Justifies
<1>3. ASSUME NEW c \in Clause, remove(c) PROVE JInv'
  <2>1. /\ Active' = Active \ {c} /\ c \in Active /\ tv' = tv /\ lits' = lits
        /\ supported_by' = supported_by /\ undo_list = {}
    BY <1>3 DEF remove, Active, DataOK, JInv, UndoOnlyInRetraction
  <2>2. CASE supports[c] = NULL
    <3>1. undo_list' = undo_list /\ supports' = supports /\ pc' = pc
      BY <1>3, <2>2 DEF remove
    <3>2. \A q \in Assigned : supported_by[q] # c
      BY <2>1, <2>2, NullAssumption DEF JInv, JustificationsExact, JustifiedBut, Assigned
    <3> QED
      BY <2>1, <2>2, <3>1, <3>2
      DEF JInv, JustificationsExact, JustifiedBut, UndoOnlyInRetraction, Assigned, Justifies
  <2>3. CASE supports[c] # NULL
    <3>1. c \notin fringe \cup unsatisfied
      BY <2>3, OpenSupportsNothing DEF JInv, CachesExact, IsUnit, IsFalsified
    <3>2. /\ undo_list' = {supports[c]} /\ pc' = "remove"
          /\ supports' = [supports EXCEPT ![c] = NULL]
      BY <1>3, <2>1, <2>3, <3>1 DEF remove
    <3>3. \A q \in Assigned \ {supports[c]} : supported_by[q] # c
      BY <2>1 DEF JInv, JustificationsExact, JustifiedBut
    <3>4. \A d \in Clause \ {c} : supports[d] # NULL => supports[d] # supports[c]
      BY <1>c, <2>3
    <3>5. \A d \in Clause \ {c} : supports'[d] = supports[d]
      BY <3>2 DEF DataOK
    <3>6. supports'[c] = NULL
      BY <3>2 DEF DataOK
    <3> QED
      BY <1>a, <1>c, <2>1, <2>3, <3>2, <3>3, <3>4, <3>5, <3>6
      DEF JInv, JustificationsExact, JustifiedBut, UndoOnlyInRetraction, Assigned, Justifies
  <2> QED BY <2>2, <2>3
<1>4. ASSUME NEW D \in SUBSET Prop, finish_destroying(D) PROVE JInv'
  <2> DEFINE doomed == {c \in clauses : PropsOf(c) \cap D # {}}
  <2>1. /\ Active' = Active \ doomed /\ undo_list = {} /\ pc' = "finish_destroying"
        /\ undo_list' = {supports[c] : c \in doomed} \ (D \cup {NULL})
        /\ supports' = [c \in Clause |-> IF c \in doomed THEN NULL ELSE supports[c]]
        /\ tv' = [p \in Prop |-> IF p \in D THEN "UNKNOWN" ELSE tv[p]]
        /\ supported_by' = [p \in Prop |-> IF p \in D THEN NULL ELSE supported_by[p]]
        /\ lits' = [c \in Clause |-> IF c \in doomed THEN {} ELSE lits[c]]
        /\ doomed \subseteq Clause
    BY <1>4 DEF finish_destroying, Active, DataOK, JInv, UndoOnlyInRetraction
  <2>2. \A d \in Active \ doomed : PropsOf(d) \cap D = {} /\ PropsOf(d) \subseteq Prop
    BY <1>a DEF Active, PropsOf, DataOK, Literal
  <2> HIDE DEF doomed
  <2>3. Assigned' = Assigned \ D
    BY <2>1 DEF Assigned
  <2>4. ASSUME NEW q \in Assigned' \ undo_list'
        PROVE  /\ supported_by'[q] \in Active'
               /\ supports'[supported_by'[q]] = q
               /\ Justifies(supported_by[q], q)'
    <3> DEFINE d == supported_by[q]
    <3>1. q \in Prop /\ q \in Assigned /\ q \notin D /\ q # NULL
      BY <2>3, NullAssumption DEF Assigned
    <3>2. d \in Active /\ d \in Clause /\ supports[d] = q /\ Justifies(d, q)
      BY <1>a, <2>1, <3>1 DEF JInv, JustificationsExact, JustifiedBut
    <3>3. d \notin doomed
      BY <2>1, <2>4, <3>1, <3>2
    <3>4. \A r \in PropsOf(d) : tv'[r] = tv[r]
      BY <2>1, <2>2, <3>2, <3>3
    <3>5. Justifies(d, q)'
      BY <2>1, <3>1, <3>2, <3>3, <3>4, StillJustifies
    <3>6. supported_by'[q] = d
      BY <2>1, <3>1
    <3> QED BY <2>1, <3>2, <3>3, <3>5, <3>6
  <2>5. ASSUME NEW d \in Clause, supports'[d] # NULL
        PROVE  /\ d \in Active'
               /\ supports'[d] \notin undo_list'
               /\ supported_by'[supports'[d]] = d
    <3>1. d \notin doomed /\ supports'[d] = supports[d] /\ supports[d] # NULL
      BY <2>1, <2>5
    <3>2. /\ d \in Active /\ supports[d] \in Assigned /\ supports[d] \in Prop
          /\ supported_by[supports[d]] = d
      BY <1>c, <3>1 DEF Assigned
    <3>3. Justifies(d, supports[d])
      BY <1>c, <3>1, <3>2 DEF JInv, JustificationsExact, JustifiedBut
    <3>4. supports[d] \notin D
      BY <2>2, <3>1, <3>2, <3>3, JustifiedClause
    <3>5. \A c \in doomed : supports[c] # supports[d]
      BY <1>c, <2>1, <3>1
    <3> QED BY <2>1, <3>1, <3>2, <3>4, <3>5
  <2>6. undo_list' \subseteq Assigned'
    BY <1>c, <2>1, <2>3
  <2>7. \A q \in Prop : tv'[q] = "UNKNOWN" <=> supported_by'[q] = NULL
    BY <2>1 DEF JInv, JustificationsExact, JustifiedBut
  <2> QED
    BY <2>1, <2>4, <2>5, <2>6, <2>7 DEF JInv, JustificationsExact, JustifiedBut, UndoOnlyInRetraction
<1>5. CASE propagate
  BY <1>5, <1>b DEF propagate, JInv, UndoOnlyInRetraction, supportVars
<1>6. ASSUME NEW c \in Clause, last_conflict(c) PROVE JInv'
  BY <1>6, <1>b DEF last_conflict, JInv, UndoOnlyInRetraction, supportVars
<1>7. ASSUME NEW p \in Prop, undo_propagations(p) PROVE JInv'
  <2>1. p \in undo_list /\ pc' = pc /\ pc \in {"remove", "finish_destroying"}
    BY <1>7 DEF undo_propagations
  <2>2. tv[p] # "UNKNOWN"
    BY <2>1 DEF JInv, JustificationsExact, JustifiedBut, Assigned
  <2>3. JustificationsExact'
    BY <1>7, <2>1, <2>2, UnassignJustifies
    DEF undo_propagations, JInv, JustificationsExact
  <2> QED BY <2>1, <2>3 DEF JInv, UndoOnlyInRetraction
<1>8. CASE undo_propagations_return
  BY <1>8, <1>b DEF undo_propagations_return, JInv, UndoOnlyInRetraction, supportVars
<1>9. ASSUME NEW c \in Clause, propagate_clause(c) PROVE JInv'
  BY <1>9, PropagateJustifies
<1>10. CASE propagate_return
  BY <1>10, <1>b DEF propagate_return, JInv, UndoOnlyInRetraction, supportVars
<1>11. ASSUME NEW c \in Clause, get_clause_support(c) PROVE JInv'
  BY <1>11, <1>b DEF get_clause_support, JInv, UndoOnlyInRetraction, supportVars
<1>12. CASE last_conflict_return
  BY <1>12, <1>b DEF last_conflict_return, JInv, UndoOnlyInRetraction, supportVars
<1>13. CASE UNCHANGED vars
  BY <1>13, <1>b DEF vars, JInv, UndoOnlyInRetraction, supportVars
<1> QED
  BY <1>1, <1>2, <1>3, <1>4, <1>5, <1>6, <1>7, <1>8, <1>9, <1>10, <1>11, <1>12,
     <1>13 DEF Next, Call, Run

LEMMA JInvHolds == Spec => []JInv
<1>1. Init => JInv
  BY DEF Init, JInv, JustificationsExact, JustifiedBut, UndoOnlyInRetraction, Assigned
<1> QED
  BY <1>1, JustificationsStep, DataTyped, CachesAlwaysExact, PTL DEF Spec

(* Every value that is not queued for undo has a clause of the theory that
   forces it, and the pointers of clause and proposition agree. *)
THEOREM JustificationsAlwaysExact == Spec => []JustificationsExact
<1>1. JInv => JustificationsExact
  BY DEF JInv
<1> QED
  BY <1>1, JInvHolds, PTL

-----------------------------------------------------------------------------
(* What the LTMS answers *)

(* Retraction keeps support well-founded: fewer values, no new premises. *)
LEMMA FewerValuesWellFounded ==
  ASSUME WellFounded, Assigned' \subseteq Assigned,
         \A p \in Assigned' : /\ supported_by'[p] = supported_by[p]
                              /\ PropsOf(supported_by[p])' \subseteq PropsOf(supported_by[p])
  PROVE  WellFounded'
<1> SUFFICES ASSUME NEW S \in SUBSET Assigned', S # {}
             PROVE  \E p \in S : (PropsOf(supported_by[p])' \ {p}) \cap S = {}
  BY DEF WellFounded
<1>1. PICK p \in S : (PropsOf(supported_by[p]) \ {p}) \cap S = {}
  BY DEF WellFounded
<1> QED
  BY <1>1

(* Propagation keeps it: the premises of the older values were all assigned,
   so none of them is the new one. *)
LEMMA PropagateWellFounded ==
  ASSUME DataOK, JInv, WellFounded, NEW c \in Clause, propagate_clause(c)
  PROVE  WellFounded'
<1>1. PICK l \in Unassigned(c) : assign(l[1], l[2], c, fringe \ {c})
  BY DEF propagate_clause
<1> DEFINE p == l[1]
<1>2. p \in Prop /\ l[2] \in {"PTRUE", "PFALSE"} /\ tv[p] = "UNKNOWN"
  BY DEF Unassigned, DataOK, Literal
<1>3. /\ tv' = [tv EXCEPT ![p] = l[2]] /\ supported_by' = [supported_by EXCEPT ![p] = c]
      /\ lits' = lits /\ undo_list = {}
  BY <1>1 DEF assign, propagate_clause, theoryVars, JInv, UndoOnlyInRetraction
<1>4. Assigned' = Assigned \cup {p} /\ p \notin Assigned
  BY <1>2, <1>3 DEF Assigned, DataOK
<1>5. ASSUME NEW q \in Assigned
      PROVE  supported_by'[q] = supported_by[q] /\ p \notin PropsOf(supported_by[q])
  <2>1. q \in Prop /\ q # p /\ supported_by[q] \in Clause
    BY <1>3, <1>4 DEF JInv, JustificationsExact, JustifiedBut, Assigned, Active, DataOK
  <2>2. Justifies(supported_by[q], q)
    BY <1>3 DEF JInv, JustificationsExact, JustifiedBut
  <2> QED BY <1>2, <1>3, <2>1, <2>2, JustifiedClause DEF DataOK
<1> HIDE DEF p
<1> SUFFICES ASSUME NEW S \in SUBSET Assigned', S # {}
             PROVE  \E q \in S : (PropsOf(supported_by[q])' \ {q}) \cap S = {}
  BY DEF WellFounded
<1>6. CASE S = {p}
  BY <1>6
<1>7. CASE S # {p}
  <2>1. S \ {p} # {} /\ S \ {p} \in SUBSET Assigned
    BY <1>4, <1>7
  <2>2. PICK q \in S \ {p} : (PropsOf(supported_by[q]) \ {q}) \cap (S \ {p}) = {}
    BY <2>1 DEF WellFounded
  <2>3. PropsOf(supported_by[q])' = PropsOf(supported_by[q])
    BY <1>3, <1>5, <2>1, <2>2 DEF PropsOf
  <2> QED BY <1>5, <2>1, <2>2, <2>3
<1> QED BY <1>6, <1>7

(* No value rests on itself, whatever is added, removed and destroyed. *)
THEOREM SupportAlwaysWellFounded == Spec => []WellFounded
<1>1. Init => WellFounded
  BY DEF Init, WellFounded, Assigned
<1>2. DataOK /\ JInv /\ WellFounded /\ [Next]_vars => WellFounded'
  <2> SUFFICES ASSUME DataOK, JInv, WellFounded, [Next]_vars PROVE WellFounded'
    OBVIOUS
  <2>a. CASE lits' = lits /\ tv' = tv /\ supported_by' = supported_by
    BY <2>a DEF WellFounded, Assigned, PropsOf
  <2>1. ASSUME NEW c \in Clause, NEW body \in Bodies, create_clause(c, body)
        PROVE  WellFounded'
    <3>1. /\ tv' = tv /\ supported_by' = supported_by /\ c \notin clauses
          /\ undo_list = {} /\ \A d \in Clause \ {c} : lits'[d] = lits[d]
      BY <2>1 DEF create_clause, DataOK, JInv, UndoOnlyInRetraction
    <3>2. Assigned' = Assigned
      BY <3>1 DEF Assigned
    <3>3. \A p \in Assigned : supported_by[p] \in Clause \ {c}
      BY <3>1 DEF JInv, JustificationsExact, JustifiedBut, Active, DataOK
    <3>4. \A p \in Assigned : PropsOf(supported_by[p])' = PropsOf(supported_by[p])
      BY <3>1, <3>3 DEF PropsOf
    <3> QED BY <3>1, <3>2, <3>4, FewerValuesWellFounded
  <2>2. ASSUME NEW c \in Clause, add(c) PROVE WellFounded'
    BY <2>2, <2>a DEF add
  <2>3. ASSUME NEW c \in Clause, remove(c) PROVE WellFounded'
    BY <2>3, <2>a DEF remove
  <2>4. ASSUME NEW D \in SUBSET Prop, finish_destroying(D) PROVE WellFounded'
    <3> DEFINE doomed == {c \in clauses : PropsOf(c) \cap D # {}}
    <3>1. /\ tv' = [p \in Prop |-> IF p \in D THEN "UNKNOWN" ELSE tv[p]]
          /\ supported_by' = [p \in Prop |-> IF p \in D THEN NULL ELSE supported_by[p]]
          /\ lits' = [c \in Clause |-> IF c \in doomed THEN {} ELSE lits[c]]
          /\ undo_list = {}
      BY <2>4 DEF finish_destroying, JInv, UndoOnlyInRetraction
    <3> HIDE DEF doomed
    <3>2. Assigned' = Assigned \ D
      BY <3>1 DEF Assigned
    <3>3. \A p \in Assigned' : p \in Assigned /\ supported_by'[p] = supported_by[p]
                                 /\ supported_by[p] \in Clause
      BY <3>1, <3>2 DEF Assigned, JInv, JustificationsExact, JustifiedBut, Active, DataOK
    <3>4. \A d \in Clause : lits'[d] \subseteq lits[d]
      BY <3>1
    <3>5. \A p \in Assigned' :
            PropsOf(supported_by[p])' \subseteq PropsOf(supported_by[p])
      BY <3>3, <3>4 DEF PropsOf
    <3> QED BY <3>2, <3>3, <3>5, FewerValuesWellFounded
  <2>5. CASE propagate
    BY <2>5, <2>a DEF propagate, theoryVars, supportVars
  <2>6. ASSUME NEW c \in Clause, last_conflict(c) PROVE WellFounded'
    BY <2>6, <2>a DEF last_conflict, theoryVars, supportVars
  <2>7. ASSUME NEW p \in Prop, undo_propagations(p) PROVE WellFounded'
    <3>1. CASE tv[p] = "UNKNOWN"
      BY <2>7, <3>1, <2>a DEF undo_propagations, theoryVars
    <3>2. CASE tv[p] # "UNKNOWN"
      <4>1. /\ tv' = [tv EXCEPT ![p] = "UNKNOWN"] /\ lits' = lits
            /\ supported_by' = [supported_by EXCEPT ![p] = NULL]
        BY <2>7, <3>2 DEF undo_propagations, unassign, theoryVars
      <4>2. Assigned' = Assigned \ {p}
        BY <4>1 DEF Assigned, DataOK
      <4>3. \A q \in Assigned' : supported_by'[q] = supported_by[q]
        BY <4>1, <4>2 DEF Assigned, DataOK
      <4>4. \A q \in Assigned' : PropsOf(supported_by[q])' \subseteq PropsOf(supported_by[q])
        BY <4>1, <4>3 DEF PropsOf
      <4> QED BY <4>2, <4>3, <4>4, FewerValuesWellFounded
    <3> QED BY <3>1, <3>2
  <2>8. CASE undo_propagations_return
    BY <2>8, <2>a DEF undo_propagations_return, theoryVars, supportVars
  <2>9. ASSUME NEW c \in Clause, propagate_clause(c) PROVE WellFounded'
    BY <2>9, PropagateWellFounded
  <2>10. CASE propagate_return
    BY <2>10, <2>a DEF propagate_return, theoryVars, supportVars
  <2>11. ASSUME NEW c \in Clause, get_clause_support(c) PROVE WellFounded'
    BY <2>11, <2>a DEF get_clause_support, theoryVars, supportVars
  <2>12. CASE last_conflict_return
    BY <2>12, <2>a DEF last_conflict_return, theoryVars, supportVars
  <2>13. CASE UNCHANGED vars
    BY <2>13, <2>a DEF vars, theoryVars, supportVars
  <2> QED
    BY <2>1, <2>2, <2>3, <2>4, <2>5, <2>6, <2>7, <2>8, <2>9, <2>10, <2>11, <2>12,
       <2>13 DEF Next, Call, Run
<1> QED
  BY <1>1, <1>2, DataTyped, JInvHolds, PTL DEF Spec

-----------------------------------------------------------------------------
(* A total assignment that satisfies the clauses supporting a set A of values,
   where A has all the premises of its members, agrees with A: look at a
   member it disagrees with first. *)
LEMMA SupportEntails ==
  ASSUME DataOK, JustificationsExact, WellFounded,
         NEW A \in SUBSET (Assigned \ undo_list),
         NEW m \in [Prop -> {"PTRUE", "PFALSE"}],
         \A p \in A : /\ PropsOf(supported_by[p]) \subseteq A
                      /\ \E l \in lits[supported_by[p]] : m[l[1]] = l[2]
  PROVE  \A p \in A : m[p] = tv[p]
<1> DEFINE S == {p \in A : m[p] # tv[p]}
<1> SUFFICES ASSUME S # {} PROVE FALSE
  OBVIOUS
<1>1. S \in SUBSET Assigned
  OBVIOUS
<1>2. PICK q \in S : (PropsOf(supported_by[q]) \ {q}) \cap S = {}
  BY <1>1 DEF WellFounded
<1> DEFINE d == supported_by[q]
<1>3. q \in A /\ m[q] # tv[q] /\ d \in Clause /\ Justifies(d, q)
  BY <1>2 DEF JustificationsExact, JustifiedBut, Active, DataOK
<1>4. PICK l \in lits[d] : m[l[1]] = l[2]
  BY <1>3
<1>5. l \in Literal /\ l[1] \in PropsOf(d) /\ l[2] \in {"PTRUE", "PFALSE"}
  BY <1>3, <1>4 DEF DataOK, Literal, PropsOf
<1>6. l # <<q, tv[q]>>
  BY <1>3, <1>4
<1>7. l[1] # q /\ tv[l[1]] = Opposite(l[2])
  BY <1>3, <1>6 DEF Justifies
<1>8. l[1] \in A /\ l[1] \notin S
  BY <1>2, <1>3, <1>5, <1>7
<1>9. m[l[1]] = tv[l[1]]
  BY <1>8
<1> QED
  BY <1>4, <1>5, <1>7, <1>9 DEF Opposite

(* While nothing waits for undo, support is entailment. *)
LEMMA SupportedMeansEntailed ==
  ASSUME DataOK, JustificationsExact, WellFounded PROVE ValuesEntailed
<1> SUFFICES ASSUME undo_list = {}, NEW m \in Models(Active)
             PROVE  \A p \in Assigned : m[p] = tv[p]
  BY DEF ValuesEntailed
<1>1. m \in [Prop -> {"PTRUE", "PFALSE"}] /\ \A c \in Active : \E l \in lits[c] : m[l[1]] = l[2]
  BY DEF Models
<1>2. ASSUME NEW p \in Assigned
      PROVE  /\ PropsOf(supported_by[p]) \subseteq Assigned
             /\ \E l \in lits[supported_by[p]] : m[l[1]] = l[2]
  <2>1. /\ supported_by[p] \in Active /\ supported_by[p] \in Clause
        /\ Justifies(supported_by[p], p)
    BY DEF JustificationsExact, JustifiedBut, Active, DataOK
  <2>2. PropsOf(supported_by[p]) \subseteq Prop
    BY <2>1 DEF PropsOf, DataOK, Literal
  <2> QED BY <1>1, <2>1, <2>2, JustifiedClause DEF Assigned
<1> QED
  BY <1>1, <1>2, SupportEntails

(* Whenever no undo is under way, every cached value follows from the theory. *)
THEOREM ValuesAlwaysEntailed == Spec => []ValuesEntailed
<1>1. DataOK /\ JInv /\ WellFounded => ValuesEntailed
  BY SupportedMeansEntailed DEF JInv
<1> QED
  BY <1>1, DataTyped, JInvHolds, SupportAlwaysWellFounded, PTL

-----------------------------------------------------------------------------
(* What an answer says of the LTMS's lists, until the theory changes. *)
VerdictInv ==
  /\ verdict # "none" => pc = "client"
  /\ verdict = "consistent" => unsatisfied = {} /\ fringe = {}
  /\ verdict \in {"inconsistent", "explained"} \/ pc = "last_conflict" =>
       unsatisfied # {}

LEMMA VerdictStep == VerdictInv /\ [Next]_vars => VerdictInv'
<1> SUFFICES ASSUME VerdictInv, [Next]_vars PROVE VerdictInv'
  OBVIOUS
<1> USE DEF VerdictInv
<1>1. ASSUME NEW c \in Clause, NEW body \in Bodies, create_clause(c, body)
      PROVE  VerdictInv'
  BY <1>1 DEF create_clause
<1>2. ASSUME NEW c \in Clause, add(c) PROVE VerdictInv'
  BY <1>2 DEF add
<1>3. ASSUME NEW c \in Clause, remove(c) PROVE VerdictInv'
  BY <1>3 DEF remove
<1>4. ASSUME NEW D \in SUBSET Prop, finish_destroying(D) PROVE VerdictInv'
  BY <1>4 DEF finish_destroying
<1>5. CASE propagate
  BY <1>5 DEF propagate
<1>6. ASSUME NEW c \in Clause, last_conflict(c) PROVE VerdictInv'
  BY <1>6 DEF last_conflict, cacheVars
<1>7. ASSUME NEW p \in Prop, undo_propagations(p) PROVE VerdictInv'
  BY <1>7 DEF undo_propagations
<1>8. CASE undo_propagations_return
  BY <1>8 DEF undo_propagations_return
<1>9. ASSUME NEW c \in Clause, propagate_clause(c) PROVE VerdictInv'
  BY <1>9 DEF propagate_clause
<1>10. CASE propagate_return
  BY <1>10 DEF propagate_return, cacheVars
<1>11. ASSUME NEW c \in Clause, get_clause_support(c) PROVE VerdictInv'
  BY <1>11 DEF get_clause_support, cacheVars
<1>12. CASE last_conflict_return
  BY <1>12 DEF last_conflict_return, cacheVars
<1>13. CASE UNCHANGED vars
  BY <1>13 DEF vars, cacheVars
<1> QED
  BY <1>1, <1>2, <1>3, <1>4, <1>5, <1>6, <1>7, <1>8, <1>9, <1>10, <1>11, <1>12,
     <1>13 DEF Next, Call, Run

(* An answer of propagate() or last_conflict() stands for the lists as they are:
   the next call that changes the theory takes it back. *)
THEOREM VerdictsHold == Spec => []VerdictInv
<1>1. Init => VerdictInv
  BY DEF Init, VerdictInv
<1> QED
  BY <1>1, VerdictStep, PTL DEF Spec

(* All literals of a falsified clause are false. *)
LEMMA FalsifiedClause ==
  ASSUME DataOK, CachesExact, NEW c \in unsatisfied
  PROVE  /\ c \in Active /\ c \in Clause
         /\ \A l \in lits[c] : tv[l[1]] = Opposite(l[2])
         /\ PropsOf(c) \subseteq Assigned
<1>1. c \in Active /\ c \in Clause /\ Satisfying(c) = {} /\ count_unassigned(c) = 0
  BY DEF CachesExact, IsFalsified, DataOK
<1>2. Unassigned(c) = {}
  BY <1>1, FiniteLits, FS_EmptySet DEF count_unassigned
<1>3. \A l \in lits[c] : /\ tv[l[1]] = Opposite(l[2]) /\ tv[l[1]] # "UNKNOWN"
                          /\ l[1] \in Prop
  BY <1>1, <1>2 DEF Unassigned, Satisfying, DataOK, Literal, Opposite
<1> QED
  BY <1>1, <1>3 DEF PropsOf, Assigned

(* When propagate() returns false the theory has no model. *)
THEOREM InconsistencyIsReal == Spec => []InconsistentMeansNoModel
<1>1. DataOK /\ CachesExact /\ JInv /\ WellFounded /\ VerdictInv => InconsistentMeansNoModel
  <2> SUFFICES ASSUME DataOK, CachesExact, JInv, WellFounded, VerdictInv,
                      verdict \in {"inconsistent", "explained"},
                      NEW m \in Models(Active)
               PROVE  FALSE
    BY DEF InconsistentMeansNoModel
  <2>1. PICK c \in unsatisfied : TRUE
    BY DEF VerdictInv
  <2>2. undo_list = {}
    BY DEF VerdictInv, JInv, UndoOnlyInRetraction
  <2>3. c \in Active /\ c \in Clause /\ PropsOf(c) \subseteq Assigned
        /\ \A l \in lits[c] : tv[l[1]] = Opposite(l[2])
    BY <2>1, FalsifiedClause
  <2>4. PICK l \in lits[c] : m[l[1]] = l[2]
    BY <2>3 DEF Models
  <2>5. l[2] \in {"PTRUE", "PFALSE"} /\ l[1] \in PropsOf(c)
    BY <2>3, <2>4 DEF DataOK, Literal, PropsOf
  <2>6. m[l[1]] = tv[l[1]]
    BY <2>2, <2>3, <2>5, SupportedMeansEntailed DEF ValuesEntailed, JInv
  <2> QED BY <2>3, <2>4, <2>5, <2>6 DEF Opposite
<1> QED
  BY <1>1, DataTyped, CachesAlwaysExact, JInvHolds,
     SupportAlwaysWellFounded, VerdictsHold, PTL

(* When propagate() returns true nothing is left to propagate. *)
THEOREM ConsistencyIsClosed == Spec => []ConsistentMeansClosed
<1>1. CachesExact /\ VerdictInv => ConsistentMeansClosed
  BY DEF CachesExact, VerdictInv, ConsistentMeansClosed
<1> QED
  BY <1>1, CachesAlwaysExact, VerdictsHold, PTL

-----------------------------------------------------------------------------
(* The answer does not depend on the history *)

(* When no clause is unit or falsified, the values are closed under unit
   propagation. *)
LEMMA ValuesAreUnitClosed ==
  ASSUME DataOK, \A c \in Active : ~IsUnit(c) /\ ~IsFalsified(c)
  PROVE  UnitClosed(Active, {<<p, tv[p]>> : p \in Assigned})
<1> DEFINE A == {<<p, tv[p]>> : p \in Assigned}
<1> SUFFICES ASSUME NEW c \in Active, NEW l \in lits[c], l \notin A,
                    \A k \in lits[c] \ {l} : <<k[1], Opposite(k[2])>> \in A
             PROVE  FALSE
  BY DEF UnitClosed
<1>1. c \in Clause /\ lits[c] \subseteq Literal
  BY DEF DataOK, Active
<1>2. \A k \in lits[c] : /\ k[1] \in Prop /\ k[2] \in {"PTRUE", "PFALSE"}
                          /\ k = <<k[1], k[2]>>
  BY <1>1 DEF Literal
<1>3. \A k \in lits[c] \ {l} : tv[k[1]] = Opposite(k[2])
  OBVIOUS
<1>4. \A k \in lits[c] \ {l} : tv[k[1]] # k[2] /\ tv[k[1]] # "UNKNOWN"
  BY <1>2, <1>3 DEF Opposite
<1>5. tv[l[1]] # l[2]
  <2> SUFFICES ASSUME tv[l[1]] = l[2] PROVE FALSE
    OBVIOUS
  <2>1. l[1] \in Assigned /\ l = <<l[1], tv[l[1]]>>
    BY <1>2 DEF Assigned
  <2> QED
    BY <2>1
<1>6. Satisfying(c) = {}
  BY <1>4, <1>5 DEF Satisfying
<1>7. CASE tv[l[1]] = "UNKNOWN"
  <2>1. Unassigned(c) = {l}
    BY <1>4, <1>7 DEF Unassigned
  <2>2. count_unassigned(c) = 1
    BY <2>1, FS_Singleton DEF count_unassigned
  <2> QED
    BY <1>6, <2>2 DEF IsUnit
<1>8. CASE tv[l[1]] # "UNKNOWN"
  <2>1. Unassigned(c) = {}
    BY <1>4, <1>8 DEF Unassigned
  <2>2. count_unassigned(c) = 0
    BY <2>1, FS_EmptySet DEF count_unassigned
  <2> QED
    BY <1>6, <2>2 DEF IsFalsified
<1> QED
  BY <1>7, <1>8

(* Every value is in every set of literals closed under unit propagation: among
   those that are not, one would need none of the others. *)
LEMMA ValuesAreReached ==
  ASSUME DataOK, JustificationsExact, undo_list = {}, WellFounded,
         NEW L, UnitClosed(Active, L), NEW p \in Assigned
  PROVE  <<p, tv[p]>> \in L
<1> DEFINE S == {q \in Assigned : <<q, tv[q]>> \notin L}
<1> SUFFICES ASSUME S # {} PROVE FALSE
  OBVIOUS
<1>1. S \in SUBSET Assigned
  OBVIOUS
<1>2. PICK q \in S : (PropsOf(supported_by[q]) \ {q}) \cap S = {}
  BY <1>1 DEF WellFounded
<1> DEFINE d == supported_by[q]
<1>3. q \in Assigned /\ d \in Active /\ d \in Clause /\ Justifies(d, q)
  BY <1>2 DEF JustificationsExact, JustifiedBut, Active, DataOK
<1>4. ASSUME NEW k \in lits[d] \ {<<q, tv[q]>>}
      PROVE  <<k[1], Opposite(k[2])>> \in L
  <2>1. k[1] # q /\ tv[k[1]] = Opposite(k[2])
    BY <1>3, <1>4 DEF Justifies
  <2>2. k[1] \in Prop /\ k[1] \in PropsOf(d) /\ k[1] \in Assigned
    BY <1>3, <2>1 DEF DataOK, Literal, PropsOf, Assigned, Opposite
  <2>3. k[1] \notin S
    BY <1>2, <2>1, <2>2
  <2> QED
    BY <2>1, <2>2, <2>3
<1>5. <<q, tv[q]>> \in lits[d]
  BY <1>3 DEF Justifies
<1>6. <<q, tv[q]>> \in L
  BY <1>3, <1>4, <1>5 DEF UnitClosed
<1> QED
  BY <1>2, <1>6

(* propagate() that returns true leaves the values that unit propagation over the
   present theory reaches from nothing, whatever was added and removed before. *)
THEOREM AnswerIgnoresHistory == Spec => []SameAsFromScratch
<1>1. DataOK /\ JInv /\ WellFounded /\ VerdictInv /\ ConsistentMeansClosed
        => SameAsFromScratch
  <2> SUFFICES ASSUME DataOK, JInv, WellFounded, VerdictInv, ConsistentMeansClosed,
                      verdict = "consistent"
               PROVE  {<<p, tv[p]>> : p \in Assigned} = FromScratch(Active)
    BY DEF SameAsFromScratch
  <2> DEFINE A == {<<p, tv[p]>> : p \in Assigned}
  <2>1. undo_list = {} /\ JustificationsExact
    BY DEF JInv, UndoOnlyInRetraction, VerdictInv
  <2>2. A \in SUBSET Literal
    BY DEF Assigned, DataOK, Literal
  <2>3. UnitClosed(Active, A)
    BY ValuesAreUnitClosed DEF ConsistentMeansClosed
  <2>4. \A L \in SUBSET Literal : UnitClosed(Active, L) => A \subseteq L
    BY <2>1, ValuesAreReached
  <2> HIDE DEF A
  <2>5. A = FromScratch(Active)
    BY <2>2, <2>3, <2>4 DEF FromScratch
  <2> QED
    BY <2>5 DEF A
<1> QED
  BY <1>1, DataTyped, JInvHolds, SupportAlwaysWellFounded, VerdictsHold,
     ConsistencyIsClosed, PTL

-----------------------------------------------------------------------------
(* The clauses that the trace in progress, or the last one, has met. *)
Visited == {d \in clauses : stamp[d] = time_stamp}

(* The trace from the falsified clause u: what it met is in the theory, its
   assumptions are in the conflict, and the premises of every clause that was
   met and is not waiting on the stack were met too. *)
Traced(u) ==
  /\ Visited \subseteq Active
  /\ conflict \subseteq Active \cap AssumptionClause
  /\ (Visited \cup {u}) \cap AssumptionClause \subseteq conflict
  /\ stack \subseteq {u} \cup (Visited \ AssumptionClause)
  /\ \A d \in ({u} \cup (Visited \ AssumptionClause)) \ stack :
       \A p \in PropsOf(d) : supported_by[p] \in Visited

TraceInv ==
  /\ \A d \in clauses : stamp[d] <= time_stamp
  /\ \A d \in clauses \cap AssumptionClause : \E p \in Prop : lits[d] = {<<p, "PTRUE">>}
  /\ pc = "last_conflict" \/ verdict = "explained" =>
       time_stamp >= 1 /\ \E u \in unsatisfied : Traced(u)
  /\ verdict = "explained" => stack = {}

(* A step of the trace meets the premises of the clause it takes. *)
LEMMA TraceStep ==
  ASSUME DataOK, CachesExact, JInv, NEW u \in unsatisfied, Traced(u),
         NEW c \in Clause, get_clause_support(c)
  PROVE  Traced(u)'
<1> DEFINE parents == {supported_by[p] : p \in PropsOf(c)}
           fresh == {d \in parents \ {c} : stamp[d] # time_stamp}
<1>1. /\ c \in stack /\ NULL \notin parents /\ undo_list = {}
      /\ stamp' = [d \in Clause |-> IF d \in fresh THEN time_stamp ELSE stamp[d]]
      /\ conflict' = conflict \cup (fresh \cap AssumptionClause)
      /\ stack' = (stack \ {c}) \cup (fresh \ AssumptionClause)
      /\ clauses' = clauses /\ lits' = lits /\ Active' = Active
      /\ supported_by' = supported_by /\ time_stamp' = time_stamp
  BY DEF get_clause_support, theoryVars, supportVars, Active, JInv, UndoOnlyInRetraction
<1>2. parents \subseteq Active
  <2> SUFFICES ASSUME NEW p \in PropsOf(c) PROVE supported_by[p] \in Active
    OBVIOUS
  <2>1. p \in Prop /\ supported_by[p] # NULL
    BY <1>1 DEF PropsOf, DataOK, Literal
  <2> QED BY <1>1, <2>1 DEF JInv, JustificationsExact, JustifiedBut, Assigned
<1>3. u \in Active /\ u \in Clause /\ Satisfying(u) = {}
  BY DEF CachesExact, IsFalsified, DataOK
<1>4. \A p \in PropsOf(c) : supported_by[p] # u
  <2> SUFFICES ASSUME NEW p \in PropsOf(c), supported_by[p] = u PROVE FALSE
    OBVIOUS
  <2>1. p \in Prop /\ u # NULL
    BY <1>1 DEF PropsOf, DataOK, Literal
  <2>2. p \in Assigned
    BY <2>1 DEF JInv, JustificationsExact, JustifiedBut, Assigned
  <2>3. Justifies(u, p)
    BY <1>1, <2>2 DEF JInv, JustificationsExact, JustifiedBut
  <2> QED BY <1>3, <2>2, <2>3, JustifiedClause
<1>5. Active \subseteq clauses /\ clauses \subseteq Clause
  BY DEF Active, DataOK
<1> HIDE DEF parents
<1>6. Visited' = Visited \cup fresh
  BY <1>1, <1>2, <1>5 DEF Visited
<1>7. c = u \/ c \in Visited \ AssumptionClause
  BY <1>1 DEF Traced
<1>8. \A p \in PropsOf(c) : supported_by[p] \in Visited'
  <2> SUFFICES ASSUME NEW p \in PropsOf(c) PROVE supported_by[p] \in Visited \cup fresh
    BY <1>6
  <2> DEFINE d == supported_by[p]
  <2>1. d \in parents /\ d \in clauses
    BY <1>2, <1>5 DEF parents
  <2>2. CASE d = c
    BY <1>4, <1>7, <2>2
  <2>3. CASE d # c
    BY <2>1, <2>3 DEF Visited
  <2> QED BY <2>2, <2>3
<1>9. fresh \subseteq Active
  BY <1>2
<1> HIDE DEF fresh
<1>10. \A d : PropsOf(d)' = PropsOf(d)
  BY <1>1 DEF PropsOf
<1>11. Visited' \subseteq Active' /\ conflict' \subseteq Active' \cap AssumptionClause
  BY <1>1, <1>6, <1>9 DEF Traced
<1>12. (Visited' \cup {u}) \cap AssumptionClause \subseteq conflict'
  BY <1>1, <1>6 DEF Traced
<1>13. stack' \subseteq {u} \cup (Visited' \ AssumptionClause)
  BY <1>1, <1>6 DEF Traced
<1>14. ASSUME NEW d \in ({u} \cup (Visited' \ AssumptionClause)) \ stack',
              NEW p \in PropsOf(d)
       PROVE  supported_by[p] \in Visited'
  <2>1. CASE d = c
    BY <1>8, <2>1
  <2>2. CASE d # c
    <3>1. d \in ({u} \cup (Visited \ AssumptionClause)) \ stack
      BY <1>1, <1>6, <2>2
    <3> QED BY <1>6, <3>1 DEF Traced
  <2> QED BY <2>1, <2>2
<1> QED
  BY <1>1, <1>10, <1>11, <1>12, <1>13, <1>14 DEF Traced

(* No clause carries the stamp of a visit that begins. *)
LEMMA NewVisit ==
  ASSUME DataOK, TraceInv, NEW c \in Clause, last_conflict(c)
  PROVE  /\ time_stamp' >= 1
         /\ Visited' = {}
         /\ \A d \in clauses' : stamp'[d] <= time_stamp'
<1>1. time_stamp' = NextStamp /\ stamp' = FreshStamps /\ clauses' = clauses
  BY DEF last_conflict, theoryVars
<1>2. \A d \in clauses : stamp[d] \in Nat /\ stamp[d] <= time_stamp /\ time_stamp \in Nat
  BY StampAssumption DEF DataOK, TraceInv
<1>3. \A d \in clauses :
        stamp'[d] = 0 \/ (stamp'[d] = stamp[d] /\ time_stamp' = time_stamp + 1)
  BY <1>1 DEF NextStamp, FreshStamps, DataOK
<1>4. time_stamp' \in Nat /\ time_stamp' >= 1
  BY <1>1 DEF NextStamp, DataOK
<1>5. \A d \in clauses : stamp'[d] # time_stamp' /\ stamp'[d] <= time_stamp'
  BY <1>2, <1>3, <1>4
<1> QED
  BY <1>1, <1>2, <1>3, <1>4, <1>5 DEF Visited

(* last_conflict(): the stamps tell the clauses of this trace from all others, and
   what it met is in the conflict or leads to what it still has to meet. *)
THEOREM TracesHold == Spec => []TraceInv
<1>1. Init => TraceInv
  BY DEF Init, TraceInv
<1>2. DataOK /\ DataOK' /\ CachesExact /\ JInv /\ VerdictInv /\ TraceInv /\ [Next]_vars
        => TraceInv'
  <2> SUFFICES ASSUME DataOK, DataOK', CachesExact, JInv, VerdictInv, TraceInv, [Next]_vars
               PROVE  TraceInv'
    OBVIOUS
  <2>a. CASE /\ clauses' \subseteq clauses /\ stamp' = stamp /\ time_stamp' = time_stamp
             /\ \A d \in clauses' : lits'[d] = lits[d]
             /\ pc' # "last_conflict" /\ verdict' # "explained"
    BY <2>a DEF TraceInv
  <2>1. ASSUME NEW c \in Clause, NEW body \in Bodies, create_clause(c, body)
        PROVE  TraceInv'
    <3>1. /\ clauses' = clauses \cup {c} /\ c \notin clauses /\ Active' = Active
          /\ \A d \in clauses : lits'[d] = lits[d] /\ stamp'[d] = stamp[d]
          /\ stamp'[c] = 0 /\ lits'[c] = body
          /\ c \in AssumptionClause => \E p \in Prop : body = {<<p, "PTRUE">>}
          /\ time_stamp' = time_stamp /\ stack' = stack /\ conflict' = conflict
          /\ supported_by' = supported_by /\ unsatisfied' = unsatisfied
          /\ pc' = "client" /\ verdict' = verdict
      BY <2>1 DEF create_clause, Active, DataOK
    <3>2. ASSUME NEW u \in unsatisfied, time_stamp >= 1, Traced(u) PROVE Traced(u)'
      <4>1. Visited' = Visited
        BY <3>1, <3>2 DEF Visited
      <4>2. \A d \in {u} \cup Visited : PropsOf(d)' = PropsOf(d)
        BY <3>1, FalsifiedClause DEF Visited, PropsOf, Active
      <4> QED BY <3>1, <3>2, <4>1, <4>2 DEF Traced
    <3>3. \A d \in clauses' : stamp'[d] <= time_stamp'
      BY <3>1 DEF TraceInv, DataOK
    <3>4. \A d \in clauses' \cap AssumptionClause :
            \E p \in Prop : lits'[d] = {<<p, "PTRUE">>}
      BY <3>1 DEF TraceInv
    <3> QED BY <3>1, <3>2, <3>3, <3>4 DEF TraceInv
  <2>2. ASSUME NEW c \in Clause, add(c) PROVE TraceInv'
    BY <2>2, <2>a DEF add, traceVars
  <2>3. ASSUME NEW c \in Clause, remove(c) PROVE TraceInv'
    BY <2>3, <2>a DEF remove, traceVars
  <2>4. ASSUME NEW D \in SUBSET Prop, finish_destroying(D) PROVE TraceInv'
    <3>1. /\ clauses' \subseteq clauses /\ \A d \in clauses' : lits'[d] = lits[d]
          /\ stamp' = stamp /\ time_stamp' = time_stamp
          /\ pc' # "last_conflict" /\ verdict' # "explained"
      BY <2>4 DEF finish_destroying, traceVars, DataOK
    <3> QED BY <3>1, <2>a
  <2>5. CASE propagate
    BY <2>5, <2>a DEF propagate, theoryVars, traceVars
  <2>6. ASSUME NEW c \in Clause, last_conflict(c) PROVE TraceInv'
    <3>1. /\ c \in unsatisfied /\ conflict' = {c} \cap AssumptionClause /\ stack' = {c}
          /\ time_stamp' = NextStamp /\ stamp' = FreshStamps
          /\ clauses' = clauses /\ lits' = lits /\ Active' = Active
          /\ unsatisfied' = unsatisfied /\ verdict' = "none"
      BY <2>6 DEF last_conflict, theoryVars, cacheVars, Active
    <3>2. /\ time_stamp' >= 1 /\ Visited' = {}
          /\ \A d \in clauses' : stamp'[d] <= time_stamp'
      BY <2>6, NewVisit
    <3>3. Traced(c)'
      BY <3>1, <3>2, FalsifiedClause DEF Traced
    <3> QED BY <3>1, <3>2, <3>3 DEF TraceInv
  <2>7. ASSUME NEW p \in Prop, undo_propagations(p) PROVE TraceInv'
    BY <2>7, <2>a DEF undo_propagations, theoryVars, traceVars, VerdictInv
  <2>8. CASE undo_propagations_return
    BY <2>8, <2>a DEF undo_propagations_return, theoryVars, traceVars, VerdictInv
  <2>9. ASSUME NEW c \in Clause, propagate_clause(c) PROVE TraceInv'
    BY <2>9, <2>a DEF propagate_clause, theoryVars, traceVars, VerdictInv
  <2>10. CASE propagate_return
    BY <2>10, <2>a DEF propagate_return, theoryVars, traceVars
  <2>11. ASSUME NEW c \in Clause, get_clause_support(c) PROVE TraceInv'
    <3>1. /\ clauses' = clauses /\ lits' = lits /\ time_stamp' = time_stamp
          /\ unsatisfied' = unsatisfied /\ pc = "last_conflict" /\ verdict' = verdict
          /\ \A d \in Clause : stamp'[d] \in {stamp[d], time_stamp}
      BY <2>11 DEF get_clause_support, theoryVars, cacheVars
    <3>2. verdict' # "explained"
      BY <3>1 DEF VerdictInv
    <3>3. PICK u \in unsatisfied : Traced(u)
      BY <3>1 DEF TraceInv
    <3>4. Traced(u)'
      BY <2>11, <3>3, TraceStep
    <3>5. \A d \in clauses : stamp'[d] <= time_stamp
      BY <3>1 DEF TraceInv, DataOK
    <3> QED BY <3>1, <3>2, <3>4, <3>5 DEF TraceInv
  <2>12. CASE last_conflict_return
    BY <2>12
    DEF last_conflict_return, TraceInv, Traced, Visited, Active, PropsOf, theoryVars,
        cacheVars, supportVars, traceVars
  <2>13. CASE UNCHANGED vars
    BY <2>13
    DEF vars, TraceInv, Traced, Visited, Active, PropsOf, theoryVars, cacheVars,
        supportVars, traceVars
  <2> QED
    BY <2>1, <2>2, <2>3, <2>4, <2>5, <2>6, <2>7, <2>8, <2>9, <2>10, <2>11, <2>12,
       <2>13 DEF Next, Call, Run
<1> QED
  BY <1>1, <1>2, DataTyped, CachesAlwaysExact, JInvHolds, VerdictsHold,
     PTL DEF Spec

(* The conflict that last_conflict() returns is one. *)
THEOREM ConflictsAreNogoods == Spec => []ConflictIsNogood
<1>1. DataOK /\ CachesExact /\ JInv /\ WellFounded /\ VerdictInv /\ TraceInv
        => ConflictIsNogood
  <2> SUFFICES ASSUME DataOK, CachesExact, JInv, WellFounded, VerdictInv, TraceInv,
                      verdict = "explained"
               PROVE  /\ conflict \subseteq Active \cap AssumptionClause
                      /\ Models(conflict \cup (Active \ AssumptionClause)) = {}
    BY DEF ConflictIsNogood
  <2>1. PICK u \in unsatisfied : Traced(u)
    BY DEF TraceInv
  <2>2. stack = {} /\ undo_list = {}
    BY DEF TraceInv, VerdictInv, JInv, UndoOnlyInRetraction
  <2>3. conflict \subseteq Active \cap AssumptionClause
    BY <2>1 DEF Traced
  <2> SUFFICES ASSUME NEW m \in Models(conflict \cup (Active \ AssumptionClause))
               PROVE  FALSE
    BY <2>3
  <2> DEFINE A == {p \in Prop : supported_by[p] \in Visited}
  <2>4. /\ m \in [Prop -> {"PTRUE", "PFALSE"}]
        /\ \A d \in conflict \cup (Active \ AssumptionClause) :
             \E l \in lits[d] : m[l[1]] = l[2]
    BY DEF Models
  <2>5. A \in SUBSET (Assigned \ undo_list)
    <3>1. NULL \notin Visited
      BY NullAssumption DEF Visited, DataOK
    <3> QED BY <2>2, <3>1 DEF JInv, JustificationsExact, JustifiedBut, Assigned
  <2>6. ASSUME NEW p \in A
        PROVE  /\ PropsOf(supported_by[p]) \subseteq A
               /\ \E l \in lits[supported_by[p]] : m[l[1]] = l[2]
    <3> DEFINE d == supported_by[p]
    <3>1. d \in Visited /\ d \in clauses /\ d \in Active /\ d \in Clause /\ Justifies(d, p)
      BY <2>1, <2>2, <2>5 DEF Traced, Visited, JInv, JustificationsExact, JustifiedBut, DataOK
    <3>2. PropsOf(d) \subseteq Prop
      BY <3>1 DEF PropsOf, DataOK, Literal
    <3>3. CASE d \in AssumptionClause
      <4>1. PICK q \in Prop : lits[d] = {<<q, "PTRUE">>}
        BY <3>1, <3>3 DEF TraceInv
      <4>2. PropsOf(d) = {q} /\ q = p
        BY <3>1, <4>1 DEF PropsOf, Justifies
      <4>3. d \in conflict
        BY <2>1, <3>1, <3>3 DEF Traced
      <4> QED BY <2>4, <4>2, <4>3
    <3>4. CASE d \notin AssumptionClause
      <4>1. \A q \in PropsOf(d) : supported_by[q] \in Visited
        BY <2>1, <2>2, <3>1, <3>4 DEF Traced
      <4> QED BY <2>4, <3>1, <3>2, <3>4, <4>1
    <3> QED BY <3>3, <3>4
  <2>7. \A p \in A : m[p] = tv[p]
    <3> HIDE DEF A
    <3> QED BY <2>4, <2>5, <2>6, SupportEntails DEF JInv
  <2>8. /\ u \in Active /\ u \in Clause /\ PropsOf(u) \subseteq Assigned
        /\ \A l \in lits[u] : tv[l[1]] = Opposite(l[2])
    BY <2>1, FalsifiedClause
  <2>9. PropsOf(u) \subseteq A
    BY <2>1, <2>2, <2>8 DEF Traced, Assigned
  <2>10. u \in conflict \cup (Active \ AssumptionClause)
    BY <2>1, <2>8 DEF Traced
  <2>11. PICK l \in lits[u] : m[l[1]] = l[2]
    BY <2>4, <2>10
  <2>12. l[1] \in PropsOf(u) /\ l[2] \in {"PTRUE", "PFALSE"}
    BY <2>8, <2>11 DEF PropsOf, DataOK, Literal
  <2> QED BY <2>7, <2>8, <2>9, <2>11, <2>12 DEF Opposite
<1> QED
  BY <1>1, DataTyped, CachesAlwaysExact, JInvHolds,
     SupportAlwaysWellFounded, VerdictsHold, TracesHold, PTL

-----------------------------------------------------------------------------
(* The integrity tests of the code *)

(* The trace only meets clauses that all of whose propositions have values. *)
MetAssigned == pc = "last_conflict" => \A d \in Visited : PropsOf(d) \subseteq Assigned

(* The clause that a trace meets justifies a value. *)
LEMMA MetAssignedStep ==
  DataOK /\ JInv /\ TraceInv /\ MetAssigned /\ [Next]_vars => MetAssigned'
<1> SUFFICES ASSUME DataOK, JInv, TraceInv, MetAssigned, [Next]_vars,
                    pc' = "last_conflict", NEW d \in Visited'
             PROVE  PropsOf(d)' \subseteq Assigned'
  BY DEF MetAssigned
<1>1. \/ \E c \in Clause : last_conflict(c) \/ get_clause_support(c)
      \/ UNCHANGED vars
  BY DEF Next, Call, Run, create_clause, add, remove, finish_destroying, propagate,
         undo_propagations, undo_propagations_return, propagate_clause,
         propagate_return, last_conflict_return
<1>2. CASE \E c \in Clause : last_conflict(c)
  BY <1>2, NewVisit
<1>3. ASSUME NEW c \in Clause, get_clause_support(c)
      PROVE  PropsOf(d)' \subseteq Assigned'
  <2>1. /\ pc = "last_conflict" /\ undo_list = {}
        /\ NULL \notin {supported_by[p] : p \in PropsOf(c)}
        /\ lits' = lits /\ tv' = tv /\ clauses' = clauses /\ time_stamp' = time_stamp
        /\ \A e \in Clause : \/ stamp'[e] = stamp[e]
                             \/ e \in {supported_by[p] : p \in PropsOf(c)}
    BY <1>3 DEF get_clause_support, theoryVars, supportVars, JInv, UndoOnlyInRetraction
  <2>2. PropsOf(d)' = PropsOf(d) /\ Assigned' = Assigned
    BY <2>1 DEF PropsOf, Assigned
  <2>3. CASE d \in Visited
    BY <2>1, <2>2, <2>3 DEF MetAssigned
  <2>4. CASE d \notin Visited
    <3>1. PICK p \in PropsOf(c) : d = supported_by[p]
      BY <2>1, <2>4 DEF Visited, DataOK
    <3>2. p \in Assigned /\ d # NULL
      BY <2>1, <3>1
      DEF PropsOf, Assigned, JInv, JustificationsExact, JustifiedBut, DataOK, Literal
    <3>3. d \in Clause /\ Justifies(d, p)
      BY <2>1, <3>1, <3>2 DEF JInv, JustificationsExact, JustifiedBut, Active, DataOK
    <3>4. PropsOf(d) \subseteq Prop
      BY <3>3 DEF PropsOf, DataOK, Literal
    <3> QED BY <2>2, <3>2, <3>3, <3>4, JustifiedClause DEF Assigned
  <2> QED BY <2>3, <2>4
<1>4. CASE UNCHANGED vars
  BY <1>4
  DEF MetAssigned, Visited, PropsOf, Assigned, vars, theoryVars, supportVars, traceVars
<1> QED BY <1>1, <1>2, <1>3, <1>4

(* A proposition without a value occurs in a clause no more often than the clause
   has unassigned literals; one with a value leaves room for its own. *)
LEMMA CountsHaveRoom ==
  ASSUME DataOK, CachesExact, NEW d \in Active, NEW p \in Prop
  PROVE  /\ tv[p] = "UNKNOWN" => num_unassigned[d] >= Occurrences(p, d)
         /\ tv[p] # "UNKNOWN" =>
              num_unassigned[d] + Occurrences(p, d) <= Cardinality(lits[d])
<1> DEFINE S == lits[d]
<1>1. IsFiniteSet(S) /\ S \in SUBSET Literal /\ d \in Clause
  BY FiniteLits DEF Active, DataOK
<1>2. num_unassigned[d] = CountIn(S, tv) /\ Occurrences(p, d) = OccursIn(S, p)
  BY DEF CachesExact, count_unassigned, Unassigned, CountIn, Occurrences, OccursIn
<1>3. ASSUME NEW f
      PROVE  CountIn(S, f) \in Nat /\ Cardinality(S) \in Nat
               /\ CountIn(S, f) <= Cardinality(S)
  BY <1>1, FS_Subset, FS_CardinalityType DEF CountIn
<1>4. OccursIn(S, p) \in Nat
  BY DEF OccursIn
<1>5. ASSUME tv[p] = "UNKNOWN" PROVE num_unassigned[d] >= Occurrences(p, d)
  <2> DEFINE g == [tv EXCEPT ![p] = "PTRUE"]
  <2>1. g[p] # "UNKNOWN" /\ \A q \in Prop \ {p} : g[q] = tv[q]
    BY DEF DataOK
  <2> HIDE DEF g, S
  <2>2. CountIn(S, tv) = CountIn(S, g) + OccursIn(S, p)
    BY <1>1, <1>5, <2>1, Recount
  <2> QED BY <1>2, <1>3, <1>4, <2>2
<1>6. ASSUME tv[p] # "UNKNOWN"
      PROVE  num_unassigned[d] + Occurrences(p, d) <= Cardinality(S)
  <2> DEFINE f == [tv EXCEPT ![p] = "UNKNOWN"]
  <2>1. f[p] = "UNKNOWN" /\ \A q \in Prop \ {p} : tv[q] = f[q]
    BY DEF DataOK
  <2> HIDE DEF f, S
  <2>2. CountIn(S, f) = CountIn(S, tv) + OccursIn(S, p)
    BY <1>1, <1>6, <2>1, Recount
  <2> QED BY <1>2, <1>3, <2>2
<1> QED BY <1>5, <1>6

(* None of the integrity tests of the code ever fires: a value without support, a
   count below zero or above the number of literals, a fringe clause without an
   unassigned literal, a trace that runs into a proposition without a value. *)
THEOREM IntegrityTestsPass == Spec => []NoIntegrityTestFails
<1>1. Init => MetAssigned
  BY DEF Init, MetAssigned
<1>2. DataOK /\ CachesExact /\ JInv /\ TraceInv /\ MetAssigned => NoIntegrityTestFails
  <2> SUFFICES ASSUME DataOK, CachesExact, JInv, TraceInv, MetAssigned
               PROVE  NoIntegrityTestFails
    OBVIOUS
  <2>1. ASSUME NEW p \in undo_list, tv[p] = "UNKNOWN" PROVE supported_by[p] = NULL
    BY <2>1 DEF JInv, JustificationsExact, JustifiedBut, DataOK
  <2>2. ASSUME NEW c \in FringeClauses
        PROVE  \E l \in Unassigned(c) :
                 \A d \in Active : num_unassigned[d] >= Occurrences(l[1], d)
    <3>1. c \in Clause /\ count_unassigned(c) = 1
      BY DEF FringeClauses, CachesExact, IsUnit, DataOK
    <3>2. PICK l : Unassigned(c) = {l}
      BY <3>1, FiniteLits, FS_Singleton DEF count_unassigned
    <3>3. l \in Unassigned(c) /\ l[1] \in Prop /\ tv[l[1]] = "UNKNOWN"
      BY <3>1, <3>2 DEF Unassigned, DataOK, Literal
    <3> QED BY <3>3, CountsHaveRoom
  <2>3. ASSUME NEW p \in undo_list \cap Assigned, NEW d \in Active
        PROVE  num_unassigned[d] + Occurrences(p, d) <= Cardinality(lits[d])
    BY CountsHaveRoom DEF Assigned
  <2>4. ASSUME pc = "last_conflict", NEW c \in stack, NEW p \in PropsOf(c)
        PROVE  supported_by[p] # NULL
    <3>1. PICK u \in unsatisfied : Traced(u)
      BY <2>4 DEF TraceInv
    <3>2. p \in Assigned
      BY <2>4, <3>1, FalsifiedClause DEF Traced, MetAssigned
    <3> QED BY <3>2 DEF Assigned, JInv, JustificationsExact, JustifiedBut
  <2> QED BY <2>1, <2>2, <2>3, <2>4 DEF NoIntegrityTestFails
<1>3. Spec => []MetAssigned
  BY <1>1, MetAssignedStep, DataTyped, JInvHolds, TracesHold, PTL DEF Spec
<1> QED
  BY <1>2, <1>3, DataTyped, CachesAlwaysExact, JInvHolds, TracesHold, PTL

-----------------------------------------------------------------------------
(* What a step may retract *)

(* What waits for undo has lost its clause or a premise. *)
UndoneUnsupported ==
  \A p \in undo_list :
    \/ supported_by[p] \notin Active
    \/ \E q \in PropsOf(supported_by[p]) \ {p} : tv[q] = "UNKNOWN"

(* unassign() queues a value whose clause holds the proposition it clears. *)
LEMMA UndoneUnsupportedStep ==
  DataOK /\ JInv /\ JInv' /\ UndoneUnsupported /\ [Next]_vars => UndoneUnsupported'
<1> SUFFICES ASSUME DataOK, JInv, JInv', UndoneUnsupported, [Next]_vars,
                    NEW r \in undo_list'
             PROVE  \/ supported_by'[r] \notin Active'
                    \/ \E q \in PropsOf(supported_by[r])' \ {r} : tv'[q] = "UNKNOWN"
  BY DEF UndoneUnsupported
<1>a. pc' \in {"remove", "finish_destroying"}
  BY DEF JInv, UndoOnlyInRetraction
<1>1. \/ \E c \in Clause : remove(c)
      \/ \E D \in SUBSET Prop : finish_destroying(D)
      \/ \E p \in Prop : undo_propagations(p)
      \/ UNCHANGED vars
  BY <1>a
  DEF Next, Call, Run, create_clause, add, propagate, last_conflict, propagate_clause,
      undo_propagations_return, propagate_return, get_clause_support,
      last_conflict_return, JInv, UndoOnlyInRetraction
<1>b. \A c \in Clause : supports[c] # NULL => supported_by[supports[c]] = c
  BY DEF JInv, JustificationsExact, JustifiedBut
<1>2. ASSUME NEW c \in Clause, remove(c) PROVE supported_by'[r] \notin Active'
  <2>1. undo_list = {} /\ supported_by' = supported_by /\ Active' = Active \ {c}
    BY <1>2 DEF remove, Active, JInv, UndoOnlyInRetraction
  <2>2. supports[c] # NULL /\ r = supports[c]
    BY <1>2, <2>1 DEF remove
  <2> QED BY <1>b, <2>1, <2>2
<1>3. ASSUME NEW D \in SUBSET Prop, finish_destroying(D)
      PROVE  supported_by'[r] \notin Active'
  <2> DEFINE doomed == {c \in clauses : PropsOf(c) \cap D # {}}
  <2>1. /\ undo_list' = {supports[c] : c \in doomed} \ (D \cup {NULL})
        /\ supported_by' = [p \in Prop |-> IF p \in D THEN NULL ELSE supported_by[p]]
        /\ clauses' = clauses \ doomed
    BY <1>3 DEF finish_destroying, JInv, UndoOnlyInRetraction
  <2>2. doomed \subseteq Clause
    BY DEF DataOK
  <2> HIDE DEF doomed
  <2>3. PICK c \in doomed : r = supports[c] /\ r \notin D /\ r # NULL
    BY <2>1
  <2>4. r \in Prop /\ supported_by'[r] = c
    BY <1>b, <2>1, <2>2, <2>3 DEF DataOK
  <2> QED BY <2>1, <2>3, <2>4 DEF Active
<1>4. ASSUME NEW p \in Prop, undo_propagations(p)
      PROVE  \/ supported_by'[r] \notin Active'
             \/ \E q \in PropsOf(supported_by[r])' \ {r} : tv'[q] = "UNKNOWN"
  <2>1. p \in undo_list /\ tv[p] # "UNKNOWN"
    BY <1>4
    DEF undo_propagations, JInv, JustificationsExact, JustifiedBut, Assigned
  <2> DEFINE v == tv[p]
             same == {d \in Active : <<p, v>> \in lits[d]}
             opposite == {d \in Active : <<p, Opposite(v)>> \in lits[d]}
             lost == {d \in same : satisfying_prop[d] = p
                                     /\ Satisfying(d) \ {<<p, v>>} = {}}
             reopened == fringe \cup {d \in lost : num_unassigned[d] + 1 = 1}
             released == {d \in opposite \ (unsatisfied \cup reopened) :
                            supports[d] # NULL}
  <2>2. /\ tv' = [tv EXCEPT ![p] = "UNKNOWN"]
        /\ supported_by' = [supported_by EXCEPT ![p] = NULL]
        /\ undo_list' = (undo_list \ {p}) \cup {supports[d] : d \in released}
        /\ lits' = lits /\ Active' = Active
    BY <1>4, <2>1 DEF undo_propagations, unassign, theoryVars, Active
  <2>3. \A d \in released : d \in Clause /\ supports[d] # NULL /\ p \in PropsOf(d)
    BY DEF Active, DataOK, PropsOf
  <2> HIDE DEF released
  <2>4. tv'[p] = "UNKNOWN" /\ \A q : tv[q] = "UNKNOWN" => tv'[q] = "UNKNOWN"
    BY <2>2 DEF DataOK
  <2>5. r # p /\ r \in Prop
    BY <2>2, <2>4 DEF JInv, JustificationsExact, JustifiedBut, Assigned
  <2>6. supported_by'[r] = supported_by[r]
    BY <2>2, <2>5 DEF DataOK
  <2>7. PropsOf(supported_by[r])' = PropsOf(supported_by[r])
    BY <2>2, <2>6 DEF PropsOf
  <2>8. CASE r \in undo_list
    BY <2>2, <2>4, <2>6, <2>7, <2>8 DEF UndoneUnsupported
  <2>9. CASE r \notin undo_list
    <3>1. PICK d \in released : r = supports[d]
      BY <2>2, <2>9
    <3>2. p \in PropsOf(supported_by[r])
      BY <1>b, <2>3, <3>1
    <3> QED BY <2>4, <2>5, <2>7, <3>2
  <2> QED BY <2>8, <2>9
<1>5. CASE UNCHANGED vars
  BY <1>5 DEF UndoneUnsupported, PropsOf, Active, vars, theoryVars, supportVars
<1> QED BY <1>1, <1>2, <1>3, <1>4, <1>5

(* A value is given up only when its justification is gone, and never replaced by
   the other one. *)
THEOREM RetractionIsJustified == Spec => OnlyUnsupportedRetracted
<1> DEFINE Kept(p) == tv'[p] # tv[p] =>
             /\ tv'[p] = "UNKNOWN"
             /\ \/ supported_by[p] \notin Active'
                \/ \E q \in PropsOf(supported_by[p]) \ {p} : tv'[q] = "UNKNOWN"
<1>1. Init => UndoneUnsupported
  BY DEF Init, UndoneUnsupported
<1>2. ASSUME DataOK, JInv, UndoneUnsupported, [Next]_vars, NEW p \in Assigned
      PROVE  Kept(p)
  <2>a. p \in Prop /\ tv[p] # "UNKNOWN"
    BY DEF Assigned
  <2>1. \/ tv' = tv
        \/ \E D \in SUBSET Prop : finish_destroying(D)
        \/ \E q \in undo_list : undo_propagations(q) /\ unassign(q)
        \/ \E c \in Clause : propagate_clause(c)
    BY <1>2
    DEF Next, Call, Run, create_clause, add, remove, propagate, last_conflict,
        undo_propagations, undo_propagations_return, propagate_return,
        get_clause_support, last_conflict_return, supportVars, vars
  <2>2. ASSUME NEW D \in SUBSET Prop, finish_destroying(D) PROVE Kept(p)
    <3> SUFFICES ASSUME tv'[p] # tv[p]
                 PROVE  tv'[p] = "UNKNOWN" /\ supported_by[p] \notin Active'
      OBVIOUS
    <3>1. tv' = [q \in Prop |-> IF q \in D THEN "UNKNOWN" ELSE tv[q]]
      BY <2>2 DEF finish_destroying
    <3>2. p \in D /\ tv'[p] = "UNKNOWN"
      BY <2>a, <3>1
    <3>3. undo_list = {}
      BY <1>2, <2>2 DEF finish_destroying, JInv, UndoOnlyInRetraction
    <3>4. Justifies(supported_by[p], p)
      BY <1>2, <3>3 DEF JInv, JustificationsExact, JustifiedBut
    <3>5. p \in PropsOf(supported_by[p])
      BY <3>4 DEF Justifies, PropsOf
    <3>6. clauses' = clauses \ {c \in clauses : PropsOf(c) \cap D # {}}
      BY <2>2 DEF finish_destroying
    <3>7. supported_by[p] \notin Active'
      BY <3>2, <3>5, <3>6 DEF Active
    <3> QED BY <3>2, <3>7
  <2>3. ASSUME NEW q \in undo_list, undo_propagations(q), unassign(q) PROVE Kept(p)
    <3>1. tv' = [tv EXCEPT ![q] = "UNKNOWN"] /\ Active' = Active
      BY <2>3 DEF unassign, undo_propagations, theoryVars, Active
    <3>2. tv'[p] # tv[p] => p = q /\ tv'[p] = "UNKNOWN"
      BY <1>2, <2>a, <3>1 DEF DataOK
    <3>3. \A o : tv[o] = "UNKNOWN" => tv'[o] = "UNKNOWN"
      BY <1>2, <3>1 DEF DataOK
    <3> QED BY <1>2, <3>1, <3>2, <3>3 DEF UndoneUnsupported
  <2>4. ASSUME NEW c \in Clause, propagate_clause(c) PROVE Kept(p)
    <3>1. PICK l \in Unassigned(c) : tv' = [tv EXCEPT ![l[1]] = l[2]]
      BY <2>4 DEF propagate_clause, assign
    <3>2. l[1] # p
      BY <2>a, <3>1 DEF Unassigned
    <3> QED BY <1>2, <2>a, <3>1, <3>2 DEF DataOK
  <2> QED BY <2>1, <2>2, <2>3, <2>4
<1>3. DataOK /\ JInv /\ UndoneUnsupported /\ [Next]_vars
        => [\A p \in Assigned : Kept(p)]_vars
  BY <1>2
<1>4. Spec => []UndoneUnsupported
  BY <1>1, UndoneUnsupportedStep, DataTyped, JInvHolds, PTL DEF Spec
<1> QED
  BY <1>3, <1>4, DataTyped, JInvHolds, PTL DEF Spec, OnlyUnsupportedRetracted

=============================================================================
