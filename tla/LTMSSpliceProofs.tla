-------------------------- MODULE LTMSSpliceProofs --------------------------
(***************************************************************************)
(* move_support() keeps the caches, for every theory, every replacement of *)
(* propositions by new ones and each of its three cases, but for the       *)
(* clauses that the second case leaves wrong.  The other two cases keep    *)
(* the justifications as well.                                             *)
(***************************************************************************)
EXTENDS LTMSSplice, LTMSProofs

(* The new proposition r has the value of p; the clauses cs do not hold it yet. *)
Taking(p, cs, r) ==
  /\ cs \subseteq Active
  /\ p # r /\ tv[p] # "UNKNOWN" /\ tv[r] = tv[p]
  /\ \A c \in cs : r \notin PropsOf(c)

(* It has the support of p as well. *)
Replacing(p, cs, r) ==
  /\ Taking(p, cs, r)
  /\ supported_by[p] \in cs /\ supported_by[r] = supported_by[p]
  /\ JustifiedBut({r})

(* What has a value has a support, if not always one that forces the value. *)
ValuesSupported == \A p \in Prop : tv[p] = "UNKNOWN" <=> supported_by[p] = NULL

(* In all the cases of move_support(). *)
CachesInv ==
  /\ DataOK /\ ValuesSupported /\ CachesExactBut(unsettled) /\ VerdictInv
  /\ pc = "transfer_clauses" =>
       \E p \in Prop, r \in Prop, cs \in SUBSET Clause :
         moving = <<p, cs, r>> /\ Taking(p, cs, r)
  /\ pc = "unassign" => moving[1] \in Prop /\ tv[moving[1]] # "UNKNOWN"

(* In the first and the third case.  In the middle of move_support() one value at a
   time has no clause that forces it: first that of the new proposition, then that
   of the old one. *)
SpliceInv ==
  /\ CachesInv /\ unsettled = {} /\ UndoOnlyInRetraction
  /\ CASE pc = "transfer_clauses" ->
            \E p \in Prop, r \in Prop, cs \in SUBSET Clause :
              moving = <<p, cs, r>> /\ Replacing(p, cs, r)
       [] pc = "unassign" -> moving[1] \in Prop /\ JustifiedBut({moving[1]})
       [] OTHER -> JustificationsExact

-----------------------------------------------------------------------------
(* The literals of a clause after r took the place of p. *)
LEMMA SwappedLiterals ==
  ASSUME DataOK, NEW c \in Clause, NEW p \in Prop, NEW r \in Prop
  PROVE  /\ swapped(c, p, r) \subseteq Literal
         /\ \A k \in swapped(c, p, r) :
              \/ k \in lits[c] /\ k[1] # p
              \/ \E v \in {"PTRUE", "PFALSE"} : k = <<r, v>> /\ <<p, v>> \in lits[c]
         /\ \A k \in lits[c] : k[1] # p => k \in swapped(c, p, r)
         /\ \A v : <<p, v>> \in lits[c] => <<r, v>> \in swapped(c, p, r)
<1>1. \A l \in lits[c] : /\ l \in Literal /\ l[2] \in {"PTRUE", "PFALSE"}
                         /\ l[1] = p => l = <<p, l[2]>>
  BY DEF DataOK, Literal
<1>2. \A v \in {"PTRUE", "PFALSE"} : <<r, v>> \in Literal
  BY DEF Literal
<1>3. ASSUME NEW v, <<p, v>> \in lits[c] PROVE <<r, v>> \in swapped(c, p, r)
  <2>1. <<p, v>>[1] = p /\ <<p, v>>[2] = v
    OBVIOUS
  <2> QED BY <1>3, <2>1 DEF swapped
<1>4. \A k \in lits[c] : k[1] # p => k \in swapped(c, p, r)
  BY DEF swapped
<1>5. ASSUME NEW k \in swapped(c, p, r)
      PROVE  \/ k \in lits[c] /\ k[1] # p
             \/ \E v \in {"PTRUE", "PFALSE"} : k = <<r, v>> /\ <<p, v>> \in lits[c]
  BY <1>1 DEF swapped
<1>6. swapped(c, p, r) \subseteq Literal
  BY <1>1, <1>2, <1>5
<1> QED
  BY <1>3, <1>4, <1>5, <1>6

(* Where neither has a value, r in the place of p leaves the count alone. *)
LEMMA SwappedCount ==
  ASSUME DataOK, NEW c \in Clause, NEW p \in Prop, NEW r \in Prop, r \notin PropsOf(c),
         NEW g, g[p] = "UNKNOWN", g[r] = "UNKNOWN"
  PROVE  CountIn(swapped(c, p, r), g) = CountIn(lits[c], g)
<1> DEFINE S == {l \in lits[c] : g[l[1]] = "UNKNOWN"}
           T == {k \in swapped(c, p, r) : g[k[1]] = "UNKNOWN"}
           f == [l \in S |-> IF l[1] = p THEN <<r, l[2]>> ELSE l]
<1>1. \A l \in S : /\ l \in lits[c] /\ g[l[1]] = "UNKNOWN" /\ l[1] # r
                   /\ l = <<l[1], l[2]>> /\ l[2] \in {"PTRUE", "PFALSE"}
  BY DEF DataOK, Literal, PropsOf
<1>2. f \in [S -> T]
  <2> SUFFICES ASSUME NEW l \in S PROVE (IF l[1] = p THEN <<r, l[2]>> ELSE l) \in T
    OBVIOUS
  <2>1. CASE l[1] = p
    <3>1. <<p, l[2]>> \in lits[c]
      BY <1>1, <2>1
    <3>2. <<r, l[2]>> \in swapped(c, p, r)
      BY <3>1, SwappedLiterals
    <3> QED BY <2>1, <3>2
  <2>2. CASE l[1] # p
    BY <1>1, <2>2, SwappedLiterals
  <2> QED BY <2>1, <2>2
<1>3. \A k, l \in S : f[k] = f[l] => k = l
  <2> SUFFICES ASSUME NEW k \in S, NEW l \in S, f[k] = f[l] PROVE k = l
    OBVIOUS
  <2>1. f[k] = (IF k[1] = p THEN <<r, k[2]>> ELSE k)
        /\ f[l] = (IF l[1] = p THEN <<r, l[2]>> ELSE l)
    OBVIOUS
  <2>2. /\ k = <<k[1], k[2]>> /\ l = <<l[1], l[2]>> /\ k[1] # r /\ l[1] # r
        /\ <<r, k[2]>>[1] = r /\ <<r, l[2]>>[1] = r
        /\ <<r, k[2]>>[2] = k[2] /\ <<r, l[2]>>[2] = l[2]
    BY <1>1
  <2> HIDE DEF f, S
  <2>3. CASE k[1] = p /\ l[1] = p
    BY <2>1, <2>2, <2>3
  <2>4. CASE k[1] # p /\ l[1] # p
    BY <2>1, <2>2, <2>4
  <2>5. CASE (k[1] = p) # (l[1] = p)
    BY <2>1, <2>2, <2>5, ZenonT(60)
  <2> QED BY <2>3, <2>4, <2>5
<1>4. \A k \in T : \E l \in S : f[l] = k
  <2> SUFFICES ASSUME NEW k \in T PROVE \E l \in S : f[l] = k
    OBVIOUS
  <2>1. CASE k \in lits[c] /\ k[1] # p
    BY <2>1
  <2>2. CASE ~(k \in lits[c] /\ k[1] # p)
    <3>1. PICK v \in {"PTRUE", "PFALSE"} : k = <<r, v>> /\ <<p, v>> \in lits[c]
      BY <2>2, SwappedLiterals
    <3>2. <<p, v>> \in S
      BY <3>1
    <3>3. f[<<p, v>>] = k
      BY <3>1, <3>2
    <3> QED BY <3>2, <3>3
  <2> QED BY <2>1, <2>2
<1> HIDE DEF f, S, T
<1>5. f \in Bijection(S, T)
  BY <1>2, <1>3, <1>4 DEF Bijection, Injection, Surjection, IsInjective
<1>6. IsFiniteSet(S)
  BY FiniteLits, FS_Subset DEF S
<1>7. Cardinality(T) = Cardinality(S)
  BY <1>5, <1>6, FS_Bijection DEF ExistsBijection
<1> QED
  BY <1>7 DEF S, T, CountIn

-----------------------------------------------------------------------------
(* The caches when clauses are moved *)

(* A moved clause when the value of p, if it has one, stays behind: it loses the
   literals of p that satisfied it, and has as many more to assign. *)
LEMMA LeftBehind ==
  ASSUME DataOK, NEW c \in Clause, NEW p \in Prop, NEW r \in Prop,
         r \notin PropsOf(c), tv[r] = "UNKNOWN"
  PROVE  /\ {k \in swapped(c, p, r) : tv[k[1]] = k[2]} = {l \in Satisfying(c) : l[1] # p}
         /\ CountIn(swapped(c, p, r), tv)
              = count_unassigned(c) + (IF tv[p] = "UNKNOWN" THEN 0 ELSE Occurrences(p, c))
<1>1. {k \in swapped(c, p, r) : tv[k[1]] = k[2]} = {l \in Satisfying(c) : l[1] # p}
  <2>1. ASSUME NEW k \in swapped(c, p, r), tv[k[1]] = k[2]
        PROVE  k \in lits[c] /\ k[1] # p
    <3> SUFFICES ASSUME ~(k \in lits[c] /\ k[1] # p) PROVE FALSE
      OBVIOUS
    <3>1. \/ k \in lits[c] /\ k[1] # p
          \/ \E v \in {"PTRUE", "PFALSE"} : k = <<r, v>> /\ <<p, v>> \in lits[c]
      BY SwappedLiterals
    <3>2. PICK v \in {"PTRUE", "PFALSE"} : k = <<r, v>>
      BY <3>1
    <3>3. k[1] = r /\ k[2] = v
      BY <3>2
    <3> QED BY <2>1, <3>3
  <2>2. \A l \in lits[c] : l[1] # p => l \in swapped(c, p, r)
    BY SwappedLiterals
  <2> QED BY <2>1, <2>2 DEF Satisfying
<1>2. CountIn(lits[c], tv) = count_unassigned(c)
  BY DEF CountIn, count_unassigned, Unassigned
<1>3. CASE tv[p] = "UNKNOWN"
  <2>1. CountIn(swapped(c, p, r), tv) = CountIn(lits[c], tv)
    BY <1>3, SwappedCount
  <2>2. count_unassigned(c) \in Nat
    BY FiniteLits
  <2> QED BY <1>1, <1>2, <1>3, <2>1, <2>2
<1>4. CASE tv[p] # "UNKNOWN"
  <2> DEFINE g == [tv EXCEPT ![p] = "UNKNOWN"]
  <2>1. /\ g[p] = "UNKNOWN" /\ g[r] = "UNKNOWN" /\ p # r
        /\ \A q \in Prop \ {p} : tv[q] = g[q]
    BY <1>4 DEF DataOK
  <2> HIDE DEF g
  <2>2. CountIn(swapped(c, p, r), g) = CountIn(lits[c], g)
    BY <2>1, SwappedCount
  <2>3. IsFiniteSet(lits[c]) /\ lits[c] \in SUBSET Literal
    BY FiniteLits DEF DataOK
  <2>4. CountIn(lits[c], g) = CountIn(lits[c], tv) + OccursIn(lits[c], p)
    BY <1>4, <2>1, <2>3, Recount
  <2>5. ASSUME NEW k \in swapped(c, p, r) PROVE k[1] \in Prop /\ k[1] # p
    <3>1. swapped(c, p, r) \subseteq Literal
      BY SwappedLiterals
    <3>2. k[1] \in Prop
      BY <3>1 DEF Literal
    <3>3. \/ k \in lits[c] /\ k[1] # p
          \/ \E v \in {"PTRUE", "PFALSE"} : k = <<r, v>> /\ <<p, v>> \in lits[c]
      BY SwappedLiterals
    <3> QED BY <2>1, <3>2, <3>3
  <2>6. CountIn(swapped(c, p, r), tv) = CountIn(swapped(c, p, r), g)
    <3>1. {k \in swapped(c, p, r) : tv[k[1]] = "UNKNOWN"}
            = {k \in swapped(c, p, r) : g[k[1]] = "UNKNOWN"}
      BY <2>1, <2>5
    <3> QED BY <3>1 DEF CountIn
  <2>7. OccursIn(lits[c], p) = Occurrences(p, c)
    BY DEF OccursIn, Occurrences
  <2> QED BY <1>1, <1>2, <1>4, <2>2, <2>4, <2>6, <2>7
<1> QED BY <1>3, <1>4

(* The first two cases of move_support() leave the caches of no other clause
   wrong than those that were unsettled. *)
LEMMA UnsupportedCaches ==
  ASSUME DataOK, ValuesSupported, NEW K, CachesExactBut(K),
         NEW p \in Prop, NEW r \in Prop, NEW cs \in SUBSET Active, Fresh(r, cs),
         transfer_clauses(p, r, cs, supported_by[p] # NULL),
         UNCHANGED <<clauses, deleted, fringe, unsatisfied, tv>>,
         NEW K1, K \subseteq K1, supported_by[p] # NULL => Unsettled(p, cs) \subseteq K1
  PROVE  CachesExactBut(K1)'
<1>1. /\ Active' = Active /\ Active \subseteq Clause /\ tv' = tv /\ tv[r] = "UNKNOWN"
      /\ lits' = [c \in Clause |-> IF c \in cs THEN swapped(c, p, r) ELSE lits[c]]
      /\ num_unassigned' = [c \in Clause |->
            IF c \in cs /\ tv[p] # "UNKNOWN" THEN num_unassigned[c] + Occurrences(p, c)
                                             ELSE num_unassigned[c]]
      /\ satisfying_prop' = [c \in Clause |->
            IF c \in cs /\ satisfying_prop[c] = p THEN r ELSE satisfying_prop[c]]
  BY DEF Active, DataOK, Fresh, ValuesSupported, transfer_clauses
<1>2. ASSUME NEW c \in Active \ K1, c \notin cs PROVE ClauseExact(c)'
  <2>1. ClauseExact(c) /\ c \in Clause
    BY <1>1 DEF CachesExactBut
  <2>2. lits'[c] = lits[c] /\ num_unassigned'[c] = num_unassigned[c]
        /\ satisfying_prop'[c] = satisfying_prop[c]
    BY <1>1, <1>2, <2>1
  <2>3. /\ Satisfying(c)' = Satisfying(c)
        /\ count_unassigned(c)' = count_unassigned(c)
        /\ IsUnit(c)' <=> IsUnit(c)
        /\ IsFalsified(c)' <=> IsFalsified(c)
    BY <1>1, <2>1, <2>2, SameCaches
  <2> QED BY <2>1, <2>2, <2>3 DEF ClauseExact
<1>3. ASSUME NEW c \in Active \ K1, c \in cs PROVE ClauseExact(c)'
  <2> DEFINE more == IF tv[p] = "UNKNOWN" THEN 0 ELSE Occurrences(p, c)
  <2>1. /\ ClauseExact(c) /\ c \in Clause /\ r \notin PropsOf(c)
        /\ lits'[c] = swapped(c, p, r)
    BY <1>1, <1>3 DEF CachesExactBut, Fresh
  <2>2. /\ Satisfying(c)' = {l \in Satisfying(c) : l[1] # p}
        /\ count_unassigned(c)' = count_unassigned(c) + more
    BY <1>1, <2>1, LeftBehind DEF Satisfying, count_unassigned, Unassigned, CountIn
  <2>3. count_unassigned(c) \in Nat /\ more \in Nat
    BY <2>1, FiniteLits DEF Occurrences
  <2>4. num_unassigned'[c] = count_unassigned(c)'
    BY <1>1, <1>3, <2>1, <2>2, <2>3 DEF ClauseExact
  <2>5. p \notin PropsOf(c) => more = 0
    BY DEF PropsOf, Occurrences
  <2>6. tv[p] # "UNKNOWN" /\ p \in PropsOf(c) =>
          satisfying_prop[c] # p /\ c \notin fringe \cup unsatisfied
    BY <1>3 DEF Unsettled, ValuesSupported
  <2>7. satisfying_prop[c] # p
    <3>1. CASE p \in PropsOf(c) /\ tv[p] # "UNKNOWN"
      BY <2>6, <3>1
    <3>2. CASE p \notin PropsOf(c) \/ tv[p] = "UNKNOWN"
      <4>1. \A l \in Satisfying(c) : l[1] # p
        BY <2>1, <3>2 DEF Satisfying, PropsOf, DataOK, Literal
      <4> QED BY <2>1, <4>1, NullAssumption DEF ClauseExact
    <3> QED BY <3>1, <3>2
  <2>8. satisfying_prop'[c] = satisfying_prop[c]
    BY <1>1, <2>1, <2>7
  <2>9. IF Satisfying(c)' = {}
          THEN Satisfying(c) = {} /\ satisfying_prop'[c] = NULL
          ELSE \E l \in Satisfying(c)' : l[1] = satisfying_prop'[c]
    <3>1. CASE Satisfying(c) = {}
      BY <2>1, <2>2, <2>8, <3>1 DEF ClauseExact
    <3>2. CASE Satisfying(c) # {}
      <4>1. PICK l \in Satisfying(c) : l[1] = satisfying_prop[c]
        BY <2>1, <3>2 DEF ClauseExact
      <4>2. l \in Satisfying(c)'
        BY <2>2, <2>7, <4>1
      <4> QED BY <2>8, <4>1, <4>2
    <3> QED BY <3>1, <3>2
  <2>10. Satisfying(c)' = {} <=> Satisfying(c) = {}
    BY <2>2, <2>9
  <2>11. /\ c \in fringe <=> Satisfying(c) = {} /\ count_unassigned(c) = 1
         /\ c \in unsatisfied <=> Satisfying(c) = {} /\ count_unassigned(c) = 0
    BY <2>1 DEF ClauseExact, IsUnit, IsFalsified
  <2>12. more = 0 \/ c \notin fringe \cup unsatisfied
    BY <2>5, <2>6
  <2> HIDE DEF more
  <2>13. /\ c \in fringe <=> Satisfying(c)' = {} /\ count_unassigned(c)' = 1
         /\ c \in unsatisfied <=> Satisfying(c)' = {} /\ count_unassigned(c)' = 0
    BY <2>2, <2>3, <2>10, <2>11, <2>12
  <2> QED
    BY <2>4, <2>9, <2>13 DEF ClauseExact, IsUnit, IsFalsified
<1>4. (fringe' \cup unsatisfied') \ K1 \subseteq Active'
  BY <1>1 DEF CachesExactBut
<1> QED BY <1>1, <1>2, <1>3, <1>4 DEF CachesExactBut

(* In the third case the caches of a clause are as before when r, which has the
   value of p, takes its place. *)
LEMMA TransferCaches ==
  ASSUME DataOK, NEW K, CachesExactBut(K),
         NEW p \in Prop, NEW r \in Prop, NEW cs \in SUBSET Clause, Taking(p, cs, r),
         transfer_clauses(p, r, cs, FALSE),
         UNCHANGED <<clauses, deleted, fringe, unsatisfied, tv>>
  PROVE  CachesExactBut(K)'
<1> DEFINE v == tv[p]
           Live == Active \ K
<1>1. /\ Live \subseteq Clause /\ p # r
      /\ v \in {"PTRUE", "PFALSE"} /\ tv[r] = v
      /\ \A c \in cs : \A l \in lits[c] : l[1] # r
  BY DEF Taking, Active, DataOK, PropsOf
<1>2. /\ lits' = [c \in Clause |-> IF c \in cs THEN swapped(c, p, r) ELSE lits[c]]
      /\ num_unassigned' = [c \in Clause |-> num_unassigned[c]]
      /\ satisfying_prop' = [c \in Clause |->
            IF c \in cs /\ satisfying_prop[c] = p THEN r ELSE satisfying_prop[c]]
      /\ Active' = Active /\ tv' = tv
  BY DEF transfer_clauses, Active
<1>3. ASSUME NEW c \in Live
      PROVE  /\ Satisfying(c)' = {} <=> Satisfying(c) = {}
             /\ Unassigned(c)' = Unassigned(c)
             /\ IF Satisfying(c)' = {}
                  THEN satisfying_prop'[c] = NULL
                  ELSE \E l \in Satisfying(c)' : l[1] = satisfying_prop'[c]
  <2>a. c \in Clause
    BY <1>1
  <2>b. IF Satisfying(c) = {}
          THEN satisfying_prop[c] = NULL
          ELSE \E l \in Satisfying(c) : l[1] = satisfying_prop[c]
    BY DEF CachesExactBut, ClauseExact
  <2>1. CASE c \in cs
    <3>1. /\ lits'[c] = swapped(c, p, r)
          /\ satisfying_prop'[c] = IF satisfying_prop[c] = p THEN r
                                                             ELSE satisfying_prop[c]
      BY <1>2, <2>1, <2>a
    <3>2. /\ \A k \in lits'[c] :
               \/ k \in lits[c] /\ k[1] # p
               \/ \E w \in {"PTRUE", "PFALSE"} : k = <<r, w>> /\ <<p, w>> \in lits[c]
          /\ \A k \in lits[c] : k[1] # p => k \in lits'[c]
          /\ \A w : <<p, w>> \in lits[c] => <<r, w>> \in lits'[c]
      BY <2>a, <3>1, SwappedLiterals
    <3>3. \A l \in lits[c] : l[1] = p => l = <<p, l[2]>> /\ l[2] \in {"PTRUE", "PFALSE"}
      BY <2>a DEF DataOK, Literal
    <3>4. Unassigned(c)' = Unassigned(c)
      BY <1>1, <1>2, <3>2 DEF Unassigned
    <3>5. \A k \in Satisfying(c)' : k[1] # r => k \in Satisfying(c)
      BY <1>2, <3>2, SMTT(30) DEF Satisfying
    <3>6. ASSUME NEW k \in Satisfying(c)', k[1] = r PROVE <<p, v>> \in Satisfying(c)
      <4>1. k \in lits'[c] /\ k[2] = v /\ k \notin lits[c]
        BY <1>1, <1>2, <2>1, <3>6 DEF Satisfying
      <4>2. PICK w \in {"PTRUE", "PFALSE"} : k = <<r, w>> /\ <<p, w>> \in lits[c]
        BY <3>2, <4>1
      <4>3. w = v /\ <<p, v>>[1] = p /\ <<p, v>>[2] = v
        BY <4>1, <4>2
      <4> QED BY <4>2, <4>3 DEF Satisfying
    <3>7. \A l \in Satisfying(c) : l[1] # p => l \in Satisfying(c)'
      BY <1>2, <3>2 DEF Satisfying
    <3>8. \A l \in Satisfying(c) : l[1] = p => <<r, v>> \in Satisfying(c)'
      BY <1>1, <1>2, <3>2, <3>3, ZenonT(60) DEF Satisfying
    <3>9. Satisfying(c)' = {} <=> Satisfying(c) = {}
      BY <3>5, <3>6, <3>7, <3>8
    <3>10. CASE Satisfying(c) = {}
      BY <2>b, <3>1, <3>4, <3>9, <3>10, NullAssumption
    <3>11. CASE Satisfying(c) # {}
      <4>1. PICK l \in Satisfying(c) : l[1] = satisfying_prop[c]
        BY <2>b, <3>11
      <4>2. CASE l[1] = p
        <5>1. <<r, v>> \in Satisfying(c)' /\ satisfying_prop'[c] = r
          BY <3>1, <3>8, <4>1, <4>2
        <5> QED BY <3>4, <3>9, <3>11, <5>1
      <4>3. CASE l[1] # p
        BY <3>1, <3>4, <3>7, <3>9, <3>11, <4>1, <4>3
      <4> QED BY <4>2, <4>3
    <3> QED BY <3>10, <3>11
  <2>2. CASE c \notin cs
    <3>1. lits'[c] = lits[c] /\ satisfying_prop'[c] = satisfying_prop[c]
      BY <1>2, <2>2, <2>a
    <3>2. Satisfying(c)' = Satisfying(c) /\ Unassigned(c)' = Unassigned(c)
      BY <1>2, <2>a, <3>1, SameCaches
    <3> QED BY <2>b, <3>1, <3>2
  <2> QED BY <2>1, <2>2
<1>4. \A c \in Live : ClauseExact(c)'
  BY <1>1, <1>2, <1>3, ZenonT(60)
  DEF CachesExactBut, ClauseExact, IsUnit, IsFalsified, count_unassigned
<1> QED BY <1>2, <1>4 DEF CachesExactBut

-----------------------------------------------------------------------------
(* The justifications when clauses are moved *)

(* move_support() of a proposition without a value disturbs none. *)
LEMMA UnsupportedMoves ==
  ASSUME DataOK, JustificationsExact, NEW p \in Prop, NEW r \in Prop,
         NEW cs \in SUBSET Active, supported_by[p] = NULL,
         transfer_clauses(p, r, cs, FALSE),
         UNCHANGED <<clauses, deleted, tv, supported_by, undo_list>>
  PROVE  JustificationsExact'
<1>1. /\ tv[p] = "UNKNOWN" /\ Active' = Active
      /\ Active \subseteq Clause /\ Assigned' = Assigned
      /\ lits' = [c \in Clause |-> IF c \in cs THEN swapped(c, p, r) ELSE lits[c]]
  BY DEF JustificationsExact, JustifiedBut, Active, Assigned, DataOK, transfer_clauses
<1>2. supports' = supports
  <2>1. \A c \in Clause : supports[c] # p
    BY NullAssumption DEF JustificationsExact, JustifiedBut, DataOK
  <2> QED BY <2>1 DEF transfer_clauses, DataOK
<1>6. ASSUME NEW q \in Assigned, NEW c \in Active, Justifies(c, q)
      PROVE  Justifies(c, q)'
  <2>1. p \notin PropsOf(c) /\ q \in Prop
    BY <1>1, <1>6, JustifiedClause DEF Assigned
  <2>2. \A l \in lits[c] : l[1] # p
    BY <2>1 DEF PropsOf
  <2>3. \A v : <<p, v>> \notin lits[c]
    BY <2>2
  <2>4. \A k : k \in swapped(c, p, r) <=> k \in lits[c]
    BY <1>1, <2>2, <2>3, SwappedLiterals
  <2>5. lits'[c] = lits[c]
    BY <1>1, <2>4
  <2> QED BY <1>1, <1>6, <2>1, <2>5, StillJustifies
<1>7. JustificationsExact'
  BY <1>1, <1>2, <1>6 DEF JustificationsExact, JustifiedBut
<1> QED BY <1>7

(* The first part of move_support() gives the new proposition the value and the
   support of the old one. *)
LEMMA NewTakesSupport ==
  ASSUME DataOK, JustificationsExact, undo_list = {},
         NEW p \in Prop, NEW r \in Prop, NEW cs \in SUBSET Active, move_support(p, cs, r)
  PROVE  Replacing(p, cs, r)'
<1> DEFINE v == tv[p]
           c0 == supported_by[p]
<1>1. /\ c0 \in cs /\ c0 \in Active /\ c0 \in Clause /\ c0 # NULL /\ tv[r] = "UNKNOWN"
      /\ \A c \in cs : r \notin PropsOf(c)
      /\ assign(r, v, c0, fringe) /\ UNCHANGED <<theoryVars, supports, undo_list>>
  BY NullAssumption DEF move_support, Fresh, Active, DataOK
<1>2. v # "UNKNOWN" /\ v \in {"PTRUE", "PFALSE"} /\ p # r /\ p \in Assigned
  BY <1>1 DEF JustificationsExact, JustifiedBut, DataOK, Assigned
<1>4. /\ tv' = [tv EXCEPT ![r] = v] /\ supported_by' = [supported_by EXCEPT ![r] = c0]
      /\ lits' = lits /\ Active' = Active /\ supports' = supports
  BY <1>1 DEF assign, theoryVars, Active
<1>5. Assigned' = Assigned \cup {r} /\ r \notin Assigned
  BY <1>1, <1>2, <1>4 DEF Assigned, DataOK
<1>6. ASSUME NEW q \in Assigned
      PROVE  /\ q # r /\ supported_by'[q] = supported_by[q]
             /\ supported_by[q] \in Active /\ supports[supported_by[q]] = q
             /\ Justifies(supported_by[q], q)'
  <2> DEFINE d == supported_by[q]
  <2>1. q # r /\ q \in Prop /\ d \in Active /\ supports[d] = q /\ Justifies(d, q)
    BY <1>5 DEF JustificationsExact, JustifiedBut, Assigned
  <2>2. d \in Clause
    BY <2>1 DEF Active, DataOK
  <2>3. \A o \in PropsOf(d) : o \in Prop /\ tv[o] # "UNKNOWN"
    BY <2>1, <2>2, JustifiedClause DEF PropsOf, DataOK, Literal
  <2>4. \A o \in PropsOf(d) : tv'[o] = tv[o]
    BY <1>1, <1>4, <2>3 DEF DataOK
  <2>5. Justifies(d, q)'
    BY <1>4, <2>1, <2>2, <2>4, StillJustifies
  <2>6. supported_by'[q] = d
    BY <1>4, <2>1 DEF DataOK
  <2> QED BY <2>1, <2>5, <2>6
<1>7. /\ tv'[r] = v /\ supported_by'[r] = c0 /\ tv'[p] = v /\ supported_by'[p] = c0
      /\ \A q \in Prop \ {r} : tv'[q] = tv[q] /\ supported_by'[q] = supported_by[q]
  BY <1>2, <1>4 DEF DataOK
<1>8. \A c \in Clause : supports[c] # NULL =>
        supports[c] \in Assigned /\ c \in Active /\ supported_by[supports[c]] = c
  BY NullAssumption DEF JustificationsExact, JustifiedBut, DataOK, Assigned
<1>9. \A q \in Prop : tv'[q] = "UNKNOWN" <=> supported_by'[q] = NULL
  BY <1>1, <1>2, <1>7 DEF JustificationsExact, JustifiedBut
<1>10. JustifiedBut({r})'
  BY <1>4, <1>5, <1>6, <1>8, <1>9 DEF JustifiedBut
<1>11. \A c \in cs : r \notin PropsOf(c)'
  BY <1>1, <1>4 DEF PropsOf
<1>12. cs \subseteq Active'
  BY <1>4
<1> QED
  BY <1>1, <1>2, <1>7, <1>10, <1>11, <1>12 DEF Replacing, Taking

(* The second part puts the new proposition in the place of the old one. *)
LEMMA NewTakesPlace ==
  ASSUME DataOK, NEW p \in Prop, NEW r \in Prop, NEW cs \in SUBSET Clause,
         Replacing(p, cs, r), transfer_clauses(p, r, cs, FALSE),
         UNCHANGED <<clauses, deleted, tv, supported_by>>
  PROVE  JustifiedBut({p})'
<1> DEFINE v == tv[p]
           c0 == supported_by[p]
<1>1. /\ cs \subseteq Active /\ Active \subseteq Clause /\ p # r
      /\ v \in {"PTRUE", "PFALSE"} /\ tv[r] = v
      /\ c0 \in cs /\ supported_by[r] = c0
      /\ \A c \in cs : \A l \in lits[c] : l[1] # r
  BY DEF Replacing, Taking, Active, DataOK, PropsOf
<1>2. /\ lits' = [c \in Clause |-> IF c \in cs THEN swapped(c, p, r) ELSE lits[c]]
      /\ supports' = [c \in Clause |->
            IF c \in cs /\ supports[c] = p THEN r ELSE supports[c]]
      /\ num_unassigned' = [c \in Clause |-> num_unassigned[c]]
      /\ satisfying_prop' = [c \in Clause |->
            IF c \in cs /\ satisfying_prop[c] = p THEN r ELSE satisfying_prop[c]]
      /\ Active' = Active /\ Assigned' = Assigned /\ tv' = tv
      /\ supported_by' = supported_by
  BY DEF transfer_clauses, Active, Assigned
<1>5. /\ \A q \in Prop : tv[q] = "UNKNOWN" <=> supported_by[q] = NULL
      /\ \A q \in Assigned \ {r} :
           /\ supported_by[q] \in Active /\ supports[supported_by[q]] = q
           /\ Justifies(supported_by[q], q)
      /\ \A c \in Clause : supports[c] # NULL =>
           c \in Active /\ supports[c] # r /\ supported_by[supports[c]] = c
  BY DEF Replacing, JustifiedBut
<1>6. p \in Assigned /\ r \in Assigned
  BY <1>1 DEF Assigned
<1>7. supports[c0] = p /\ Justifies(c0, p)
  BY <1>1, <1>5, <1>6
<1>8. ASSUME NEW q \in Assigned \ {p}
      PROVE  /\ supported_by[q] \in Active
             /\ supports'[supported_by[q]] = q
             /\ Justifies(supported_by[q], q)'
  <2> DEFINE d == supported_by[q]
  <2>1. CASE q = r
    <3>1. d = c0 /\ c0 \in Clause /\ lits'[c0] = swapped(c0, p, r) /\ supports'[c0] = r
      BY <1>1, <1>2, <1>7, <2>1
    <3>2. <<r, v>> \in lits'[c0]
      <4>1. <<p, v>> \in lits[c0]
        BY <1>7 DEF Justifies
      <4>2. \A w : <<p, w>> \in lits[c0] => <<r, w>> \in swapped(c0, p, r)
        BY <3>1, SwappedLiterals
      <4> QED BY <3>1, <4>1, <4>2
    <3>3. ASSUME NEW k \in lits'[c0] \ {<<r, v>>}
          PROVE  k[1] # r /\ tv[k[1]] = Opposite(k[2])
      <4>1. CASE k \in lits[c0] /\ k[1] # p
        BY <1>1, <1>7, <4>1 DEF Justifies
      <4>2. CASE ~(k \in lits[c0] /\ k[1] # p)
        <5>1. PICK w \in {"PTRUE", "PFALSE"} : k = <<r, w>> /\ <<p, w>> \in lits[c0]
          BY <3>1, <4>2, SwappedLiterals
        <5>2. <<p, w>> # <<p, v>> /\ <<p, w>>[1] = p
          BY <5>1
        <5> QED BY <1>7, <5>1, <5>2 DEF Justifies
      <4> QED BY <4>1, <4>2
    <3>4. Justifies(c0, r)'
      BY <1>1, <1>2, <3>2, <3>3 DEF Justifies
    <3> QED BY <1>1, <2>1, <3>1, <3>4
  <2>2. CASE q # r
    <3>1. d \in Active /\ d \in Clause /\ supports[d] = q /\ Justifies(d, q) /\ q # p
      BY <1>1, <1>5, <2>2
    <3>2. supports'[d] = q
      BY <1>2, <3>1
    <3>3. CASE d \in cs
      <4>1. lits'[d] = swapped(d, p, r)
        BY <1>2, <3>1, <3>3
      <4>2. <<q, tv[q]>> \in lits'[d]
        <5>1. <<q, tv[q]>> \in lits[d] /\ <<q, tv[q]>>[1] # p
          BY <3>1 DEF Justifies
        <5>2. \A k \in lits[d] : k[1] # p => k \in swapped(d, p, r)
          BY <3>1, SwappedLiterals
        <5> QED BY <4>1, <5>1, <5>2
      <4>3. ASSUME NEW k \in lits'[d] \ {<<q, tv[q]>>}
            PROVE  k[1] # q /\ tv[k[1]] = Opposite(k[2])
        <5>1. CASE k \in lits[d] /\ k[1] # p
          BY <3>1, <5>1 DEF Justifies
        <5>2. CASE ~(k \in lits[d] /\ k[1] # p)
          <6>1. PICK w \in {"PTRUE", "PFALSE"} : k = <<r, w>> /\ <<p, w>> \in lits[d]
            BY <3>1, <4>1, <5>2, SwappedLiterals
          <6>2. <<p, w>> # <<q, tv[q]>>
            BY <3>1
          <6>3. tv[p] = Opposite(w)
            BY <3>1, <6>1, <6>2 DEF Justifies
          <6> QED BY <1>1, <2>2, <6>1, <6>3
        <5> QED BY <5>1, <5>2
      <4> QED BY <1>2, <3>1, <3>2, <4>2, <4>3 DEF Justifies
    <3>4. CASE d \notin cs
      <4>1. lits'[d] = lits[d]
        BY <1>2, <3>1, <3>4
      <4> QED BY <1>2, <3>1, <3>2, <4>1 DEF Justifies
    <3> QED BY <3>3, <3>4
  <2> QED BY <2>1, <2>2
<1>9. ASSUME NEW c \in Clause, supports'[c] # NULL
      PROVE  c \in Active /\ supports'[c] # p /\ supported_by[supports'[c]] = c
  <2>1. CASE supports[c] = p
    <3>1. c = c0 /\ c \in Active
      BY <1>5, <2>1, NullAssumption
    <3>2. supports'[c] = r
      BY <1>1, <1>2, <2>1, <3>1
    <3> QED BY <1>1, <3>1, <3>2
  <2>2. CASE supports[c] # p
    <3>1. supports'[c] = supports[c]
      BY <1>2, <2>2
    <3> QED BY <1>5, <1>9, <2>2, <3>1
  <2> QED BY <2>1, <2>2
<1>10. JustifiedBut({p})'
  BY <1>2, <1>5, <1>6, <1>8, <1>9 DEF JustifiedBut
<1> QED BY <1>10

-----------------------------------------------------------------------------
(* The three steps of move_support() keep the data of its type. *)
LEMMA SpliceDataStep ==
  ASSUME DataOK, NEW p \in Prop, NEW r \in Prop, NEW cs \in SUBSET Active
  PROVE  /\ move_support_unsupported(p, cs, r) => DataOK'
         /\ move_support(p, cs, r) => DataOK'
         /\ move_support_transfer /\ moving = <<p, cs, r>> => DataOK'
         /\ move_support_unassign /\ moving[1] = p /\ tv[p] # "UNKNOWN" => DataOK'
<1>a. Active \subseteq Clause
  BY DEF Active, DataOK
<1>1. ASSUME NEW losing \in BOOLEAN, transfer_clauses(p, r, cs, losing),
             UNCHANGED <<clauses, deleted, fringe, unsatisfied, tv, supported_by,
                         undo_list, traceVars>>,
             verdict' \in {"none", verdict}
      PROVE  DataOK'
  <2>1. lits' \in [Clause -> SUBSET Literal]
    BY <1>1, SwappedLiterals DEF transfer_clauses, DataOK
  <2>2. supports' \in [Clause -> Prop \cup {NULL}]
        /\ satisfying_prop' \in [Clause -> Prop \cup {NULL}]
    BY <1>1 DEF transfer_clauses, DataOK
  <2>3. num_unassigned' \in [Clause -> Int]
    BY <1>1 DEF transfer_clauses, DataOK, Occurrences
  <2> QED BY <1>1, <2>1, <2>2, <2>3 DEF DataOK, traceVars
<1>2. move_support_unsupported(p, cs, r) => DataOK'
  BY <1>1 DEF move_support_unsupported
<1>3. ASSUME move_support_transfer, moving = <<p, cs, r>> PROVE DataOK'
  <2>1. moving[1] = p /\ moving[2] = cs /\ moving[3] = r
    BY <1>3
  <2>2. transfer_clauses(p, r, cs, FALSE)
    BY <1>3, <2>1 DEF move_support_transfer
  <2> QED BY <1>1, <1>3, <2>2 DEF move_support_transfer
<1>4. ASSUME move_support(p, cs, r) PROVE DataOK'
  <2>1. supported_by[p] \in Clause /\ tv[p] \in {"PTRUE", "PFALSE", "UNKNOWN"}
    BY <1>4, <1>a DEF move_support, DataOK
  <2>2. num_unassigned' \in [Clause -> Int]
    BY <1>4 DEF move_support, assign, DataOK, Occurrences
  <2> QED
    BY <1>4, <2>1, <2>2 DEF move_support, assign, Active, DataOK, theoryVars, traceVars
<1>5. ASSUME move_support_unassign, moving[1] = p PROVE DataOK'
  <2>1. unassign(p) /\ UNCHANGED <<theoryVars, traceVars, verdict>>
    BY <1>5 DEF move_support_unassign
  <2>2. \A d \in Clause : \A S \in SUBSET Satisfying(d) :
          S # {} => (CHOOSE l \in S : TRUE)[1] \in Prop
    BY DEF Satisfying, Literal, DataOK
  <2>3. satisfying_prop' \in [Clause -> Prop \cup {NULL}]
    BY <2>1, <2>2 DEF unassign, DataOK
  <2>4. undo_list' \subseteq Prop /\ supports' \in [Clause -> Prop \cup {NULL}]
    BY <1>a, <2>1 DEF unassign, DataOK
  <2>5. num_unassigned' \in [Clause -> Int]
    BY <2>1 DEF unassign, Occurrences, DataOK
  <2> QED BY <1>a, <2>1, <2>3, <2>4, <2>5 DEF unassign, DataOK, theoryVars, traceVars
<1> QED BY <1>2, <1>3, <1>4, <1>5

-----------------------------------------------------------------------------
(* The caches in every case of move_support() *)

LEMMA ValuesStep == DataOK /\ ValuesSupported /\ [Next]_vars => ValuesSupported'
<1> SUFFICES ASSUME DataOK, ValuesSupported, [Next]_vars PROVE ValuesSupported'
  OBVIOUS
<1>1. CASE UNCHANGED <<tv, supported_by>>
  BY <1>1 DEF ValuesSupported
<1>2. ASSUME NEW D \in SUBSET Prop, finish_destroying(D) PROVE ValuesSupported'
  BY <1>2 DEF ValuesSupported, finish_destroying
<1>3. ASSUME NEW p \in Prop, undo_propagations(p) PROVE ValuesSupported'
  BY <1>1, <1>3 DEF ValuesSupported, undo_propagations, unassign, DataOK
<1>4. ASSUME NEW c \in Clause, propagate_clause(c) PROVE ValuesSupported'
  <2>1. PICK l \in Unassigned(c) : assign(l[1], l[2], c, fringe \ {c})
    BY <1>4 DEF propagate_clause
  <2>2. l[1] \in Prop /\ l[2] # "UNKNOWN"
    BY DEF Unassigned, DataOK, Literal
  <2> QED BY <2>1, <2>2, NullAssumption DEF ValuesSupported, assign, DataOK
<1>5. \/ UNCHANGED <<tv, supported_by>>
      \/ \E D \in SUBSET Prop : finish_destroying(D)
      \/ \E p \in Prop : undo_propagations(p)
      \/ \E c \in Clause : propagate_clause(c)
  BY DEF Next, Call, Run, create_clause, add, remove, propagate, last_conflict,
         undo_propagations_return, propagate_return, get_clause_support,
         last_conflict_return, vars, supportVars
<1> QED BY <1>1, <1>2, <1>3, <1>4, <1>5

(* A step of the LTMS outside move_support(). *)
LEMMA CachesOtherSteps ==
  ASSUME CachesInv, [Next]_vars, UNCHANGED <<moving, unsettled>>
  PROVE  CachesInv'
<1>1. DataOK' /\ ValuesSupported' /\ VerdictInv'
  BY DataStep, ValuesStep, VerdictStep DEF CachesInv
<1>2. CachesExactBut(unsettled)'
  <2>1. PICK K : K = unsettled
    OBVIOUS
  <2>2. CachesExactBut(K)
    BY <2>1 DEF CachesInv, CachesExactBut
  <2>3. CachesExactBut(K)'
    BY <2>2, CachesStep DEF CachesInv
  <2> QED BY <2>1, <2>3 DEF CachesExactBut
<1>3. CASE pc \in {"transfer_clauses", "unassign"}
  <2>1. UNCHANGED vars
    BY <1>3
    DEF Next, Call, Run, create_clause, add, remove, finish_destroying, propagate,
        last_conflict, undo_propagations, undo_propagations_return, propagate_clause,
        propagate_return, get_clause_support, last_conflict_return
  <2>2. UNCHANGED <<tv, lits, pc>> /\ Active' = Active
    BY <2>1 DEF vars, theoryVars, supportVars, Active
  <2>3. \A p, r \in Prop, cs \in SUBSET Clause : Taking(p, cs, r) => Taking(p, cs, r)'
    BY <2>2 DEF Taking, PropsOf
  <2> QED BY <1>1, <1>2, <2>2, <2>3 DEF CachesInv
<1>4. CASE pc \notin {"transfer_clauses", "unassign"}
  <2>1. pc' \in {pc, "client", "remove", "finish_destroying", "propagate",
                 "last_conflict"}
    BY DEF Next, Call, Run, create_clause, add, remove, finish_destroying, propagate,
           last_conflict, undo_propagations, undo_propagations_return,
           propagate_clause, propagate_return, get_clause_support,
           last_conflict_return, vars
  <2> QED BY <1>1, <1>2, <1>4, <2>1 DEF CachesInv
<1> QED BY <1>3, <1>4

(* The steps of move_support(), in each of its cases. *)
LEMMA CachesMoveSteps ==
  ASSUME CachesInv
  PROVE  /\ \A p \in Prop, r \in Prop, cs \in SUBSET Active :
              move_support_unsupported(p, cs, r) \/ move_support(p, cs, r) => CachesInv'
         /\ move_support_transfer => CachesInv'
         /\ move_support_unassign => CachesInv'
<1>a. DataOK /\ ValuesSupported /\ VerdictInv /\ Active \subseteq Clause
  BY DEF CachesInv, Active, DataOK
<1>b. PICK K : K = unsettled
  OBVIOUS
<1>c. CachesExactBut(K)
  BY <1>b DEF CachesInv, CachesExactBut
<1>1. ASSUME NEW p \in Prop, NEW r \in Prop, NEW cs \in SUBSET Active,
             move_support_unsupported(p, cs, r)
      PROVE  CachesInv'
  <2>1. /\ pc' = "client" /\ verdict' = "none" /\ Fresh(r, cs)
        /\ transfer_clauses(p, r, cs, supported_by[p] # NULL)
        /\ UNCHANGED <<clauses, deleted, fringe, unsatisfied, tv, supported_by>>
    BY <1>1 DEF move_support_unsupported
  <2>2. PICK K1 : K1 = IF supported_by[p] = NULL THEN unsettled
                                                ELSE unsettled \cup Unsettled(p, cs)
    OBVIOUS
  <2>3. unsettled' = K1
    BY <1>1, <2>2 DEF move_support_unsupported
  <2>4. K \subseteq K1 /\ (supported_by[p] # NULL => Unsettled(p, cs) \subseteq K1)
    BY <1>b, <2>2
  <2>5. CachesExactBut(K1)'
    BY <1>a, <1>c, <2>1, <2>4, UnsupportedCaches
  <2>6. CachesExactBut(unsettled)'
    BY <2>3, <2>5 DEF CachesExactBut
  <2>7. DataOK'
    BY <1>1, <1>a, SpliceDataStep
  <2>8. ValuesSupported' /\ VerdictInv'
    BY <1>a, <2>1 DEF ValuesSupported, VerdictInv
  <2> QED BY <2>1, <2>6, <2>7, <2>8 DEF CachesInv
<1>2. ASSUME NEW p \in Prop, NEW r \in Prop, NEW cs \in SUBSET Active,
             move_support(p, cs, r)
      PROVE  CachesInv'
  <2>1. /\ pc' = "transfer_clauses" /\ verdict' = "none" /\ moving' = <<p, cs, r>>
        /\ unsettled' = unsettled /\ UNCHANGED theoryVars /\ Fresh(r, cs)
        /\ supported_by[p] \in cs /\ assign(r, tv[p], supported_by[p], fringe)
    BY <1>2 DEF move_support
  <2>2. tv[p] \in {"PTRUE", "PFALSE"} /\ tv[r] = "UNKNOWN"
    BY <1>a, <2>1, NullAssumption DEF ValuesSupported, DataOK, Fresh
  <2>3. fringe \in SUBSET fringe /\ \A d \in fringe \ fringe : <<r, tv[p]>> \in lits[d]
    OBVIOUS
  <2>4. CachesExactBut(K)'
    <3> DEFINE v == tv[p]
               c0 == supported_by[p]
    <3>1. /\ v \in {"PTRUE", "PFALSE"} /\ assign(r, v, c0, fringe)
          /\ \A d \in fringe \ fringe : <<r, v>> \in lits[d]
      BY <2>1, <2>2
    <3>2. UNCHANGED theoryVars
      BY <2>1
    <3> HIDE DEF v, c0
    <3> QED BY <1>a, <1>c, <2>2, <2>3, <3>1, <3>2, AssignCaches
  <2>5. CachesExactBut(unsettled)'
    BY <1>b, <2>1, <2>4 DEF CachesExactBut
  <2>6. DataOK'
    BY <1>2, <1>a, SpliceDataStep
  <2>7. /\ tv' = [tv EXCEPT ![r] = tv[p]]
        /\ supported_by' = [supported_by EXCEPT ![r] = supported_by[p]]
        /\ lits' = lits /\ Active' = Active
    BY <2>1 DEF assign, theoryVars, Active
  <2>8. ValuesSupported' /\ VerdictInv'
    BY <1>a, <2>1, <2>2, <2>7, NullAssumption DEF ValuesSupported, VerdictInv, DataOK
  <2>9. Taking(p, cs, r)' /\ cs \in SUBSET Clause
    BY <1>a, <2>1, <2>2, <2>7 DEF Taking, Fresh, PropsOf, DataOK
  <2> QED BY <2>1, <2>5, <2>6, <2>8, <2>9 DEF CachesInv
<1>3. ASSUME move_support_transfer PROVE CachesInv'
  <2>1. pc = "transfer_clauses" /\ pc' = "unassign" /\ UNCHANGED <<moving, verdict>>
    BY <1>3 DEF move_support_transfer
  <2>2. PICK p \in Prop, r \in Prop, cs \in SUBSET Clause :
          moving = <<p, cs, r>> /\ Taking(p, cs, r)
    BY <2>1 DEF CachesInv
  <2>3. cs \in SUBSET Active /\ tv[p] # "UNKNOWN"
    BY <2>2 DEF Taking
  <2>4. /\ moving[1] = p
        /\ transfer_clauses(p, r, cs, FALSE)
        /\ UNCHANGED <<clauses, deleted, fringe, unsatisfied, tv, supported_by, unsettled>>
    BY <1>3, <2>2 DEF move_support_transfer
  <2>5. CachesExactBut(K)'
    BY <1>a, <1>c, <2>2, <2>4, TransferCaches
  <2>6. CachesExactBut(unsettled)'
    BY <1>b, <2>4, <2>5 DEF CachesExactBut
  <2>7. DataOK'
    BY <1>3, <1>a, <2>2, <2>3, SpliceDataStep
  <2>8. ValuesSupported' /\ VerdictInv'
    BY <1>a, <2>1, <2>4 DEF ValuesSupported, VerdictInv
  <2> QED BY <2>1, <2>3, <2>4, <2>6, <2>7, <2>8 DEF CachesInv
<1>4. ASSUME move_support_unassign PROVE CachesInv'
  <2> DEFINE p == moving[1]
  <2>1. /\ pc = "unassign" /\ pc' = "remove" /\ UNCHANGED <<verdict, unsettled>>
        /\ unassign(p) /\ UNCHANGED theoryVars
    BY <1>4 DEF move_support_unassign
  <2>2. p \in Prop /\ tv[p] # "UNKNOWN"
    BY <2>1 DEF CachesInv
  <2>3. DataOK'
    <3>1. {} \in SUBSET Active
      OBVIOUS
    <3> QED BY <1>4, <1>a, <2>2, <3>1, SpliceDataStep DEF p
  <2> HIDE DEF p
  <2>4. CachesExactBut(K)'
    BY <1>a, <1>c, <2>1, <2>2, UnassignCaches
  <2>5. CachesExactBut(unsettled)'
    BY <1>b, <2>1, <2>4 DEF CachesExactBut
  <2>6. ValuesSupported' /\ VerdictInv'
    BY <1>a, <2>1, <2>2 DEF ValuesSupported, VerdictInv, unassign, DataOK
  <2> QED BY <2>1, <2>3, <2>5, <2>6 DEF CachesInv
<1> QED BY <1>1, <1>2, <1>3, <1>4

LEMMA SpliceSteps ==
  ASSUME [SpliceNext]_spliceVars
  PROVE  \/ [Next]_vars /\ UNCHANGED <<moving, unsettled>>
         \/ \E p \in Prop, r \in Prop, cs \in SUBSET Active :
              move_support_unsupported(p, cs, r) \/ move_support(p, cs, r)
         \/ move_support_transfer
         \/ move_support_unassign
<1>1. ASSUME NEW s \in Splices, NEW cs \in SUBSET TransitionClauses,
             move_support_unsupported(s[1], cs, s[2]) \/ move_support(s[1], cs, s[2])
      PROVE  \E p \in Prop, r \in Prop, ds \in SUBSET Active :
               move_support_unsupported(p, ds, r) \/ move_support(p, ds, r)
  <2>1. s[1] \in Prop /\ s[2] \in Prop /\ cs \in SUBSET Active
    BY SpliceAssumption DEF TransitionClauses
  <2> QED BY <1>1, <2>1
<1> QED BY <1>1 DEF SpliceNext, SpliceRun, Next, spliceVars

LEMMA CachesInvStep == CachesInv /\ [SpliceNext]_spliceVars => CachesInv'
  BY SpliceSteps, CachesOtherSteps, CachesMoveSteps

LEMMA CachesInvHolds == SpliceSpec => []CachesInv
<1>1. SpliceInit => CachesInv
  <2> SUFFICES ASSUME SpliceInit PROVE CachesInv
    OBVIOUS
  <2>1. Init
    BY DEF SpliceInit
  <2>2. DataOK
    BY <2>1, StampAssumption DEF Init, DataOK, Literal
  <2>3. CachesExactBut(unsettled) /\ VerdictInv /\ ValuesSupported /\ pc = "client"
    BY <2>1 DEF Init, CachesExactBut, Active, VerdictInv, ValuesSupported
  <2> QED BY <2>2, <2>3 DEF CachesInv
<1> QED BY <1>1, CachesInvStep, PTL DEF SpliceSpec

-----------------------------------------------------------------------------
(* The justifications in the first and the third case *)

LEMMA ExactInSpliceInv == SpliceInv => CachesExact
  BY ExactButForNone DEF SpliceInv, CachesInv, CachesExactBut

(* A step of the LTMS outside move_support(). *)
LEMMA OtherSteps ==
  ASSUME SpliceInv, [Next]_vars, UNCHANGED <<moving, unsettled>>
  PROVE  SpliceInv'
<1>1. CachesInv' /\ DataOK /\ CachesExact /\ unsettled' = {}
  BY CachesOtherSteps, ExactInSpliceInv DEF SpliceInv, CachesInv
<1>2. CASE pc \in {"transfer_clauses", "unassign"}
  <2>1. UNCHANGED vars
    BY <1>2
    DEF Next, Call, Run, create_clause, add, remove, finish_destroying, propagate,
        last_conflict, undo_propagations, undo_propagations_return, propagate_clause,
        propagate_return, get_clause_support, last_conflict_return
  <2>2. /\ UNCHANGED <<tv, supported_by, supports, lits, undo_list, pc>>
        /\ Active' = Active /\ Assigned' = Assigned
    BY <2>1 DEF vars, theoryVars, supportVars, Active, Assigned
  <2>3. \A p, r \in Prop, cs \in SUBSET Clause :
          Replacing(p, cs, r) => Replacing(p, cs, r)'
    BY <2>2 DEF Replacing, Taking, JustifiedBut, Justifies, PropsOf
  <2>4. \A p \in Prop : JustifiedBut({p}) => JustifiedBut({p})'
    BY <2>2 DEF JustifiedBut, Justifies
  <2>5. UndoOnlyInRetraction'
    BY <2>2 DEF SpliceInv, UndoOnlyInRetraction
  <2>6. CASE pc = "transfer_clauses"
    BY <1>1, <2>2, <2>3, <2>5, <2>6 DEF SpliceInv
  <2>7. CASE pc = "unassign"
    BY <1>1, <2>2, <2>4, <2>5, <2>7 DEF SpliceInv
  <2> QED BY <1>2, <2>6, <2>7
<1>3. CASE pc \notin {"transfer_clauses", "unassign"}
  <2>1. JInv
    BY <1>3 DEF SpliceInv, JInv
  <2>2. JInv'
    BY <1>1, <2>1, JustificationsStep
  <2>3. pc' \in {pc, "client", "remove", "finish_destroying", "propagate",
                 "last_conflict"}
    BY DEF Next, Call, Run, create_clause, add, remove, finish_destroying, propagate,
           last_conflict, undo_propagations, undo_propagations_return,
           propagate_clause, propagate_return, get_clause_support,
           last_conflict_return, vars
  <2> QED BY <1>1, <1>3, <2>2, <2>3 DEF SpliceInv, JInv
<1> QED BY <1>2, <1>3

(* The steps of move_support(), when every replaced proposition with a value has
   its support among the clauses that are moved. *)
LEMMA MoveSteps ==
  ASSUME SpliceInv, ~LeaveSupport
  PROVE  /\ \A p \in Prop, r \in Prop, cs \in SUBSET Active :
              move_support_unsupported(p, cs, r) \/ move_support(p, cs, r) => SpliceInv'
         /\ move_support_transfer => SpliceInv'
         /\ move_support_unassign => SpliceInv'
<1>a. CachesInv /\ DataOK /\ CachesExact /\ UndoOnlyInRetraction /\ unsettled = {}
  BY ExactInSpliceInv DEF SpliceInv, CachesInv
<1>1. ASSUME NEW p \in Prop, NEW r \in Prop, NEW cs \in SUBSET Active,
             move_support_unsupported(p, cs, r)
      PROVE  SpliceInv'
  <2>1. /\ pc = "client" /\ pc' = "client" /\ unsettled' = unsettled
        /\ supported_by[p] = NULL /\ transfer_clauses(p, r, cs, FALSE)
        /\ UNCHANGED <<clauses, deleted, tv, supported_by, undo_list>>
    BY <1>1 DEF move_support_unsupported
  <2>2. JustificationsExact
    BY <2>1 DEF SpliceInv
  <2>3. JustificationsExact'
    BY <1>a, <2>1, <2>2, UnsupportedMoves
  <2>4. CachesInv'
    BY <1>1, <1>a, CachesMoveSteps
  <2>5. UndoOnlyInRetraction'
    BY <1>a, <2>1 DEF UndoOnlyInRetraction
  <2> QED BY <1>a, <2>1, <2>3, <2>4, <2>5 DEF SpliceInv
<1>2. ASSUME NEW p \in Prop, NEW r \in Prop, NEW cs \in SUBSET Active,
             move_support(p, cs, r)
      PROVE  SpliceInv'
  <2>1. /\ pc = "client" /\ pc' = "transfer_clauses" /\ unsettled' = unsettled
        /\ moving' = <<p, cs, r>> /\ undo_list' = undo_list
    BY <1>2 DEF move_support
  <2>2. JustificationsExact /\ undo_list = {}
    BY <1>a, <2>1 DEF SpliceInv, UndoOnlyInRetraction
  <2>3. Replacing(p, cs, r)'
    BY <1>2, <1>a, <2>2, NewTakesSupport
  <2>4. CachesInv'
    BY <1>2, <1>a, CachesMoveSteps
  <2>5. UndoOnlyInRetraction'
    BY <2>1, <2>2 DEF UndoOnlyInRetraction
  <2>6. cs \in SUBSET Clause
    BY <1>a DEF Active, DataOK
  <2> QED BY <1>a, <2>1, <2>3, <2>4, <2>5, <2>6 DEF SpliceInv
<1>3. ASSUME move_support_transfer PROVE SpliceInv'
  <2>1. pc = "transfer_clauses" /\ pc' = "unassign" /\ moving' = moving
        /\ undo_list' = undo_list /\ unsettled' = unsettled
    BY <1>3 DEF move_support_transfer
  <2>2. PICK p \in Prop, r \in Prop, cs \in SUBSET Clause :
          moving = <<p, cs, r>> /\ Replacing(p, cs, r)
    BY <2>1 DEF SpliceInv
  <2>3. /\ moving[1] = p
        /\ transfer_clauses(p, r, cs, FALSE)
        /\ UNCHANGED <<clauses, deleted, tv, supported_by>>
    BY <1>3, <2>2 DEF move_support_transfer
  <2>4. JustifiedBut({p})'
    BY <1>a, <2>2, <2>3, NewTakesPlace
  <2>5. CachesInv'
    BY <1>3, <1>a, CachesMoveSteps
  <2>6. UndoOnlyInRetraction'
    BY <1>a, <2>1 DEF UndoOnlyInRetraction
  <2> QED BY <1>a, <2>1, <2>3, <2>4, <2>5, <2>6 DEF SpliceInv
<1>4. ASSUME move_support_unassign PROVE SpliceInv'
  <2> DEFINE p == moving[1]
  <2>1. /\ pc = "unassign" /\ pc' = "remove" /\ unsettled' = unsettled
        /\ unassign(p) /\ UNCHANGED theoryVars
    BY <1>4 DEF move_support_unassign
  <2>2. p \in Prop /\ JustifiedBut({p}) /\ undo_list = {} /\ p \in {p}
    BY <1>a, <2>1 DEF SpliceInv, UndoOnlyInRetraction
  <2>3. undo_list \ {p} = {p} \ {p}
    BY <2>2
  <2> HIDE DEF p
  <2>4. JustificationsExact'
    BY <1>a, <2>1, <2>2, <2>3, UnassignJustifies
  <2>5. CachesInv'
    BY <1>4, <1>a, CachesMoveSteps
  <2>6. UndoOnlyInRetraction'
    BY <2>1 DEF UndoOnlyInRetraction
  <2> QED BY <1>a, <2>1, <2>4, <2>5, <2>6 DEF SpliceInv
<1> QED BY <1>1, <1>2, <1>3, <1>4

LEMMA SpliceInvHolds == ASSUME ~LeaveSupport PROVE SpliceSpec => []SpliceInv
<1>1. SpliceInit /\ CachesInv => SpliceInv
  BY DEF SpliceInit, Init, SpliceInv, UndoOnlyInRetraction, JustificationsExact,
         JustifiedBut, Assigned
<1>2. SpliceInv /\ [SpliceNext]_spliceVars => SpliceInv'
  BY SpliceSteps, OtherSteps, MoveSteps
<1> QED BY <1>1, <1>2, CachesInvHolds, PTL DEF SpliceSpec

-----------------------------------------------------------------------------
(* move_support(), in any of its three cases and among any other calls: the caches
   of every clause say what the truth values say, but for the clauses that the
   second case moved away from the value that satisfied them, or while they were in
   the fringe or unsatisfied. *)
THEOREM CachesSurviveSplice == SpliceSpec => []CachesExactAfter
<1>1. CachesInv => CachesExactAfter
  BY DEF CachesInv, CachesExactAfter
<1> QED BY <1>1, CachesInvHolds, PTL

(* When propagate() returns true nothing is left to propagate, whatever was
   spliced before, as long as the second case of move_support() left no clause
   wrong.  (With such a clause there is finding 1.) *)
THEOREM SpliceKeepsClosed == SpliceSpec => [](unsettled = {} => ConsistentMeansClosed)
<1>1. CachesInv => (unsettled = {} => ConsistentMeansClosed)
  <2> SUFFICES ASSUME CachesInv, unsettled = {} PROVE ConsistentMeansClosed
    OBVIOUS
  <2>1. CachesExact /\ VerdictInv
    BY ExactButForNone DEF CachesInv, CachesExactBut
  <2> QED BY <2>1 DEF CachesExact, VerdictInv, ConsistentMeansClosed
<1> QED BY <1>1, CachesInvHolds, PTL

(* The first and the third case of move_support(), which are all that is left
   without LeaveSupport: between calls every value has a clause that forces it, and
   that knows; the new proposition takes over both the value and the support. *)
THEOREM JustificationsSurviveSplice ==
  ASSUME ~LeaveSupport PROVE SpliceSpec => []JustificationsExactAfter
<1>1. SpliceInv => JustificationsExactAfter
  BY DEF SpliceInv, JustificationsExactAfter
<1> QED BY <1>1, SpliceInvHolds, PTL

=============================================================================
