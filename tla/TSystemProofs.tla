--------------------------- MODULE TSystemProofs ---------------------------
(***************************************************************************)
(* Proofs about TSystem for every set of components with any modes,        *)
(* commands, failures and costs, and every limit of the history.           *)
(***************************************************************************)
EXTENDS TSystem, DataLemmas

-----------------------------------------------------------------------------
(* The inductive invariant of types and references *)

(* What a search found or truncate left: it names variables that exist, each at
   most once. *)
Proper ==
  {c \in SUBSET (StateAssignment \cup Failures) :
     /\ IsFiniteSet(c)
     /\ \A a, b \in c : a[1] = b[1] /\ a[2] = b[2] => a = b}

(* The state variable has a default, so it has a value. *)
StateHasValues == \E n \in Nat \ {0} : DOMAIN state = 1..n

(* A command is accepted only while a time step is left. *)
RoomForPending == pending # NONE => timestep < MaxTime

CandidatesProper == candidates \in Seq(Proper)

ConflictsRefer == \A k \in conflicts : k \subseteq Assignment

TInv ==
  /\ TypeOK
  /\ StateHasValues
  /\ RoomForPending
  /\ Len(command) = timestep - 1
  /\ CandidatesProper
  /\ ConflictsRefer

-----------------------------------------------------------------------------
(* Assignments *)

LEMMA TimeFacts ==
  ASSUME TypeOK
  PROVE  /\ timestep \in Nat /\ oldest_timestep \in Nat
         /\ First \in Nat \ {0} /\ First <= timestep /\ oldest_timestep <= First
         /\ MaxTime \in Nat /\ BEFORE_HORIZON = MaxTime + 1
         /\ timestep \in 1..MaxTime
BY LimitAssumption DEF TypeOK, First, BEFORE_HORIZON

LEMMA FaultFacts ==
  ASSUME NEW x \in Component, NEW v \in DOMAIN failure[x]
  PROVE  /\ failure[x][v] \in Mode /\ cost[x][v] \in Nat
         /\ v \in Nat \ {0} /\ x # STATE_VAR
<1>1. /\ failure[x] \in Seq(Mode) /\ cost[x] \in Seq(Nat)
      /\ Len(cost[x]) = Len(failure[x]) /\ x # STATE_VAR
  BY ModelAssumption
<1>2. DOMAIN failure[x] = 1..Len(failure[x]) /\ DOMAIN cost[x] = 1..Len(failure[x])
  BY <1>1
<1> QED
  BY <1>1, <1>2

LEMMA FailureShape ==
  ASSUME NEW a
  PROVE  a \in Failures <=>
           \E x \in Component, t \in TransitionTimes : \E v \in DOMAIN failure[x] :
             a = <<x, t, v>>
BY DEF Failures

LEMMA StateShape ==
  ASSUME NEW a
  PROVE  a \in StateAssignment <=> \E i \in DOMAIN state : a = <<STATE_VAR, oldest_timestep, i>>
BY DEF StateAssignment

LEMMA FailuresAreFinite ==
  ASSUME TypeOK
  PROVE  IsFiniteSet(Failures)
<1> DEFINE of(x) == {<<x, t, v>> : t \in TransitionTimes, v \in DOMAIN failure[x]}
           All == {of(x) : x \in Component}
<1>1. ASSUME NEW x \in Component
      PROVE  IsFiniteSet(of(x))
  <2>1. IsFiniteSet(TransitionTimes)
    <3>1. IsFiniteSet(First..(timestep - 1))
      BY TimeFacts, FS_Interval
    <3> QED
      BY <3>1, FS_AddElement DEF TransitionTimes
  <2>2. IsFiniteSet(DOMAIN failure[x])
    <3>1. failure[x] \in Seq(Mode)
      BY ModelAssumption
    <3>2. DOMAIN failure[x] = 1..Len(failure[x]) /\ Len(failure[x]) \in Int
      BY <3>1
    <3>3. IsFiniteSet(1..Len(failure[x]))
      BY <3>2, FS_Interval
    <3> QED
      BY <3>2, <3>3
  <2>3. IsFiniteSet(TransitionTimes \X DOMAIN failure[x])
    BY <2>1, <2>2, FS_Product
  <2> DEFINE f == [p \in TransitionTimes \X DOMAIN failure[x] |-> <<x, p[1], p[2]>>]
  <2>4. f \in Surjection(TransitionTimes \X DOMAIN failure[x], of(x))
    <3>1. f \in [TransitionTimes \X DOMAIN failure[x] -> of(x)]
      OBVIOUS
    <3>2. ASSUME NEW a \in of(x)
          PROVE  \E p \in TransitionTimes \X DOMAIN failure[x] : f[p] = a
      <4>1. PICK t \in TransitionTimes, v \in DOMAIN failure[x] : a = <<x, t, v>>
        OBVIOUS
      <4>2. <<t, v>> \in TransitionTimes \X DOMAIN failure[x]
        OBVIOUS
      <4>3. f[<<t, v>>] = <<x, <<t, v>>[1], <<t, v>>[2]>>
        BY <4>2
      <4>4. f[<<t, v>>] = a
        BY <4>1, <4>3
      <4> HIDE DEF f
      <4> QED
        BY <4>2, <4>4
    <3> HIDE DEF f, of
    <3> QED
      BY <3>1, <3>2 DEF Surjection
  <2> QED
    BY <2>3, <2>4, FS_Surjection
<1>2. IsFiniteSet(All)
  <2> DEFINE f == [x \in Component |-> of(x)]
  <2>1. f \in Surjection(Component, All)
    BY DEF Surjection
  <2> HIDE DEF All
  <2> QED
    BY <2>1, ModelAssumption, FS_Surjection
<1>3. \A T \in All : IsFiniteSet(T)
  BY <1>1
<1>4. Failures = UNION All
  BY DEF Failures
<1> HIDE DEF All
<1> QED
  BY <1>2, <1>3, <1>4, FS_UNION

LEMMA CandidatesAreProper ==
  ASSUME TypeOK
  PROVE  Candidate \subseteq Proper
<1> SUFFICES ASSUME NEW c \in Candidate PROVE c \in Proper
  OBVIOUS
<1>1. PICK f \in SUBSET Failures, s \in {{}} \cup {{a} : a \in StateAssignment} :
        /\ c = f \cup s
        /\ \A a, b \in f : a[1] = b[1] /\ a[2] = b[2] => a = b
  <2> DEFINE Some == UNION {kSubset(n, Failures) : n \in 0..MaxFailures}
             End == {{}} \cup {{a} : a \in StateAssignment}
  <2>1. Some \subseteq SUBSET Failures
    BY DEF kSubset
  <2>2. Candidate =
          {d \cup s : d \in {f \in Some : \A a, b \in f : a[1] = b[1] /\ a[2] = b[2] => a = b},
                     s \in End}
    BY DEF Candidate
  <2> HIDE DEF Some, End
  <2>3. PICK d \in {f \in Some : \A a, b \in f : a[1] = b[1] /\ a[2] = b[2] => a = b},
             s \in End : c = d \cup s
    BY <2>2
  <2> QED
    BY <2>1, <2>3 DEF End
<1>2. IsFiniteSet(f) /\ IsFiniteSet(s)
  BY FailuresAreFinite, FS_Subset, FS_EmptySet, FS_Singleton
<1>3. \A a \in f : a[1] \in Component
  BY FailureShape
<1>4. \A a \in s : a[1] = STATE_VAR /\ s = {a}
  BY StateShape
<1>5. \A a, b \in c : a[1] = b[1] /\ a[2] = b[2] => a = b
  BY <1>1, <1>3, <1>4, ModelAssumption
<1>6. IsFiniteSet(c) /\ c \subseteq StateAssignment \cup Failures
  BY <1>1, <1>2, FS_Union
<1> QED
  BY <1>5, <1>6 DEF Proper

-----------------------------------------------------------------------------
(* The loops over the candidates *)

Consistent == {j \in DOMAIN candidates : IsConsistent(candidates[j])}

(* prune_inconsistent_candidates leaves consistent candidates. *)
LEMMA PrunedFacts ==
  ASSUME CandidatesProper
  PROVE  prune_inconsistent_candidates \in Seq(Items(candidates, Consistent))
<1> DEFINE n == Len(candidates)
           Fits == {p \in Seq(Proper) \X (1..n) : IsConsistent(candidates[p[2]])}
           kept == CHOOSE kept : kept =
             [j \in 0..Len(candidates) |->
                IF j = 0 THEN <<>>
                ELSE IF IsConsistent(candidates[j]) THEN Append(kept[j - 1], candidates[j])
                ELSE kept[j - 1]]
<1>1. n \in Nat /\ candidates \in [1..n -> Proper]
  BY DEF CandidatesProper
<1>2. PICK f : CollectsFitting(f, n, Proper, candidates, Fits)
  <2>1. \A j \in 1..n : candidates[j] \in Proper
    BY <1>1
  <2> HIDE DEF n, Fits
  <2> QED
    BY <1>1, <2>1, CollectionExists
<1>3. ASSUME NEW j \in 0..n
      PROVE  f[j] = IF j = 0 THEN <<>>
                    ELSE IF IsConsistent(candidates[j]) THEN Append(f[j - 1], candidates[j])
                    ELSE f[j - 1]
  <2> USE DEF CollectsFitting
  <2>1. CASE j = 0
    BY <1>2, <2>1
  <2>2. CASE j # 0
    <3>1. j \in 1..n /\ j - 1 \in 0..n
      BY <1>1, <2>2
    <3>2. <<f[j - 1], j>> \in Fits <=> IsConsistent(candidates[j])
      BY <1>2, <3>1
    <3> HIDE DEF Fits
    <3> QED
      BY <1>2, <2>2, <3>1, <3>2
  <2> QED
    BY <2>1, <2>2
<1>4. f = [j \in 0..Len(candidates) |->
             IF j = 0 THEN <<>>
             ELSE IF IsConsistent(candidates[j]) THEN Append(f[j - 1], candidates[j])
             ELSE f[j - 1]]
  <2> DEFINE g == [j \in 0..n |->
                     IF j = 0 THEN <<>>
                     ELSE IF IsConsistent(candidates[j]) THEN Append(f[j - 1], candidates[j])
                     ELSE f[j - 1]]
  <2>1. f = [j \in 0..n |-> f[j]]
    BY <1>2 DEF CollectsFitting
  <2>2. f = g
    BY <1>3, <2>1
  <2> QED
    BY <2>2
<1>5. kept = [j \in 0..Len(candidates) |->
                IF j = 0 THEN <<>>
                ELSE IF IsConsistent(candidates[j]) THEN Append(kept[j - 1], candidates[j])
                ELSE kept[j - 1]]
  BY <1>4
<1>6. prune_inconsistent_candidates = kept[n]
  BY DEF prune_inconsistent_candidates
<1> HIDE DEF kept
<1>7. Consistent \subseteq 1..n /\ Collects(kept, n, candidates, Consistent)
  <2>1. kept[0] = <<>>
    BY <1>1, <1>5
  <2>2. DOMAIN candidates = 1..n
    BY <1>1
  <2>3. ASSUME NEW j \in 1..n
        PROVE  kept[j] = IF j \in Consistent
                         THEN Append(kept[j - 1], candidates[j]) ELSE kept[j - 1]
    <3>1. j \in 0..n /\ j # 0 /\ (j \in Consistent <=> IsConsistent(candidates[j]))
      BY <1>1, <2>2 DEF Consistent
    <3> QED
      BY <1>5, <3>1
  <2> QED
    BY <2>1, <2>2, <2>3 DEF Consistent, Collects
<1> HIDE DEF n
<1>8. kept[n] \in Seq(Items(candidates, Consistent))
  BY <1>1, <1>7, CollectionFacts
<1> QED
  BY <1>6, <1>8

(* truncate keeps consistent candidates, no more than its limit. *)
LEMMA KeptFacts ==
  ASSUME CandidatesProper, NEW h, NEW limit \in Nat, NEW summary
  PROVE  /\ keptCandidates(h, limit, summary) \in Seq(Consistent)
         /\ Len(keptCandidates(h, limit, summary)) <= limit
<1> DEFINE n == Len(candidates)
           clauses(done) == {x \in Component : \E i \in ToSet(done) : summary[i][x] # NONE}
           fits(u, j) == /\ Len(u) < limit
                         /\ IsConsistent(candidates[j])
                         /\ agreesWithNewClauses(candidates[j], h, clauses(u))
           Fits == {p \in Seq(1..n) \X (1..n) : fits(p[1], p[2])}
           index == [j \in 1..n |-> j]
           kept == CHOOSE kept : kept =
             [j \in 0..Len(candidates) |->
                IF j = 0 THEN <<>>
                ELSE IF fits(kept[j - 1], j) THEN Append(kept[j - 1], j) ELSE kept[j - 1]]
<1>1. /\ n \in Nat /\ DOMAIN candidates = 1..n
      /\ \A j \in 1..n : index[j] = j /\ index[j] \in 1..n
  BY DEF CandidatesProper
<1>2. keptCandidates(h, limit, summary) = kept[n]
  BY DEF keptCandidates
<1> HIDE DEF clauses, index
<1>3. PICK f : CollectsFitting(f, n, 1..n, index, Fits)
  <2> HIDE DEF n, Fits
  <2> QED
    BY <1>1, CollectionExists
<1>4. ASSUME NEW j \in 0..n
      PROVE  f[j] = IF j = 0 THEN <<>>
                    ELSE IF fits(f[j - 1], j) THEN Append(f[j - 1], j) ELSE f[j - 1]
  <2> USE DEF CollectsFitting
  <2>1. CASE j = 0
    BY <1>3, <2>1
  <2>2. CASE j # 0
    <3> HIDE DEF n
    <3>1. j \in 1..n /\ j - 1 \in 0..n /\ index[j] = j
      BY <1>1, <2>2
    <3>2. f[j - 1] \in Seq(1..n)
      BY <1>3, <3>1
    <3>3. <<f[j - 1], j>> \in Fits <=> fits(f[j - 1], j)
      <4> HIDE DEF fits
      <4> QED
        BY <3>1, <3>2
    <3> HIDE DEF Fits, fits
    <3> QED
      BY <1>3, <2>2, <3>1, <3>3
  <2> QED
    BY <2>1, <2>2
<1>5. f = [j \in 0..Len(candidates) |->
             IF j = 0 THEN <<>>
             ELSE IF fits(f[j - 1], j) THEN Append(f[j - 1], j) ELSE f[j - 1]]
  <2> HIDE DEF fits, Fits
  <2> DEFINE g == [j \in 0..n |->
                     IF j = 0 THEN <<>>
                     ELSE IF fits(f[j - 1], j) THEN Append(f[j - 1], j) ELSE f[j - 1]]
  <2>1. f = [j \in 0..n |-> f[j]]
    BY <1>3 DEF CollectsFitting
  <2>2. f = g
    BY <1>4, <2>1, SMTT(30)
  <2> QED
    BY <2>2
<1> HIDE DEF fits
<1>6. kept = [j \in 0..Len(candidates) |->
                IF j = 0 THEN <<>>
                ELSE IF fits(kept[j - 1], j) THEN Append(kept[j - 1], j) ELSE kept[j - 1]]
  BY <1>5
<1> HIDE DEF kept
<1> DEFINE Taken == {j \in 1..n : fits(kept[j - 1], j)}
<1>7. Taken \subseteq 1..n /\ Collects(kept, n, index, Taken)
  <2>1. kept[0] = <<>>
    BY <1>1, <1>6
  <2>2. ASSUME NEW j \in 1..n
        PROVE  kept[j] = IF j \in Taken THEN Append(kept[j - 1], index[j]) ELSE kept[j - 1]
    <3>1. j \in 0..n /\ j # 0 /\ index[j] = j
      BY <1>1
    <3> QED
      BY <1>6, <3>1
  <2> QED
    BY <2>1, <2>2 DEF Collects
<1>8. /\ Items(index, Taken) \subseteq Consistent
      /\ \A j \in Taken : Len(kept[j - 1]) < limit
  BY <1>1 DEF Items, Consistent, fits
<1> HIDE DEF n, Taken
<1>9. kept[n] \in Seq(Items(index, Taken)) /\ Len(kept[n]) <= limit
  BY <1>1, <1>7, <1>8, CollectionFacts
<1> QED
  BY <1>2, <1>8, <1>9

-----------------------------------------------------------------------------
(* Weights *)

LEMMA AssignmentWeights ==
  ASSUME TypeOK, NEW a \in StateAssignment \cup Failures
  PROVE  assignmentWeight(a) \in Nat
<1>1. CASE a \in StateAssignment
  BY <1>1, StateShape DEF TypeOK, assignmentWeight
<1>2. CASE a \in Failures
  <2>1. PICK x \in Component, t \in TransitionTimes : \E v \in DOMAIN failure[x] :
          a = <<x, t, v>>
    BY <1>2, FailureShape
  <2> QED
    BY <2>1, FaultFacts DEF assignmentWeight
<1> QED
  BY <1>1, <1>2

(* get_weight: the weight of a finite set of assignments is the sum of theirs. *)
LEMMA WeightIsSum ==
  ASSUME NEW c, IsFiniteSet(c), \A a \in c : assignmentWeight(a) \in Nat
  PROVE  get_weight(c) = Sum([a \in c |-> assignmentWeight(a)], c)
<1> DEFINE w == [a \in c |-> assignmentWeight(a)]
           body(h) == [s \in SUBSET c |->
                         IF s = {} THEN 0
                         ELSE assignmentWeight(CHOOSE a \in s : TRUE)
                              + h[s \ {CHOOSE a \in s : TRUE}]]
           iter == CHOOSE iter : iter = body(iter)
<1>1. ASSUME NEW h
      PROVE  h = body(h) <=> Accumulates(h, w, c)
  <2> DEFINE other == [s \in SUBSET c |->
                        IF s = {} THEN 0
                        ELSE w[CHOOSE a \in s : TRUE] + h[s \ {CHOOSE a \in s : TRUE}]]
  <2>1. ASSUME NEW s \in SUBSET c, s # {}
        PROVE  w[CHOOSE a \in s : TRUE] = assignmentWeight(CHOOSE a \in s : TRUE)
    <3> DEFINE x == CHOOSE a \in s : TRUE
    <3>1. x \in c
      BY <2>1
    <3> HIDE DEF x
    <3>2. w[x] = assignmentWeight(x)
      BY <3>1
    <3> QED
      BY <3>2 DEF x
  <2> HIDE DEF w
  <2>2. other = body(h)
    BY <2>1
  <2> QED
    BY <2>2 DEF Accumulates
<1>2. \A a \in c : w[a] \in Nat
  OBVIOUS
<1>3. get_weight(c) = iter[c]
  BY Zenon DEF get_weight, MapThenSumSet, MapThenFoldSet
<1> HIDE DEF w, body
<1>4. \E h : h = body(h)
  BY <1>1, <1>2, SumAccumulates
<1>5. Accumulates(iter, w, c)
  BY <1>1, <1>4
<1> HIDE DEF iter
<1>6. iter[c] = Sum(w, c)
  BY <1>2, <1>5, SumAccumulates
<1> QED
  BY <1>3, <1>6 DEF w

LEMMA WeightIsNatural ==
  ASSUME TypeOK, NEW c \in Proper, NEW d \in SUBSET c
  PROVE  get_weight(d) \in Nat
<1>1. IsFiniteSet(d) /\ \A a \in d : assignmentWeight(a) \in Nat
  BY AssignmentWeights, FS_Subset DEF Proper
<1> DEFINE w == [a \in d |-> assignmentWeight(a)]
<1>2. get_weight(d) = Sum(w, d) /\ \A a \in d : w[a] \in Nat /\ d \in SUBSET d
  BY <1>1, WeightIsSum
<1> HIDE DEF w
<1>3. CASE d = {}
  BY <1>1, <1>2, <1>3, SumFacts
<1>4. CASE d # {}
  <2>1. \A a \in d : w[a] \in Nat
    BY <1>2
  <2>2. d \in SUBSET d
    OBVIOUS
  <2>3. get_weight(d) = Sum(w, d)
    BY <1>1, WeightIsSum DEF w
  <2> QED
    BY <1>1, <2>1, <2>2, <2>3, SumFacts
<1> QED
  BY <1>3, <1>4

-----------------------------------------------------------------------------
(* Conflicts *)

LEMMA NogoodsRefer ==
  ASSUME TypeOK
  PROVE  \A k \in Nogoods : k \subseteq Assignment
<1> SUFFICES ASSUME NEW x \in Component, NEW t \in Steps, NEW k \in nogoodsAt(x, t)
             PROVE  k \subseteq Assignment
  BY DEF Nogoods
<1>1. t \in Nat /\ First <= t /\ t <= timestep
  BY TimeFacts DEF Steps
<1>2. ASSUME NEW s \in Nat, First <= s
      PROVE  nominalFrom(x, s, t) \subseteq Assignment
  BY <1>1, <1>2, TimeFacts DEF nominalFrom, Assignment, Nominals, TransitionTimes
<1>3. CASE \E p \in (First..(t - 1)) \X DOMAIN failure[x] :
             k = {<<x, p[1], p[2]>>} \cup nominalFrom(x, p[1] + 1, t)
  <2>1. PICK p \in (First..(t - 1)) \X DOMAIN failure[x] :
          k = {<<x, p[1], p[2]>>} \cup nominalFrom(x, p[1] + 1, t)
    BY <1>3
  <2>2. /\ p[1] \in TransitionTimes /\ p[2] \in DOMAIN failure[x]
        /\ p[1] + 1 \in Nat /\ First <= p[1] + 1
    <3>1. p[1] \in First..(t - 1) /\ p[2] \in DOMAIN failure[x]
      OBVIOUS
    <3>2. p[1] \in First..(timestep - 1) /\ p[1] + 1 \in Nat /\ First <= p[1] + 1
      BY <1>1, <3>1, TimeFacts
    <3> QED
      BY <3>1, <3>2 DEF TransitionTimes
  <2>3. <<x, p[1], p[2]>> \in Failures
    BY <2>2, FailureShape
  <2> QED
    BY <1>2, <2>1, <2>2, <2>3 DEF Assignment
<1>4. CASE \E v \in DOMAIN failure[x] :
             k = {<<x, BEFORE_HORIZON, v>>} \cup nominalFrom(x, First, t)
  <2>1. \A v \in DOMAIN failure[x] : <<x, BEFORE_HORIZON, v>> \in Failures
    BY FailureShape DEF TransitionTimes
  <2>2. nominalFrom(x, First, t) \subseteq Assignment
    BY <1>2, TimeFacts
  <2>3. PICK v \in DOMAIN failure[x] :
          k = {<<x, BEFORE_HORIZON, v>>} \cup nominalFrom(x, First, t)
    BY <1>4
  <2>4. <<x, BEFORE_HORIZON, v>> \in Assignment
    BY <2>1 DEF Assignment
  <2> QED
    BY <2>2, <2>3, <2>4
<1>5. CASE \E i \in DOMAIN state :
             k = {<<STATE_VAR, oldest_timestep, i>>, <<x, BEFORE_HORIZON, 0>>}
                   \cup nominalFrom(x, First, t)
  <2>1. <<x, BEFORE_HORIZON, 0>> \in Nominals
    <3>1. BEFORE_HORIZON \in TransitionTimes
      BY DEF TransitionTimes
    <3> QED
      BY <3>1 DEF Nominals
  <2>2. \A i \in DOMAIN state : <<STATE_VAR, oldest_timestep, i>> \in StateAssignment
    BY StateShape
  <2>3. nominalFrom(x, First, t) \subseteq Assignment
    BY <1>2, TimeFacts
  <2>4. PICK i \in DOMAIN state :
          k = {<<STATE_VAR, oldest_timestep, i>>, <<x, BEFORE_HORIZON, 0>>}
                \cup nominalFrom(x, First, t)
    BY <1>5
  <2>5. {<<STATE_VAR, oldest_timestep, i>>, <<x, BEFORE_HORIZON, 0>>} \subseteq Assignment
    BY <2>1, <2>2 DEF Assignment
  <2> QED
    BY <2>3, <2>4, <2>5
<1>6. CASE \E s \in First..t : k = nominalFrom(x, s, t)
  BY <1>1, <1>2, <1>6, TimeFacts
<1> QED
  BY <1>3, <1>4, <1>5, <1>6, Zenon DEF nogoodsAt

-----------------------------------------------------------------------------
(* The steps *)

LEMMA Unmoved ==
  ASSUME UNCHANGED <<timeVars, state>>
  PROVE  /\ Proper' = Proper /\ Assignment' = Assignment
         /\ First' = First /\ Steps' = Steps
         /\ DOMAIN state' = DOMAIN state
<1>1. First' = First /\ oldest_timestep' = oldest_timestep /\ timestep' = timestep /\ state' = state
  BY DEF timeVars, First
<1>2. /\ TransitionTimes' = TransitionTimes /\ StateAssignment' = StateAssignment
      /\ Steps' = Steps
  BY <1>1 DEF TransitionTimes, StateAssignment, Steps, BEFORE_HORIZON
<1>3. Failures' = Failures /\ Nominals' = Nominals
  BY <1>2 DEF Failures, Nominals
<1>4. Proper' = Proper
  BY <1>2, <1>3 DEF Proper
<1> QED
  BY <1>1, <1>2, <1>3, <1>4 DEF Assignment

LEMMA ResultsAreProper ==
  ASSUME TypeOK, NEW seeds, NEW list \in findResults(seeds)
  PROVE  list \in Seq(Proper)
<1> DEFINE found == {c \in Candidate : (\E s \in seeds : s \subseteq c) /\ IsConsistent(c)}
<1>1. list \in UNION {[1..n -> found] : n \in 0..number_tracked}
  BY DEF findResults
<1>2. found \subseteq Proper
  BY CandidatesAreProper
<1> HIDE DEF found
<1>3. PICK n \in 0..number_tracked : list \in [1..n -> found]
  BY <1>1
<1>4. n \in Nat
  OBVIOUS
<1> QED
  BY <1>2, <1>3, <1>4

LEMMA SearchStep ==
  ASSUME TInv, NEW lists, lists \subseteq Seq(Proper), NEW inconsistent,
         searchLeaves(lists, inconsistent),
         pending' \in Command \cup {IDLE, NONE}, RoomForPending'
  PROVE  TInv'
<1>1. UNCHANGED <<timeVars, state>> /\ searched' = TRUE
  BY DEF searchLeaves
<1>2. PICK list \in lists, new \in NewConflicts(inconsistent) :
        candidates' = list /\ conflicts' = conflicts \cup new
  BY DEF searchLeaves
<1>3. CandidatesProper'
  BY <1>1, <1>2, Unmoved DEF CandidatesProper
<1>4. \A k \in conflicts' : k \subseteq Assignment
  <2>1. new \subseteq Nogoods \cup {{}}
    BY DEF NewConflicts
  <2>2. \A k \in conflicts : k \subseteq Assignment
    BY DEF TInv, ConflictsRefer
  <2> QED
    BY <1>2, <2>1, <2>2, NogoodsRefer DEF TInv
<1>5. ConflictsRefer'
  BY <1>1, <1>4, Unmoved DEF ConflictsRefer
<1>6. TypeOK'
  BY <1>1, Unmoved DEF TInv, TypeOK, timeVars
<1>7. StateHasValues' /\ Len(command') = timestep' - 1
  BY <1>1 DEF TInv, StateHasValues, timeVars
<1> QED
  BY <1>3, <1>5, <1>6, <1>7 DEF TInv

LEMMA PrunedIsProper ==
  ASSUME CandidatesProper
  PROVE  prune_inconsistent_candidates \in Seq(Proper)
<1>1. Items(candidates, Consistent) \subseteq Proper
  BY DEF Items, Consistent, CandidatesProper
<1> QED
  BY <1>1, PrunedFacts

LEMMA PruneAndSearchStep ==
  ASSUME TInv, pruneAndSearch, pending' \in Command \cup {IDLE, NONE}, RoomForPending'
  PROVE  TInv'
<1>1. /\ {prune_inconsistent_candidates} \subseteq Seq(Proper)
      /\ findResults(FreshSeeds) \subseteq Seq(Proper)
  BY PrunedIsProper, ResultsAreProper DEF TInv
<1>2. \E lists \in {{prune_inconsistent_candidates}, findResults(FreshSeeds)} :
        \E inconsistent : searchLeaves(lists, inconsistent)
  BY DEF pruneAndSearch
<1> QED
  BY <1>1, <1>2, SearchStep

(* What is kept of a candidate refers to variables of the steps that are left. *)
LEMMA TruncatedIsProper ==
  ASSUME TypeOK, NEW h \in Nat, oldest_timestep < h, h <= timestep,
         oldest_timestep' = h, timestep' = timestep + 1,
         NEW c \in Proper, NEW i \in DOMAIN state'
  PROVE  truncateCandidate(c, h, i) \in Proper'
<1> DEFINE d == {a \in c : ~isTruncated(a, h)}
           s == <<STATE_VAR, h, i>>
<1>1. First' = h /\ TransitionTimes' = (h..timestep) \cup {BEFORE_HORIZON}
  BY TimeFacts DEF First, TransitionTimes, BEFORE_HORIZON
<1>2. s \in StateAssignment'
  BY DEF StateAssignment
<1>3. ASSUME NEW a \in d
      PROVE  a \in Failures'
  <2>1. ~(a[2] < h) /\ a[2] # BEFORE_HORIZON /\ a \in StateAssignment \cup Failures
    BY DEF isTruncated, Proper
  <2>2. a \notin StateAssignment
    BY <2>1, StateShape, TimeFacts
  <2>3. PICK x \in Component, t \in TransitionTimes : \E v \in DOMAIN failure[x] :
          a = <<x, t, v>>
    BY <2>1, <2>2, FailureShape
  <2>4. t \in First..(timestep - 1) /\ ~(t < h)
    BY <2>1, <2>3 DEF TransitionTimes
  <2>5. t \in TransitionTimes'
    BY <1>1, <2>4, TimeFacts
  <2> QED
    BY <2>3, <2>5 DEF Failures
<1>4. \A a \in d : a[1] \in Component
  BY <1>3 DEF Failures
<1>5. \A a, b \in d \cup {s} : a[1] = b[1] /\ a[2] = b[2] => a = b
  BY <1>4, ModelAssumption DEF Proper
<1>6. IsFiniteSet(d \cup {s})
  BY FS_Subset, FS_AddElement DEF Proper
<1>7. truncateCandidate(c, h, i) = d \cup {s}
  BY DEF truncateCandidate
<1> HIDE DEF d, s
<1> QED
  BY <1>2, <1>3, <1>5, <1>6, <1>7 DEF Proper

(* truncate_if_needed: the horizon that truncate gets. *)
LEMMA HorizonFacts ==
  ASSUME TypeOK, history_full, get_horizon > oldest_timestep
  PROVE  /\ get_horizon \in Nat /\ oldest_timestep < get_horizon
         /\ get_horizon <= timestep /\ timestep + 1 - get_horizon <= max_history_length
BY TimeFacts, LimitAssumption DEF get_horizon, history_full

StateProper ==
  \A i \in DOMAIN state : /\ state[i].mode \in [Component -> Mode \cup {NONE}]
                          /\ state[i].weight \in Nat
                          /\ state[i].explained \in BOOLEAN

LEMMA WithCandidatesStep ==
  ASSUME TInv, NEW h \in Nat, oldest_timestep < h, h <= timestep,
         oldest_timestep' = h, timestep' = timestep + 1,
         candidates # <<>>, truncateWithCandidates(h)
  PROVE  StateProper' /\ StateHasValues' /\ CandidatesProper'
<1> DEFINE n == Len(candidates)
           limit == IF max_truncated_candidates # 0 /\ n > max_truncated_candidates
                    THEN max_truncated_candidates ELSE n
<1>1. n \in Nat \ {0} /\ DOMAIN candidates = 1..n
  BY DEF TInv, CandidatesProper
<1>2. limit \in Nat \ {0}
  BY <1>1, LimitAssumption
<1>3. PICK summary :
        /\ \A j \in 1..n : IsConsistent(candidates[j]) =>
             summary[j] \in summaries(candidates[j], h)
        /\ LET kept == keptCandidates(h, limit, summary) IN
           /\ state' = [i \in 1..limit |->
                          IF i <= Len(kept)
                          THEN summarized(candidates[kept[i]], h, summary[kept[i]])
                          ELSE unsummarized]
           /\ candidates' = [i \in 1..Len(kept) |->
                               truncateCandidate(candidates[kept[i]], h, i)]
  BY DEF truncateWithCandidates
<1> DEFINE kept == keptCandidates(h, limit, summary)
<1>4. kept \in Seq(Consistent) /\ Len(kept) <= limit
  BY <1>2, KeptFacts DEF TInv
<1>5. /\ state' = [i \in 1..limit |->
                     IF i <= Len(kept)
                     THEN summarized(candidates[kept[i]], h, summary[kept[i]])
                     ELSE unsummarized]
      /\ candidates' = [i \in 1..Len(kept) |->
                          truncateCandidate(candidates[kept[i]], h, i)]
  BY <1>3
<1> HIDE DEF limit, kept
<1>6. \A i \in 1..Len(kept) :
        /\ kept[i] \in Consistent /\ candidates[kept[i]] \in Proper
        /\ summary[kept[i]] \in summaries(candidates[kept[i]], h)
  <2> SUFFICES ASSUME NEW i \in 1..Len(kept)
               PROVE  /\ kept[i] \in Consistent /\ candidates[kept[i]] \in Proper
                      /\ summary[kept[i]] \in summaries(candidates[kept[i]], h)
    OBVIOUS
  <2>1. kept[i] \in Consistent
    BY <1>4
  <2>2. kept[i] \in 1..n /\ IsConsistent(candidates[kept[i]])
    BY <1>1, <2>1 DEF Consistent
  <2>3. candidates[kept[i]] \in Proper
    BY <2>2 DEF TInv, CandidatesProper
  <2> QED
    BY <1>3, <2>1, <2>2, <2>3
<1>7. DOMAIN state' = 1..limit /\ StateHasValues'
  BY <1>2, <1>5 DEF StateHasValues
<1>8. StateProper'
  <2> SUFFICES ASSUME NEW i \in 1..limit
               PROVE  /\ state'[i].mode \in [Component -> Mode \cup {NONE}]
                      /\ state'[i].weight \in Nat
                      /\ state'[i].explained \in BOOLEAN
    BY <1>7 DEF StateProper
  <2>1. CASE i <= Len(kept)
    <3> DEFINE c == candidates[kept[i]]
               old == {a \in c : isTruncated(a, h)}
    <3>1. i \in 1..Len(kept) /\ c \in Proper /\ summary[kept[i]] \in summaries(c, h)
      BY <1>2, <1>4, <1>6, <2>1
    <3>2. state'[i] = summarized(c, h, summary[kept[i]])
      BY <1>5, <2>1
    <3> HIDE DEF c
    <3>3. summary[kept[i]] \in [Component -> Mode \cup {NONE}]
      BY <3>1 DEF summaries
    <3>4. get_weight(old) \in Nat
      BY <3>1, WeightIsNatural DEF TInv
    <3>5. isExplained(c) \in BOOLEAN
      BY DEF isExplained
    <3> QED
      BY <3>2, <3>3, <3>4, <3>5 DEF summarized
  <2>2. CASE ~(i <= Len(kept))
    BY <1>5, <2>2 DEF unsummarized
  <2> QED
    BY <2>1, <2>2
<1>9. CandidatesProper'
  <2>1. \A i \in 1..Len(kept) : i \in DOMAIN state'
    BY <1>2, <1>4, <1>7
  <2>2. \A i \in 1..Len(kept) : truncateCandidate(candidates[kept[i]], h, i) \in Proper'
    BY <1>6, <2>1, TruncatedIsProper DEF TInv
  <2>3. candidates' \in [1..Len(kept) -> Proper'] /\ Len(kept) \in Nat
    BY <1>4, <1>5, <2>2
  <2> QED
    BY <2>3 DEF CandidatesProper
<1> QED
  BY <1>7, <1>8, <1>9

LEMMA WithoutCandidatesStep ==
  ASSUME TInv, NEW h, candidates = <<>>, truncateWithoutCandidates(h)
  PROVE  StateProper' /\ StateHasValues' /\ CandidatesProper'
<1>1. PICK modes \in [Component -> Mode \cup {NONE}] :
        state' = [i \in DOMAIN state |-> [unsummarized EXCEPT !.mode = modes]]
  <2>1. \A modes \in UNION {leftovers(c, h) : c \in Candidate} :
          modes \in [Component -> Mode \cup {NONE}]
    BY DEF leftovers
  <2> QED
    BY <2>1 DEF truncateWithoutCandidates
<1>2. DOMAIN state' = DOMAIN state
  BY <1>1
<1>3. StateProper'
  BY <1>1, <1>2 DEF StateProper, unsummarized
<1>4. CandidatesProper'
  BY DEF truncateWithoutCandidates, CandidatesProper
<1>5. StateHasValues'
  BY <1>2 DEF StateHasValues, TInv
<1> QED
  BY <1>3, <1>4, <1>5

(* A time step more, and perhaps an older horizon: the transitions that are left. *)
LEMMA TransitionsLeft ==
  ASSUME TypeOK, timestep' = timestep + 1,
         oldest_timestep' \in Nat, oldest_timestep <= oldest_timestep',
         oldest_timestep' <= timestep,
         NEW t \in TransitionTimes, ~(t < oldest_timestep')
  PROVE  t \in TransitionTimes'
<1>1. CASE t = BEFORE_HORIZON
  BY <1>1 DEF TransitionTimes, BEFORE_HORIZON
<1>2. CASE t \in First..(timestep - 1)
  <2>1. t \in First'..(timestep' - 1)
    BY <1>2, TimeFacts DEF First
  <2> QED
    BY <2>1 DEF TransitionTimes
<1> QED
  BY <1>1, <1>2 DEF TransitionTimes

LEMMA FaultsLeft ==
  ASSUME TypeOK, timestep' = timestep + 1,
         oldest_timestep' \in Nat, oldest_timestep <= oldest_timestep',
         oldest_timestep' <= timestep,
         NEW a \in Failures \cup Nominals, ~(a[2] < oldest_timestep')
  PROVE  a \in Failures' \cup Nominals'
<1>1. CASE a \in Failures
  <2>1. PICK x \in Component, t \in TransitionTimes : \E v \in DOMAIN failure[x] :
          a = <<x, t, v>>
    BY <1>1, FailureShape
  <2>2. t \in TransitionTimes'
    BY <2>1, TransitionsLeft
  <2> QED
    BY <2>1, <2>2 DEF Failures
<1>2. CASE a \in Nominals
  <2>1. PICK x \in Component, t \in TransitionTimes : a = <<x, t, 0>>
    BY <1>2 DEF Nominals
  <2>2. t \in TransitionTimes'
    BY <2>1, TransitionsLeft
  <2> QED
    BY <2>1, <2>2 DEF Nominals
<1> QED
  BY <1>1, <1>2

LEMMA TruncateStep ==
  ASSUME TInv, NEW h \in Nat, oldest_timestep < h, h <= timestep,
         timestep' = timestep + 1, truncate(h)
  PROVE  StateProper' /\ StateHasValues' /\ CandidatesProper' /\ ConflictsRefer'
<1>1. oldest_timestep' = h
  BY DEF truncate
<1>2. StateProper' /\ StateHasValues' /\ CandidatesProper'
  <2>1. CASE candidates = <<>>
    BY <2>1, WithoutCandidatesStep DEF truncate
  <2>2. CASE candidates # <<>>
    BY <1>1, <2>2, WithCandidatesStep DEF truncate
  <2> QED
    BY <2>1, <2>2
<1>3. ASSUME NEW k \in conflicts', NEW a \in k
      PROVE  a \in Assignment'
  <2>1. k \in conflicts /\ ~(a[2] < h)
    BY DEF truncate, conflict_is_old
  <2>2. a \in Assignment
    BY <2>1 DEF TInv, ConflictsRefer
  <2>3. a \notin StateAssignment
    BY <2>1, StateShape
  <2>4. a \in Failures' \cup Nominals'
    BY <1>1, <2>1, <2>2, <2>3, FaultsLeft DEF Assignment, TInv, TypeOK
  <2> QED
    BY <2>4 DEF Assignment
<1> QED
  BY <1>2, <1>3 DEF ConflictsRefer

(* Without truncation all variables stay, and the candidates keep theirs. *)
LEMMA GrowStep ==
  ASSUME TInv, timestep' = timestep + 1,
         UNCHANGED <<state, candidates, conflicts, oldest_timestep>>
  PROVE  StateProper' /\ StateHasValues' /\ CandidatesProper' /\ ConflictsRefer'
<1>1. StateProper' /\ StateHasValues'
  BY DEF TInv, TypeOK, StateProper, StateHasValues
<1>2. StateAssignment' = StateAssignment
  BY DEF StateAssignment
<1>3. TransitionTimes \subseteq TransitionTimes'
  BY TimeFacts DEF TransitionTimes, First, BEFORE_HORIZON, TInv
<1>4. Failures \subseteq Failures' /\ Nominals \subseteq Nominals'
  BY <1>3 DEF Failures, Nominals
<1>5. Proper \subseteq Proper' /\ Assignment \subseteq Assignment'
  <2>1. Assignment \subseteq Assignment'
    BY <1>2, <1>4 DEF Assignment
  <2>2. StateAssignment \cup Failures \subseteq StateAssignment' \cup Failures'
    BY <1>2, <1>4
  <2>3. Proper \subseteq Proper'
    BY <2>2 DEF Proper
  <2> QED
    BY <2>1, <2>3
<1>6. CandidatesProper' /\ ConflictsRefer'
  BY <1>5 DEF TInv, CandidatesProper, ConflictsRefer
<1> QED
  BY <1>1, <1>6

LEMMA ProgressStep ==
  ASSUME TInv, progress
  PROVE  TInv'
<1>1. timestep' = timestep + 1 /\ pending' = NONE /\ searched' = FALSE
  BY DEF progress
<1>2. timestep' \in 1..MaxTime /\ RoomForPending'
  BY <1>1, TimeFacts DEF TInv, RoomForPending, progress
<1>3. /\ oldest_timestep' \in Nat /\ oldest_timestep <= oldest_timestep'
      /\ oldest_timestep' <= timestep /\ timestep' - oldest_timestep' <= max_history_length
      /\ StateProper' /\ StateHasValues' /\ CandidatesProper' /\ ConflictsRefer'
  <2>1. CASE history_full /\ get_horizon > oldest_timestep
    <3>1. truncate(get_horizon) /\ oldest_timestep' = get_horizon
      BY <2>1 DEF progress, truncate
    <3> QED
      BY <1>1, <2>1, <3>1, HorizonFacts, TimeFacts, TruncateStep, SMTT(30) DEF TInv
  <2>2. CASE ~(history_full /\ get_horizon > oldest_timestep)
    <3>1. UNCHANGED <<state, candidates, conflicts, oldest_timestep>>
      BY <2>2 DEF progress
    <3>2. timestep' - oldest_timestep' <= max_history_length
      BY <1>1, <2>2, <3>1, TimeFacts, LimitAssumption, SMTT(30) DEF TInv, history_full, get_horizon
    <3> QED
      BY <1>1, <3>1, <3>2, GrowStep, TimeFacts DEF TInv
  <2> QED
    BY <2>1, <2>2
<1>4. command' \in Seq(Command \cup {IDLE}) /\ Len(command') = timestep' - 1
  <2>1. command \in Seq(Command \cup {IDLE}) /\ pending \in Command \cup {IDLE}
    BY DEF TInv, TypeOK, progress
  <2>2. command' = Append(command, pending)
    BY DEF progress
  <2> QED
    BY <1>1, <2>1, <2>2, TimeFacts, SMTT(30) DEF TInv
<1>5. observed' \in [Steps' -> [Component -> Reading \cup {NONE}]]
  <2> DEFINE h == oldest_timestep'
             kept == {u \in Steps : u >= h} \cup {timestep + 1}
  <2>1. observed' = [t \in kept |-> observed[IF t > timestep THEN timestep ELSE t]]
    BY DEF progress, copyNow
  <2>2. Steps' = kept
    <3>1. First' = IF h = 0 THEN 1 ELSE h
      BY DEF First
    <3>2. Steps' = First'..(timestep + 1)
      BY <1>1 DEF Steps
    <3>3. \A u \in Nat : u \in First..timestep /\ u >= h <=> u \in First'..timestep
      BY <1>3, <3>1, TimeFacts DEF TInv, First
    <3>4. First' \in Nat /\ First' <= timestep + 1 /\ First \in Nat /\ timestep \in Nat
      BY <1>3, <3>1, TimeFacts DEF TInv
    <3> HIDE DEF h
    <3>5. \A u : u \in kept <=> u \in First'..(timestep + 1)
      BY <3>3, <3>4 DEF Steps
    <3> QED
      BY <3>2, <3>5
  <2>3. ASSUME NEW t \in kept
        PROVE  observed[IF t > timestep THEN timestep ELSE t] \in [Component -> Reading \cup {NONE}]
    <3>1. (IF t > timestep THEN timestep ELSE t) \in Steps
      BY TimeFacts DEF Steps, TInv
    <3> QED
      BY <3>1 DEF TInv, TypeOK
  <2> HIDE DEF kept
  <2> QED
    BY <2>1, <2>2, <2>3
<1>6. oldest_timestep' \in 0..timestep'
  BY <1>1, <1>3, TimeFacts DEF TInv
<1>7. TypeOK'
  BY <1>1, <1>2, <1>3, <1>4, <1>5, <1>6 DEF TypeOK, StateProper
<1> QED
  BY <1>2, <1>3, <1>4, <1>7 DEF TInv

LEMMA ObserveStep ==
  ASSUME TInv, NEW x \in Component, NEW r \in Reading \cup {NONE}, observe(x, r)
  PROVE  TInv'
<1>1. UNCHANGED <<timestep, oldest_timestep, command, state, candidates, conflicts,
                  pending, searched>>
  BY DEF observe
<1>2. /\ First' = First /\ Steps' = Steps
      /\ TransitionTimes' = TransitionTimes /\ StateAssignment' = StateAssignment
  BY <1>1 DEF First, Steps, TransitionTimes, StateAssignment, BEFORE_HORIZON
<1>3. Failures' = Failures /\ Nominals' = Nominals
  BY <1>2 DEF Failures, Nominals
<1>4. Proper' = Proper /\ Assignment' = Assignment
  BY <1>2, <1>3 DEF Proper, Assignment
<1>5. observed' \in [Steps -> [Component -> Reading \cup {NONE}]]
  BY DEF observe, TInv, TypeOK
<1>6. TypeOK'
  BY <1>1, <1>2, <1>5 DEF TypeOK, TInv
<1>7. CandidatesProper' /\ ConflictsRefer'
  BY <1>1, <1>4 DEF TInv, CandidatesProper, ConflictsRefer
<1>8. StateHasValues' /\ RoomForPending' /\ Len(command') = timestep' - 1
  BY <1>1 DEF TInv, StateHasValues, RoomForPending
<1> QED
  BY <1>6, <1>7, <1>8 DEF TInv

LEMMA ParseCommandStep ==
  ASSUME TInv, parse_msg_COMMAND
  PROVE  TInv'
<1>1. UNCHANGED <<timeVars, state, candidates, conflicts, searched>> /\ UNCHANGED <<timeVars, state>>
  BY DEF parse_msg_COMMAND
<1>2. TypeOK'
  BY <1>1, Unmoved DEF TypeOK, TInv, timeVars, parse_msg_COMMAND
<1>3. CandidatesProper' /\ ConflictsRefer'
  BY <1>1, Unmoved DEF TInv, CandidatesProper, ConflictsRefer
<1>4. StateHasValues' /\ RoomForPending' /\ Len(command') = timestep' - 1
  BY <1>1 DEF TInv, StateHasValues, RoomForPending, timeVars, parse_msg_COMMAND
<1> QED
  BY <1>2, <1>3, <1>4 DEF TInv

LEMMA TInvInit ==
  ASSUME Init
  PROVE  TInv
<1> USE DEF Init
<1>1. timestep \in 1..MaxTime /\ oldest_timestep \in 0..timestep
      /\ timestep - oldest_timestep <= max_history_length
  BY LimitAssumption
<1>2. Steps = {1}
  BY DEF Steps, First
<1>3. observed \in [Steps -> [Component -> Reading \cup {NONE}]]
  BY <1>2
<1>4. command \in Seq(Command \cup {IDLE}) /\ Len(command) = timestep - 1
  OBVIOUS
<1>5. DOMAIN state = 1..1 /\ state[1] = [mode |-> initial, weight |-> 0, trajectory |-> {},
                                          explained |-> TRUE]
  OBVIOUS
<1> HIDE DEF Init
<1>6. \A i \in DOMAIN state : /\ state[i].mode \in [Component -> Mode \cup {NONE}]
                              /\ state[i].weight \in Nat
                              /\ state[i].explained \in BOOLEAN
  <2>1. initial \in [Component -> Mode \cup {NONE}]
    BY ModelAssumption
  <2>2. \A i \in DOMAIN state : i = 1
    BY <1>5
  <2>3. /\ state[1].mode = initial /\ state[1].weight = 0 /\ state[1].explained = TRUE
    BY <1>5
  <2>4. state[1].mode \in [Component -> Mode \cup {NONE}]
    BY <2>1, <2>3
  <2>5. state[1].weight \in Nat
    BY <2>3
  <2>6. state[1].explained \in BOOLEAN
    BY <2>3, Zenon
  <2> QED
    BY <2>2, <2>4, <2>5, <2>6
<1>7. TypeOK
  BY <1>1, <1>3, <1>4, <1>6 DEF TypeOK, Init
<1>8. StateHasValues
  BY <1>5 DEF StateHasValues
<1>9. CandidatesProper
  <2>1. {} \in Proper
    BY FS_EmptySet DEF Proper
  <2> QED
    BY <2>1 DEF CandidatesProper, Init
<1> QED
  BY <1>4, <1>7, <1>8, <1>9 DEF TInv, RoomForPending, ConflictsRefer, Init

LEMMA TInvStep ==
  ASSUME TInv, [Next]_vars
  PROVE  TInv'
<1>1. TypeOK /\ RoomForPending
  BY DEF TInv
<1>2. CASE extend_candidates
  <2>1. \E seeds : searchLeaves(findResults(seeds), rejected(seeds))
    BY <1>2 DEF extend_candidates, search
  <2>2. pending' = pending /\ UNCHANGED timeVars
    BY <1>2 DEF extend_candidates, search, searchLeaves
  <2>3. pending' \in Command \cup {IDLE, NONE} /\ RoomForPending'
    BY <1>1, <2>2 DEF TypeOK, RoomForPending, timeVars
  <2> QED
    BY <1>1, <2>1, <2>3, SearchStep, ResultsAreProper
<1>3. CASE find_fresh_candidates
  <2>1. searchLeaves(findResults(FreshSeeds), rejected(FreshSeeds))
    BY <1>3 DEF find_fresh_candidates, search
  <2>2. pending' = pending /\ UNCHANGED timeVars
    BY <1>3 DEF find_fresh_candidates, search, searchLeaves
  <2>3. pending' \in Command \cup {IDLE, NONE} /\ RoomForPending'
    BY <1>1, <2>2 DEF TypeOK, RoomForPending, timeVars
  <2> QED
    BY <1>1, <2>1, <2>3, SearchStep, ResultsAreProper
<1>4. ASSUME pruneAndSearch
      PROVE  UNCHANGED timeVars
  BY <1>4 DEF pruneAndSearch, searchLeaves
<1>5. CASE prune_and_search
  <2>1. pending' = pending /\ UNCHANGED timeVars /\ pruneAndSearch
    BY <1>4, <1>5 DEF prune_and_search
  <2>2. pending' \in Command \cup {IDLE, NONE} /\ RoomForPending'
    BY <1>1, <2>1 DEF TypeOK, RoomForPending, timeVars
  <2> QED
    BY <2>1, <2>2, PruneAndSearchStep
<1>6. CASE command_or_idle
  <2>1. pending' \in Command \cup {IDLE} /\ UNCHANGED timeVars /\ pruneAndSearch
        /\ timestep < MaxTime
    BY <1>4, <1>6 DEF command_or_idle
  <2>2. pending' \in Command \cup {IDLE, NONE} /\ RoomForPending'
    BY <2>1 DEF RoomForPending, timeVars
  <2> QED
    BY <2>1, <2>2, PruneAndSearchStep
<1>7. CASE UNCHANGED vars
  <2>1. UNCHANGED <<timeVars, state>> /\ UNCHANGED <<command, observed, candidates, conflicts, pending, searched, timestep, state>>
    BY <1>7 DEF vars, timeVars
  <2>2. TypeOK'
    BY <1>1, <2>1, Unmoved DEF TypeOK, timeVars
  <2>3. CandidatesProper' /\ ConflictsRefer'
    BY <2>1, Unmoved DEF TInv, CandidatesProper, ConflictsRefer
  <2>4. StateHasValues' /\ RoomForPending' /\ Len(command') = timestep' - 1
    BY <2>1 DEF TInv, StateHasValues, RoomForPending
  <2> QED
    BY <2>2, <2>3, <2>4 DEF TInv
<1> QED
  BY <1>2, <1>3, <1>5, <1>6, <1>7, ProgressStep, ParseCommandStep, ObserveStep DEF Next

LEMMA TInvAlways == Spec => []TInv
BY TInvInit, TInvStep, PTL DEF Spec

(* Every variable keeps a value of its kind, and truncate_if_needed keeps the
   history within max_history_length. *)
THEOREM TypeCorrect == Spec => []TypeOK
<1>1. TInv => TypeOK
  BY DEF TInv
<1> QED
  BY <1>1, TInvAlways, PTL

(* remove_old_variables: no candidate and no conflict is left that refers to a
   variable of a time step before the horizon, however often the history is
   truncated. *)
THEOREM ReferencesExist == Spec => []NoneDangling
<1>1. TInv => NoneDangling
  BY DEF TInv, NoneDangling, CandidatesProper, ConflictsRefer, Proper, Assignment
<1> QED
  BY <1>1, TInvAlways, PTL

-----------------------------------------------------------------------------
(* Histories *)

(* The parts of trajectories: a failure at a step, and one before the horizon with
   the step that was the oldest at that time. *)
StepPart == UNION {{<<x, t, v>> : t \in Nat, v \in DOMAIN failure[x]} : x \in Component}

HorizonPart ==
  UNION {{<<x, BEFORE_HORIZON, v, t>> : t \in Nat, v \in DOMAIN failure[x]} : x \in Component}

Part == StepPart \cup HorizonPart

horizonFailures(H, x, t) == {a \in H : Len(a) = 4 /\ a[1] = x /\ a[4] = t}

stepFailures(H, x, t) == {a \in H : Len(a) = 3 /\ a[1] = x /\ a[2] = t}

target(S, x) == failure[x][(CHOOSE a \in S : TRUE)[3]]

LEMMA StepPartShape ==
  ASSUME NEW a
  PROVE  a \in StepPart <=> \E x \in Component, t \in Nat : \E v \in DOMAIN failure[x] :
                              a = <<x, t, v>>
BY DEF StepPart

LEMMA HorizonPartShape ==
  ASSUME NEW a
  PROVE  a \in HorizonPart <=> \E x \in Component, t \in Nat : \E v \in DOMAIN failure[x] :
                                 a = <<x, BEFORE_HORIZON, v, t>>
BY DEF HorizonPart

LEMMA PartFacts ==
  /\ \A a \in StepPart : /\ Len(a) = 3 /\ a[1] \in Component /\ a[2] \in Nat
                         /\ a[3] \in DOMAIN failure[a[1]] /\ a = <<a[1], a[2], a[3]>>
  /\ \A a \in HorizonPart : /\ Len(a) = 4 /\ a[1] \in Component /\ a[4] \in Nat
                            /\ a[3] \in DOMAIN failure[a[1]]
                            /\ a = <<a[1], BEFORE_HORIZON, a[3], a[4]>>
<1>1. ASSUME NEW a \in StepPart
      PROVE  /\ Len(a) = 3 /\ a[1] \in Component /\ a[2] \in Nat
             /\ a[3] \in DOMAIN failure[a[1]] /\ a = <<a[1], a[2], a[3]>>
  <2>1. PICK x \in Component, t \in Nat : \E v \in DOMAIN failure[x] : a = <<x, t, v>>
    BY StepPartShape
  <2>2. PICK v \in DOMAIN failure[x] : a = <<x, t, v>>
    BY <2>1
  <2> QED
    BY <2>2
<1>2. ASSUME NEW a \in HorizonPart
      PROVE  /\ Len(a) = 4 /\ a[1] \in Component /\ a[4] \in Nat
             /\ a[3] \in DOMAIN failure[a[1]]
             /\ a = <<a[1], BEFORE_HORIZON, a[3], a[4]>>
  <2>1. PICK x \in Component, t \in Nat : \E v \in DOMAIN failure[x] :
          a = <<x, BEFORE_HORIZON, v, t>>
    BY HorizonPartShape
  <2>2. PICK v \in DOMAIN failure[x] : a = <<x, BEFORE_HORIZON, v, t>>
    BY <2>1
  <2> QED
    BY <2>2
<1> QED
  BY <1>1, <1>2

(* The failures at a time lead to a mode. *)
LEMMA TargetIsMode ==
  ASSUME NEW H \in SUBSET Part, NEW x \in Component, NEW t
  PROVE  /\ horizonFailures(H, x, t) # {} => target(horizonFailures(H, x, t), x) \in Mode
         /\ stepFailures(H, x, t) # {} => target(stepFailures(H, x, t), x) \in Mode
<1>1. \A a \in H : a[1] = x => a[3] \in DOMAIN failure[x]
  BY PartFacts DEF Part
<1>2. ASSUME NEW S \in SUBSET H, S # {}, \A a \in S : a[1] = x
      PROVE  target(S, x) \in Mode
  <2>1. (CHOOSE a \in S : TRUE) \in S
    BY <1>2
  <2> QED
    BY <1>1, <1>2, <2>1, FaultFacts DEF target
<1>3. /\ horizonFailures(H, x, t) \in SUBSET H /\ stepFailures(H, x, t) \in SUBSET H
      /\ \A a \in horizonFailures(H, x, t) \cup stepFailures(H, x, t) : a[1] = x
  BY DEF horizonFailures, stepFailures
<1> QED
  BY <1>2, <1>3

(* The modes of x after the failures of H and the commands k, up to step n. *)
ModeAfter(H, x, k, t, m) ==
  IF horizonFailures(H, x, t) # {} THEN target(horizonFailures(H, x, t), x)
  ELSE IF t = 1
       THEN IF horizonFailures(H, x, 0) # {} THEN target(horizonFailures(H, x, 0), x)
            ELSE initial[x]
       ELSE IF stepFailures(H, x, t - 1) # {} THEN target(stepFailures(H, x, t - 1), x)
            ELSE nextMode(x, k[t - 1], m)

IsReplay(f, n, k, H, x) ==
  /\ f \in [1..n -> Mode]
  /\ \A t \in 1..n : f[t] = ModeAfter(H, x, k, t, f[t - 1])

(* Two histories lead to the same modes up to a step if they have the same
   failures and the same commands until then. *)
LEMMA ReplaysAgree ==
  ASSUME NEW n \in Nat, NEW m \in Nat, NEW last \in Nat, last <= n, last <= m,
         NEW x, NEW H, NEW K, NEW k, NEW l, NEW f, NEW g,
         IsReplay(f, n, k, H, x), IsReplay(g, m, l, K, x),
         \A u \in 0..last : horizonFailures(H, x, u) = horizonFailures(K, x, u),
         \A u \in 1..(last - 1) : /\ stepFailures(H, x, u) = stepFailures(K, x, u)
                                  /\ k[u] = l[u]
  PROVE  \A t \in 1..last : f[t] = g[t]
<1> DEFINE P == {t \in Nat : t \in 1..last => f[t] = g[t]}
<1>1. 0 \in P
  OBVIOUS
<1>2. ASSUME NEW u \in Nat, u \in P
      PROVE  u + 1 \in P
  <2> SUFFICES ASSUME u + 1 \in 1..last
               PROVE  f[u + 1] = g[u + 1]
    OBVIOUS
  <2> DEFINE t == u + 1
  <2>1. t \in 1..n /\ t \in 1..m /\ t \in 1..last /\ t - 1 = u /\ t \in 0..last /\ 0 \in 0..last
    OBVIOUS
  <2>2. f[t] = ModeAfter(H, x, k, t, f[t - 1]) /\ g[t] = ModeAfter(K, x, l, t, g[t - 1])
    BY <2>1 DEF IsReplay
  <2>3. /\ horizonFailures(H, x, t) = horizonFailures(K, x, t)
        /\ horizonFailures(H, x, 0) = horizonFailures(K, x, 0)
    BY <2>1
  <2>4. ASSUME t # 1
        PROVE  /\ stepFailures(H, x, t - 1) = stepFailures(K, x, t - 1)
               /\ k[t - 1] = l[t - 1] /\ f[t - 1] = g[t - 1]
    <3>1. t - 1 \in 1..(last - 1) /\ u \in 1..last
      BY <2>1, <2>4
    <3> QED
      BY <1>2, <2>1, <3>1
  <2> HIDE DEF t, P
  <2>5. f[t] = g[t]
    BY <2>2, <2>3, <2>4 DEF ModeAfter
  <2> QED
    BY <2>5 DEF t
<1> HIDE DEF P
<1>3. Nat \subseteq P
  BY <1>1, <1>2, Induction
<1> QED
  BY <1>3 DEF P

(* The commands given so far, and the mode that follows without a failure. *)
LEMMA NextIsMode ==
  ASSUME TInv, NEW x \in Component, NEW t \in 1..(timestep - 1), NEW m \in Mode
  PROVE  nextMode(x, command[t], m) \in Mode
<1>1. command \in Seq(Command \cup {IDLE}) /\ Len(command) = timestep - 1
  BY DEF TInv, TypeOK
<1>2. command[t] \in Command \cup {IDLE}
  BY <1>1
<1> QED
  BY <1>2, ModelAssumption DEF nextMode

(* A recursion from a first step to the present has a solution. *)
GivesModes(G, s, n) == \A t \in (s + 1)..n : \A m \in Mode : G[<<t, m>>] \in Mode

AreModes(f, s, n, base, G) ==
  /\ f \in [s..n -> Mode]
  /\ f[s] = base /\ \A t \in (s + 1)..n : f[t] = G[<<t, f[t - 1]>>]

LEMMA ModesExist ==
  ASSUME NEW s \in Nat, NEW n \in Nat, s <= n, NEW G, NEW base \in Mode,
         GivesModes(G, s, n)
  PROVE  \E f : AreModes(f, s, n, base, G)
<1> USE DEF GivesModes
<1> DEFINE H == [p \in Nat \X Mode |->
                   IF s + p[1] + 1 <= n THEN G[<<s + p[1] + 1, p[2]>>] ELSE p[2]]
<1>1. IsStep(H, Mode)
  <2>1. ASSUME NEW p \in Nat \X Mode
        PROVE  H[p] \in Mode
    <3>1. p[1] \in Nat /\ p[2] \in Mode
      OBVIOUS
    <3>2. s + p[1] + 1 <= n => s + p[1] + 1 \in (s + 1)..n
      BY <3>1
    <3> QED
      BY <3>1, <3>2
  <2> QED
    BY <2>1 DEF IsStep
<1>2. \A i \in Nat : \A m \in Mode : s + i + 1 <= n => H[<<i, m>>] = G[<<s + i + 1, m>>]
  <2> TAKE i \in Nat
  <2> TAKE m \in Mode
  <2>1. <<i, m>> \in Nat \X Mode /\ <<i, m>>[1] = i /\ <<i, m>>[2] = m
    OBVIOUS
  <2> QED
    BY <2>1
<1> HIDE DEF H
<1>3. PICK h : IsRecursion(h, Mode, base, H)
  BY <1>1, Recursion
<1> DEFINE f == [t \in s..n |-> h[t - s]]
<1>4. f \in [s..n -> Mode]
  BY <1>3 DEF IsRecursion
<1>5. s - s = 0 /\ s \in s..n /\ f[s] = base
  BY <1>3 DEF IsRecursion
<1>6. ASSUME NEW t \in (s + 1)..n
      PROVE  f[t] = G[<<t, f[t - 1]>>]
  <2>1. t - 1 \in s..n /\ t \in s..n /\ t - 1 - s \in Nat /\ t - s = (t - 1 - s) + 1
        /\ s + (t - 1 - s) + 1 = t
    OBVIOUS
  <2>2. h[(t - 1 - s) + 1] = H[<<t - 1 - s, h[t - 1 - s]>>] /\ h[t - 1 - s] \in Mode
    BY <1>3, <2>1 DEF IsRecursion
  <2>3. f[t] = h[t - s] /\ f[t - 1] = h[t - 1 - s]
    BY <2>1
  <2> QED
    BY <1>2, <2>1, <2>2, <2>3
<1> HIDE DEF f
<1> QED
  BY <1>4, <1>5, <1>6 DEF AreModes

LEMMA ReplayFacts ==
  ASSUME TInv, NEW H \in SUBSET Part, NEW x \in Component
  PROVE  IsReplay(replay(H, x), timestep, command, H, x)
<1> DEFINE G == [p \in (2..timestep) \X Mode |-> ModeAfter(H, x, command, p[1], p[2])]
           base == ModeAfter(H, x, command, 1, initial[x])
           n == timestep
           body(mode) == [t \in 1..timestep |-> ModeAfter(H, x, command, t, mode[t - 1])]
           mode == CHOOSE mode : mode = body(mode)
<1>1. n \in Nat /\ 1 <= n /\ initial[x] \in Mode
  BY TimeFacts, ModelAssumption DEF TInv
<1>2. base \in Mode
  BY <1>1, TargetIsMode DEF ModeAfter
<1>3. \A t \in (1 + 1)..n : \A m \in Mode :
        G[<<t, m>>] = ModeAfter(H, x, command, t, m) /\ G[<<t, m>>] \in Mode
  <2> TAKE t \in (1 + 1)..n
  <2> TAKE m \in Mode
  <2>1. t - 1 \in 1..(n - 1) /\ <<t, m>> \in (2..timestep) \X Mode /\ t # 1
        /\ <<t, m>>[1] = t /\ <<t, m>>[2] = m
    BY <1>1
  <2>2. ModeAfter(H, x, command, t, m) \in Mode
    BY <2>1, TargetIsMode, NextIsMode DEF ModeAfter
  <2> QED
    BY <2>1, <2>2
<1> HIDE DEF G, base
<1>4. PICK f \in [1..n -> Mode] :
        f[1] = base /\ \A t \in (1 + 1)..n : f[t] = G[<<t, f[t - 1]>>]
  <2>1. GivesModes(G, 1, n)
    BY <1>3 DEF GivesModes
  <2> HIDE DEF n
  <2>2. \E f : AreModes(f, 1, n, base, G)
    BY <1>1, <1>2, <2>1, ModesExist
  <2> QED
    BY <2>2 DEF AreModes
<1>5. \A t \in 1..n : f[t] = ModeAfter(H, x, command, t, f[t - 1])
  <2> TAKE t \in 1..n
  <2>1. CASE t = 1
    BY <1>4, <2>1 DEF base, ModeAfter
  <2>2. CASE t # 1
    <3>1. t \in (1 + 1)..n /\ t - 1 \in 1..n
      BY <1>1, <2>2
    <3> QED
      BY <1>3, <1>4, <3>1
  <2> QED
    BY <2>1, <2>2
<1>6. f = body(f)
  <2>1. f = [t \in 1..n |-> f[t]]
    BY <1>4
  <2> QED
    BY <1>5, <2>1
<1>7. mode = body(mode)
  <2> HIDE DEF body
  <2> QED
    BY <1>6
<1>8. replay(H, x) = mode
  BY DEF replay, ModeAfter, horizonFailures, stepFailures, target
<1>9. ASSUME NEW g, g = body(g)
      PROVE  IsReplay(g, n, command, H, x)
  <2>1. \A t \in 1..n : g[t] = ModeAfter(H, x, command, t, g[t - 1])
    BY <1>9
  <2>2. g = [t \in 1..n |-> g[t]]
    BY <1>9
  <2> DEFINE P == {t \in Nat : t \in 1..n => g[t] \in Mode}
  <2>3. 0 \in P
    OBVIOUS
  <2>4. ASSUME NEW u \in Nat, u \in P
        PROVE  u + 1 \in P
    <3> SUFFICES ASSUME u + 1 \in 1..n PROVE g[u + 1] \in Mode
      OBVIOUS
    <3>1. g[u + 1] = ModeAfter(H, x, command, u + 1, g[u])
      <4>1. (u + 1) - 1 = u
        OBVIOUS
      <4> HIDE DEF n
      <4> QED
        BY <2>1, <4>1
    <3>2. CASE u = 0
      <4>1. ModeAfter(H, x, command, 1, g[u]) \in Mode
        BY <1>1, TargetIsMode DEF ModeAfter
      <4> QED
        BY <3>1, <3>2, <4>1
    <3>3. CASE u # 0
      <4>1. u \in 1..(timestep - 1) /\ g[u] \in Mode /\ u + 1 # 1 /\ (u + 1) - 1 = u
        BY <1>1, <2>4, <3>3
      <4>2. nextMode(x, command[u], g[u]) \in Mode
        BY <4>1, NextIsMode
      <4>3. nextMode(x, command[(u + 1) - 1], g[u]) \in Mode
        BY <4>1, <4>2
      <4>4. ModeAfter(H, x, command, u + 1, g[u]) \in Mode
        BY <4>1, <4>3, TargetIsMode DEF ModeAfter
      <4> QED
        BY <3>1, <4>4
    <3> QED
      BY <3>2, <3>3
  <2> HIDE DEF P, n, body
  <2>5. Nat \subseteq P
    BY <2>3, <2>4, Induction
  <2>6. \A t \in 1..n : g[t] \in Mode
    BY <1>1, <2>5 DEF P
  <2> QED
    BY <2>1, <2>2, <2>6 DEF IsReplay
<1> HIDE DEF mode, body
<1> QED
  BY <1>7, <1>8, <1>9

-----------------------------------------------------------------------------
(* Candidates *)

LEMMA ProperFacts ==
  ASSUME TInv, NEW c \in Proper, NEW a \in c
  PROVE  \/ /\ a[1] = STATE_VAR /\ a \in StateAssignment
            /\ a[2] = oldest_timestep /\ a[3] \in DOMAIN state
            /\ a = <<STATE_VAR, oldest_timestep, a[3]>>
         \/ /\ a[1] \in Component /\ a[1] # STATE_VAR /\ a \in Failures
            /\ a[2] \in TransitionTimes
            /\ a[3] \in DOMAIN failure[a[1]] /\ a = <<a[1], a[2], a[3]>>
            /\ a[3] \in Nat \ {0}
<1>1. a \in StateAssignment \cup Failures
  BY DEF Proper
<1>2. CASE a \in StateAssignment
  BY <1>2, StateShape
<1>3. CASE a \in Failures
  <2>1. PICK x \in Component, t \in TransitionTimes : \E v \in DOMAIN failure[x] :
          a = <<x, t, v>>
    BY <1>3, FailureShape
  <2>2. PICK v \in DOMAIN failure[x] : a = <<x, t, v>>
    BY <2>1
  <2>3. x # STATE_VAR /\ v \in Nat \ {0}
    BY FaultFacts
  <2> QED
    BY <1>3, <2>2, <2>3
<1> QED
  BY <1>1, <1>2, <1>3

(* The value that a candidate gives a transition. *)
LEMMA TransitionFacts ==
  ASSUME TInv, NEW c \in Proper, NEW x \in Component, NEW t
  PROVE  /\ transition(c, x, t) # 0 =>
              /\ <<x, t, transition(c, x, t)>> \in c
              /\ transition(c, x, t) \in DOMAIN failure[x]
              /\ \A a \in c : a[1] = x /\ a[2] = t => a = <<x, t, transition(c, x, t)>>
         /\ transition(c, x, t) = 0 => \A a \in c : ~(a[1] = x /\ a[2] = t)
<1>1. CASE \E a \in c : a[1] = x /\ a[2] = t
  <2> DEFINE b == CHOOSE a \in c : a[1] = x /\ a[2] = t
  <2>1. b \in c /\ b[1] = x /\ b[2] = t
    BY <1>1
  <2>2. transition(c, x, t) = b[3]
    BY <1>1 DEF transition
  <2> HIDE DEF b
  <2>3. x # STATE_VAR
    BY ModelAssumption
  <2>4. b = <<x, t, b[3]>> /\ b[3] \in DOMAIN failure[x] /\ b[3] # 0
    BY <2>1, <2>3, ProperFacts
  <2>5. \A a \in c : a[1] = x /\ a[2] = t => a = b
    BY <2>1 DEF Proper
  <2> QED
    BY <2>1, <2>2, <2>4, <2>5
<1>2. CASE ~\E a \in c : a[1] = x /\ a[2] = t
  BY <1>2 DEF transition
<1> QED
  BY <1>1, <1>2

(* What a candidate assigns to a transition tells the value. *)
LEMMA TransitionOf ==
  ASSUME TInv, NEW c \in Proper, NEW x \in Component, NEW t
  PROVE  \A a \in c : a[1] = x /\ a[2] = t =>
           transition(c, x, t) # 0 /\ a = <<x, t, transition(c, x, t)>>
<1> DEFINE v == transition(c, x, t)
<1>1. /\ v # 0 => \A b \in c : b[1] = x /\ b[2] = t => b = <<x, t, v>>
      /\ v = 0 => \A b \in c : ~(b[1] = x /\ b[2] = t)
  BY TransitionFacts
<1> HIDE DEF v
<1>2. \A a \in c : a[1] = x /\ a[2] = t => v # 0 /\ a = <<x, t, v>>
  BY <1>1
<1> QED
  BY <1>2 DEF v

(* The value of the state variable. *)
LEMMA StateOfFacts ==
  ASSUME TInv, NEW c \in Proper
  PROVE  /\ stateOf(c) \in DOMAIN state
         /\ \A a \in c : a[1] = STATE_VAR => a = <<STATE_VAR, oldest_timestep, stateOf(c)>>
         /\ (\A a \in c : a[1] # STATE_VAR) => stateOf(c) = 1
<1>1. CASE \E a \in c : a[1] = STATE_VAR
  <2> DEFINE b == CHOOSE a \in c : a[1] = STATE_VAR
  <2>1. b \in c /\ b[1] = STATE_VAR
    BY <1>1
  <2>2. stateOf(c) = b[3]
    BY <1>1 DEF stateOf
  <2> HIDE DEF b
  <2>3. STATE_VAR \notin Component
    BY ModelAssumption
  <2>4. b[3] \in DOMAIN state /\ b = <<STATE_VAR, oldest_timestep, b[3]>>
        /\ b[2] = oldest_timestep
    BY <2>1, <2>3, ProperFacts
  <2>5. \A a \in c : a[1] = STATE_VAR => a[2] = oldest_timestep
    BY <2>3, ProperFacts
  <2>6. \A a \in c : a[1] = STATE_VAR => a = b
    BY <2>1, <2>4, <2>5 DEF Proper
  <2> QED
    BY <1>1, <2>2, <2>4, <2>6
<1>2. CASE ~\E a \in c : a[1] = STATE_VAR
  <2>1. 1 \in DOMAIN state
    BY DEF TInv, StateHasValues
  <2> QED
    BY <1>2, <2>1 DEF stateOf
<1> QED
  BY <1>1, <1>2

(* course: each mode follows from the one before. *)
LEMMA CourseFacts ==
  ASSUME TInv, NEW c \in Proper, NEW x \in Component, NEW s \in 1..timestep, NEW m \in Mode
  PROVE  \A t \in s..timestep :
           course(c, x, s, m)[t] =
             IF t = s THEN m
             ELSE IF transition(c, x, t - 1) # 0
                  THEN failure[x][transition(c, x, t - 1)]
                  ELSE nextMode(x, command[t - 1], course(c, x, s, m)[t - 1])
<1> DEFINE n == timestep
           after(t, v) == IF transition(c, x, t - 1) # 0
                          THEN failure[x][transition(c, x, t - 1)]
                          ELSE nextMode(x, command[t - 1], v)
           G == [p \in ((s + 1)..timestep) \X Mode |-> after(p[1], p[2])]
           body(mode) == [t \in s..timestep |-> IF t = s THEN m ELSE after(t, mode[t - 1])]
           mode == CHOOSE mode : mode = body(mode)
<1>1. n \in Nat /\ s \in Nat /\ s <= n
  BY TimeFacts DEF TInv
<1>2. \A t \in (s + 1)..n : \A v \in Mode : G[<<t, v>>] = after(t, v) /\ after(t, v) \in Mode
  <2> TAKE t \in (s + 1)..n
  <2> TAKE v \in Mode
  <2>1. t - 1 \in 1..(timestep - 1) /\ <<t, v>> \in ((s + 1)..timestep) \X Mode
        /\ <<t, v>>[1] = t /\ <<t, v>>[2] = v
    BY <1>1
  <2>2. G[<<t, v>>] = after(t, v)
    BY <2>1
  <2>3. transition(c, x, t - 1) # 0 => failure[x][transition(c, x, t - 1)] \in Mode
    BY TransitionFacts, FaultFacts
  <2>4. nextMode(x, command[t - 1], v) \in Mode
    BY <2>1, NextIsMode
  <2> QED
    BY <2>2, <2>3, <2>4
<1>3. PICK f \in [s..n -> Mode] : f[s] = m /\ \A t \in (s + 1)..n : f[t] = G[<<t, f[t - 1]>>]
  <2> HIDE DEF G, after
  <2>1. GivesModes(G, s, n)
    BY <1>2 DEF GivesModes
  <2> HIDE DEF n
  <2>2. \E f : AreModes(f, s, n, m, G)
    BY <1>1, <2>1, ModesExist
  <2> QED
    BY <2>2 DEF AreModes
<1> HIDE DEF G
<1>4. \A t \in s..n : f[t] = IF t = s THEN m ELSE after(t, f[t - 1])
  <2> TAKE t \in s..n
  <2>1. CASE t = s
    BY <1>3, <2>1
  <2>2. CASE t # s
    <3>1. t \in (s + 1)..n /\ t - 1 \in s..n
      BY <1>1, <2>2
    <3> HIDE DEF after, n
    <3> QED
      BY <1>2, <1>3, <2>2, <3>1
  <2> QED
    BY <2>1, <2>2
<1>5. f = body(f)
  <2>1. f = [t \in s..n |-> f[t]]
    BY <1>3
  <2> HIDE DEF after
  <2> QED
    BY <1>4, <2>1
<1>6. mode = body(mode)
  <2> HIDE DEF body
  <2> QED
    BY <1>5
<1>7. course(c, x, s, m) = mode
  BY DEF course
<1> HIDE DEF mode
<1> QED
  BY <1>6, <1>7

(* Trajectory::Parts of a candidate: its failures since the horizon, and those
   before it with the step that is the oldest now. *)
LEMMA PartsFacts ==
  ASSUME TInv, NEW c \in Proper
  PROVE  /\ \A a \in parts(c) :
              \/ a \in StepPart /\ a \in c /\ a[2] \in First..(timestep - 1)
              \/ a \in HorizonPart /\ a[4] = oldest_timestep /\ <<a[1], BEFORE_HORIZON, a[3]>> \in c
         /\ \A a \in c : a[1] # STATE_VAR =>
              IF a[2] = BEFORE_HORIZON
              THEN <<a[1], BEFORE_HORIZON, a[3], oldest_timestep>> \in parts(c)
              ELSE a \in parts(c)
<1>1. oldest_timestep \in Nat /\ First \in Nat /\ timestep \in Nat
  BY TimeFacts DEF TInv
<1>2. ASSUME NEW b \in c, b[1] # STATE_VAR
      PROVE  /\ b[2] = BEFORE_HORIZON =>
                  /\ <<b[1], b[2], b[3], oldest_timestep>> \in HorizonPart
                  /\ <<b[1], BEFORE_HORIZON, b[3]>> \in c
             /\ b[2] # BEFORE_HORIZON => b \in StepPart /\ b[2] \in First..(timestep - 1)
  <2>1. /\ b[1] \in Component /\ b[2] \in TransitionTimes
        /\ b[3] \in DOMAIN failure[b[1]] /\ b = <<b[1], b[2], b[3]>>
    BY <1>2, ProperFacts
  <2>2. CASE b[2] = BEFORE_HORIZON
    <3>1. <<b[1], b[2], b[3], oldest_timestep>> \in HorizonPart
      BY <1>1, <2>1, <2>2, HorizonPartShape
    <3> QED
      BY <2>1, <2>2, <3>1
  <2>3. CASE b[2] # BEFORE_HORIZON
    <3>1. b[2] \in First..(timestep - 1)
      BY <2>1, <2>3 DEF TransitionTimes
    <3>2. b[2] \in Nat
      BY <1>1, <3>1
    <3>3. b \in StepPart
      BY <2>1, <3>2, StepPartShape
    <3> QED
      BY <2>3, <3>1, <3>3
  <2> QED
    BY <2>2, <2>3
<1>3. ASSUME NEW a \in parts(c)
      PROVE  \/ a \in StepPart /\ a \in c /\ a[2] \in First..(timestep - 1)
             \/ a \in HorizonPart /\ a[4] = oldest_timestep /\ <<a[1], BEFORE_HORIZON, a[3]>> \in c
  <2>1. PICK b \in c : /\ b[1] # STATE_VAR
                       /\ a = IF b[2] = BEFORE_HORIZON
                              THEN <<b[1], b[2], b[3], oldest_timestep>> ELSE b
    BY DEF parts
  <2>2. CASE b[2] = BEFORE_HORIZON
    <3>1. a = <<b[1], b[2], b[3], oldest_timestep>>
      BY <2>1, <2>2
    <3>2. a[4] = oldest_timestep /\ a[1] = b[1] /\ a[3] = b[3]
      BY <3>1
    <3> QED
      BY <1>2, <2>1, <2>2, <3>1, <3>2
  <2>3. CASE b[2] # BEFORE_HORIZON
    BY <1>2, <2>1, <2>3
  <2> QED
    BY <2>2, <2>3
<1>4. ASSUME NEW a \in c, a[1] # STATE_VAR
      PROVE  IF a[2] = BEFORE_HORIZON
             THEN <<a[1], BEFORE_HORIZON, a[3], oldest_timestep>> \in parts(c)
             ELSE a \in parts(c)
  <2>1. (IF a[2] = BEFORE_HORIZON THEN <<a[1], a[2], a[3], oldest_timestep>> ELSE a) \in parts(c)
    BY <1>4 DEF parts
  <2>2. CASE a[2] = BEFORE_HORIZON
    BY <2>1, <2>2
  <2>3. CASE a[2] # BEFORE_HORIZON
    BY <2>1, <2>3
  <2> QED
    BY <2>2, <2>3
<1> QED
  BY <1>3, <1>4

(* The parts of trajectories that lie before step h. *)
PastParts(h) == {a \in StepPart : a[2] < h} \cup {a \in HorizonPart : a[4] < h}

(* A trajectory is of the time before the horizon. *)
TrajectoriesPast ==
  \A i \in DOMAIN state : /\ state[i].trajectory \subseteq PastParts(oldest_timestep)
                          /\ IsFiniteSet(state[i].trajectory)

LEMMA PartKinds ==
  /\ StepPart \cap HorizonPart = {}
  /\ \A a \in StepPart : Len(a) = 3
  /\ \A a \in HorizonPart : Len(a) = 4
<1>1. \A a \in StepPart : Len(a) = 3
  BY PartFacts
<1>2. \A a \in HorizonPart : Len(a) = 4
  BY PartFacts
<1>3. ASSUME NEW a \in StepPart, a \in HorizonPart PROVE FALSE
  BY <1>1, <1>2, <1>3
<1> QED
  BY <1>1, <1>2, <1>3

LEMMA FailuresByKind ==
  ASSUME NEW H \in SUBSET Part, NEW x, NEW t
  PROVE  /\ horizonFailures(H, x, t) = {a \in H : a \in HorizonPart /\ a[1] = x /\ a[4] = t}
         /\ stepFailures(H, x, t) = {a \in H : a \in StepPart /\ a[1] = x /\ a[2] = t}
<1>1. ASSUME NEW a \in H
      PROVE  (Len(a) = 4 <=> a \in HorizonPart) /\ (Len(a) = 3 <=> a \in StepPart)
  <2>1. CASE a \in StepPart
    <3>1. a \notin HorizonPart /\ Len(a) = 3
      BY <2>1, PartKinds
    <3> QED
      BY <2>1, <3>1
  <2>2. CASE a \in HorizonPart
    <3>1. a \notin StepPart /\ Len(a) = 4
      BY <2>2, PartKinds
    <3> QED
      BY <2>2, <3>1
  <2> QED
    BY <2>1, <2>2 DEF Part
<1> QED
  BY <1>1 DEF horizonFailures, stepFailures

LEMMA HistoryFacts ==
  ASSUME TInv, TrajectoriesPast, NEW c \in Proper, NEW x \in Component
  PROVE  LET H == history(c)
             T == state[stateOf(c)].trajectory
         IN  /\ H \in SUBSET Part /\ T \in SUBSET Part /\ T \cap parts(c) = {}
             /\ horizonFailures(H, x, oldest_timestep) =
                  IF transition(c, x, BEFORE_HORIZON) = 0 THEN {}
                  ELSE {<<x, BEFORE_HORIZON, transition(c, x, BEFORE_HORIZON), oldest_timestep>>}
             /\ \A u \in Nat : u > oldest_timestep => horizonFailures(H, x, u) = {}
             /\ \A u \in Nat : u < oldest_timestep =>
                  horizonFailures(H, x, u) = horizonFailures(T, x, u)
             /\ \A u \in Nat : u >= oldest_timestep => horizonFailures(T, x, u) = {}
             /\ \A u \in First..(timestep - 1) :
                  stepFailures(H, x, u) = IF transition(c, x, u) = 0 THEN {}
                                          ELSE {<<x, u, transition(c, x, u)>>}
             /\ \A u \in Nat : u < First => stepFailures(H, x, u) = stepFailures(T, x, u)
<1> DEFINE H == history(c)
           T == state[stateOf(c)].trajectory
           P == parts(c)
<1>1. /\ oldest_timestep \in Nat /\ First \in Nat /\ timestep \in Nat
      /\ oldest_timestep <= First /\ timestep < BEFORE_HORIZON
  BY TimeFacts DEF TInv
<1>2. T \subseteq PastParts(oldest_timestep)
  BY StateOfFacts DEF TrajectoriesPast
<1>3. H = T \cup P
  BY DEF history
<1>4. /\ P \subseteq Part
      /\ \A a \in P : a \in StepPart => a \in c /\ a[2] \in First..(timestep - 1)
      /\ \A a \in P : a \in HorizonPart =>
           a[4] = oldest_timestep /\ <<a[1], BEFORE_HORIZON, a[3]>> \in c
  BY PartsFacts, PartKinds DEF Part
<1> HIDE DEF H, T, P
<1>5. /\ T \subseteq Part
      /\ \A a \in T : a \in StepPart => a[2] \in Nat /\ a[2] < oldest_timestep
      /\ \A a \in T : a \in HorizonPart => a[4] \in Nat /\ a[4] < oldest_timestep
  BY <1>2, PartFacts, PartKinds DEF PastParts, Part
<1>6. H \in SUBSET Part /\ T \in SUBSET Part /\ T \cap P = {}
  <2>1. H \in SUBSET Part /\ T \in SUBSET Part
    BY <1>3, <1>4, <1>5
  <2>2. ASSUME NEW a \in T, a \in P
        PROVE  FALSE
    <3>1. CASE a \in StepPart
      <4>1. a[2] \in First..(timestep - 1)
        BY <1>4, <2>2, <3>1
      <4>2. a[2] \in Nat /\ a[2] < oldest_timestep
        BY <1>5, <3>1
      <4> QED
        BY <1>1, <4>1, <4>2
    <3>2. CASE a \in HorizonPart
      <4>1. a[4] = oldest_timestep
        BY <1>4, <2>2, <3>2
      <4>2. a[4] \in Nat /\ a[4] < oldest_timestep
        BY <1>5, <3>2
      <4> QED
        BY <1>1, <4>1, <4>2
    <3> QED
      BY <1>5, <3>1, <3>2 DEF Part
  <2> QED
    BY <2>1, <2>2
<1>H. \A t : /\ horizonFailures(H, x, t) = {a \in H : a \in HorizonPart /\ a[1] = x /\ a[4] = t}
             /\ horizonFailures(T, x, t) = {a \in T : a \in HorizonPart /\ a[1] = x /\ a[4] = t}
  BY <1>6, FailuresByKind, SMTT(30)
<1>S. \A t : /\ stepFailures(H, x, t) = {a \in H : a \in StepPart /\ a[1] = x /\ a[2] = t}
             /\ stepFailures(T, x, t) = {a \in T : a \in StepPart /\ a[1] = x /\ a[2] = t}
  BY <1>6, FailuresByKind
<1>7. horizonFailures(H, x, oldest_timestep) =
        IF transition(c, x, BEFORE_HORIZON) = 0 THEN {}
        ELSE {<<x, BEFORE_HORIZON, transition(c, x, BEFORE_HORIZON), oldest_timestep>>}
  <2> DEFINE v == transition(c, x, BEFORE_HORIZON)
             e == <<x, BEFORE_HORIZON, v, oldest_timestep>>
  <2>1. ASSUME NEW a \in horizonFailures(H, x, oldest_timestep)
        PROVE  v # 0 /\ a = e
    <3>1. a \in H /\ a \in HorizonPart /\ a[1] = x /\ a[4] = oldest_timestep
      BY <1>H
    <3>2. a \in P
      <4>1. ~(a[4] < oldest_timestep)
        BY <1>1, <3>1
      <4> QED
        BY <1>3, <1>5, <3>1, <4>1
    <3>3. <<x, BEFORE_HORIZON, a[3]>> \in c /\ a = <<x, BEFORE_HORIZON, a[3], oldest_timestep>>
      <4>1. <<a[1], BEFORE_HORIZON, a[3]>> \in c
        BY <1>4, <3>1, <3>2
      <4>2. a = <<a[1], BEFORE_HORIZON, a[3], a[4]>>
        BY <3>1, PartFacts
      <4> QED
        BY <3>1, <4>1, <4>2
    <3> DEFINE b == <<x, BEFORE_HORIZON, a[3]>>
    <3>4. b \in c /\ b[1] = x /\ b[2] = BEFORE_HORIZON /\ b[3] = a[3]
      BY <3>3
    <3> HIDE DEF b
    <3>5. v # 0 /\ b = <<x, BEFORE_HORIZON, v>>
      BY <3>4, TransitionOf
    <3>6. b[3] = v
      BY <3>5
    <3> QED
      BY <3>3, <3>4, <3>5, <3>6
  <2>2. ASSUME v # 0
        PROVE  e \in horizonFailures(H, x, oldest_timestep)
    <3> DEFINE b == <<x, BEFORE_HORIZON, v>>
    <3>1. b \in c /\ b[1] = x /\ b[2] = BEFORE_HORIZON /\ b[3] = v /\ x # STATE_VAR
          /\ v \in DOMAIN failure[x]
      BY <2>2, TransitionFacts, ModelAssumption
    <3> HIDE DEF b, v
    <3>2. e \in P
      BY <3>1, PartsFacts DEF P
    <3>3. e[1] = x /\ e[4] = oldest_timestep
      OBVIOUS
    <3>4. e \in HorizonPart
      BY <1>1, <3>1, HorizonPartShape
    <3> QED
      BY <1>3, <1>H, <3>2, <3>3, <3>4
  <2> HIDE DEF v, e
  <2> QED
    BY <2>1, <2>2 DEF v, e
<1>8. ASSUME NEW u \in Nat, u > oldest_timestep
      PROVE  horizonFailures(H, x, u) = {}
  <2>1. ASSUME NEW a \in H, a \in HorizonPart, a[4] = u PROVE FALSE
    <3>1. CASE a \in T
      <4>1. a[4] < oldest_timestep
        BY <1>5, <2>1, <3>1
      <4> QED
        BY <1>1, <1>8, <2>1, <4>1
    <3>2. CASE a \in P
      <4>1. a[4] = oldest_timestep
        BY <1>4, <2>1, <3>2
      <4> QED
        BY <1>1, <1>8, <2>1, <4>1
    <3> QED
      BY <1>3, <3>1, <3>2
  <2> QED
    BY <1>H, <2>1
<1>9. ASSUME NEW u \in Nat, u < oldest_timestep
      PROVE  horizonFailures(H, x, u) = horizonFailures(T, x, u)
  <2>1. ASSUME NEW a \in P, a \in HorizonPart PROVE a[4] # u
    <3>1. a[4] = oldest_timestep
      BY <1>4, <2>1
    <3> QED
      BY <1>1, <1>9, <3>1
  <2>2. {a \in H : a \in HorizonPart /\ a[1] = x /\ a[4] = u}
          = {a \in T : a \in HorizonPart /\ a[1] = x /\ a[4] = u}
    BY <1>3, <2>1
  <2> QED
    BY <1>H, <2>2
<1>10. ASSUME NEW u \in Nat, u >= oldest_timestep
       PROVE  horizonFailures(T, x, u) = {}
  <2>1. ASSUME NEW a \in T, a \in HorizonPart PROVE a[4] # u
    <3>1. a[4] < oldest_timestep
      BY <1>5, <2>1
    <3> QED
      BY <1>1, <1>10, <3>1
  <2> QED
    BY <1>H, <2>1
<1>11. ASSUME NEW u \in First..(timestep - 1)
       PROVE  stepFailures(H, x, u) = IF transition(c, x, u) = 0 THEN {}
                                      ELSE {<<x, u, transition(c, x, u)>>}
  <2> DEFINE v == transition(c, x, u)
             e == <<x, u, v>>
  <2>1. ASSUME NEW a \in stepFailures(H, x, u)
        PROVE  v # 0 /\ a = e
    <3>1. a \in H /\ a \in StepPart /\ a[1] = x /\ a[2] = u
      BY <1>S
    <3>2. a \in P
      <4>1. ~(a[2] < oldest_timestep)
        BY <1>1, <3>1
      <4> QED
        BY <1>3, <1>5, <3>1, <4>1
    <3>3. a \in c
      BY <1>4, <3>1, <3>2
    <3> QED
      BY <3>1, <3>3, TransitionOf
  <2>2. ASSUME v # 0
        PROVE  e \in stepFailures(H, x, u)
    <3>1. e \in c /\ e[1] = x /\ e[2] = u /\ x # STATE_VAR /\ v \in DOMAIN failure[x]
      BY <2>2, TransitionFacts, ModelAssumption
    <3>2. u # BEFORE_HORIZON /\ u \in Nat
      BY <1>1
    <3>4. e \in StepPart
      <4> HIDE DEF v
      <4> QED
        BY <3>1, <3>2, StepPartShape
    <3> HIDE DEF e, v
    <3>3. e \in P
      BY <3>1, <3>2, PartsFacts DEF P
    <3> QED
      BY <1>3, <1>S, <3>1, <3>3, <3>4
  <2> HIDE DEF v, e
  <2> QED
    BY <2>1, <2>2 DEF v, e
<1>12. ASSUME NEW u \in Nat, u < First
       PROVE  stepFailures(H, x, u) = stepFailures(T, x, u)
  <2>1. ASSUME NEW a \in P, a \in StepPart PROVE a[2] # u
    <3>1. a[2] \in First..(timestep - 1)
      BY <1>4, <2>1
    <3> QED
      BY <1>1, <1>12, <3>1
  <2>2. \A a : (a \in H /\ a \in StepPart /\ a[2] = u) <=> (a \in T /\ a \in StepPart /\ a[2] = u)
    BY <1>3, <2>1
  <2> QED
    BY <1>S, <2>2
<1> QED
  BY <1>6, <1>7, <1>8, <1>9, <1>10, <1>11, <1>12 DEF H, T, P

-----------------------------------------------------------------------------
(* What an explained candidate stands for *)

(* A value of the state variable that a candidate was summarized as has the modes
   to which its trajectory leads. *)
StateModes ==
  \A i \in DOMAIN state : state[i].explained =>
    \A x \in Component : state[i].mode[x] = replay(state[i].trajectory, x)[First]

(* It is known in which mode the run of a component starts. *)
LEMMA OneFirstMode ==
  ASSUME TInv, TrajectoriesPast, StateModes, NEW c \in Proper, isExplained(c),
         NEW x \in Component
  PROVE  firstModes(c, x) = {replay(history(c), x)[First]}
<1> DEFINE H == history(c)
           T == state[stateOf(c)].trajectory
           v == transition(c, x, BEFORE_HORIZON)
           e == <<x, BEFORE_HORIZON, v, oldest_timestep>>
           f == replay(H, x)
           g == replay(T, x)
<1>1. /\ oldest_timestep \in Nat /\ First \in 1..timestep /\ timestep \in Nat
      /\ First = IF oldest_timestep = 0 THEN 1 ELSE oldest_timestep
  BY TimeFacts DEF TInv, First
<1>2. stateOf(c) \in DOMAIN state /\ state[stateOf(c)].explained
  BY StateOfFacts DEF isExplained
<1>3. /\ H \in SUBSET Part /\ T \in SUBSET Part
      /\ horizonFailures(H, x, oldest_timestep) = IF v = 0 THEN {} ELSE {e}
      /\ \A u \in Nat : u > oldest_timestep => horizonFailures(H, x, u) = {}
      /\ \A u \in Nat : u < oldest_timestep =>
           horizonFailures(H, x, u) = horizonFailures(T, x, u)
      /\ \A u \in Nat : u >= oldest_timestep => horizonFailures(T, x, u) = {}
      /\ \A u \in Nat : u < First => stepFailures(H, x, u) = stepFailures(T, x, u)
  BY HistoryFacts
<1>4. e[3] = v /\ (CHOOSE a \in {e} : TRUE) = e
  OBVIOUS
<1> HIDE DEF H, T, v, e
<1>5. IsReplay(f, timestep, command, H, x) /\ IsReplay(g, timestep, command, T, x)
  BY <1>3, ReplayFacts
<1>6. state[stateOf(c)].mode[x] = g[First]
  BY <1>2 DEF StateModes, T
<1> HIDE DEF f, g
<1>7. g[First] \in Mode
  BY <1>1, <1>5 DEF IsReplay
<1>8. state[stateOf(c)].mode[x] # NONE /\ horizonHasClauses(x)
  BY <1>2, <1>6, <1>7, ModelAssumption DEF horizonHasClauses
<1>9. CASE v # 0
  <2>1. firstModes(c, x) = {failure[x][v]}
    BY <1>8, <1>9 DEF firstModes, v
  <2>2. f[First] = ModeAfter(H, x, command, First, f[First - 1])
    BY <1>1, <1>5 DEF IsReplay
  <2>3. target(horizonFailures(H, x, oldest_timestep), x) = failure[x][v]
    BY <1>3, <1>4, <1>9 DEF target
  <2>4. horizonFailures(H, x, oldest_timestep) # {}
    BY <1>3, <1>9
  <2>5. CASE oldest_timestep = 0
    <3>1. First = 1 /\ horizonFailures(H, x, 1) = {}
      BY <1>1, <1>3, <2>5
    <3> QED
      BY <2>1, <2>2, <2>3, <2>4, <2>5, <3>1 DEF ModeAfter, f, H
  <2>6. CASE oldest_timestep # 0
    <3>1. First = oldest_timestep
      BY <1>1, <2>6
    <3> QED
      BY <2>1, <2>2, <2>3, <2>4, <3>1 DEF ModeAfter, f, H
  <2> QED
    BY <2>5, <2>6
<1>10. CASE v = 0
  <2>1. firstModes(c, x) = {g[First]}
    BY <1>6, <1>8, <1>10 DEF firstModes, v
  <2>2. \A u \in 0..First : horizonFailures(H, x, u) = horizonFailures(T, x, u)
    <3> TAKE u \in 0..First
    <3>1. CASE u < oldest_timestep
      BY <1>1, <1>3, <3>1
    <3>2. CASE u = oldest_timestep
      BY <1>1, <1>3, <1>10, <3>2
    <3>3. CASE u > oldest_timestep
      BY <1>1, <1>3, <3>3
    <3> QED
      BY <1>1, <3>1, <3>2, <3>3
  <2>3. \A u \in 1..(First - 1) : stepFailures(H, x, u) = stepFailures(T, x, u)
    BY <1>1, <1>3
  <2>4. \A t \in 1..First : f[t] = g[t]
    <3>1. First \in Nat /\ First <= timestep
      BY <1>1
    <3> QED
      BY <1>1, <1>5, <2>2, <2>3, <3>1, ReplaysAgree
  <2>5. First \in 1..First
    BY <1>1
  <2> QED
    BY <2>1, <2>4, <2>5 DEF f, H
<1> QED
  BY <1>9, <1>10

(* From there on its modes follow from its failures. *)
LEMMA RunIsReplay ==
  ASSUME TInv, TrajectoriesPast, StateModes, NEW c \in Proper, isExplained(c),
         NEW x \in Component
  PROVE  /\ \A r \in runs(c, x) : \A t \in Steps : r[t] = replay(history(c), x)[t]
         /\ runs(c, x) \subseteq {course(c, x, First, replay(history(c), x)[First])}
<1> DEFINE H == history(c)
           f == replay(H, x)
           r == course(c, x, First, f[First])
<1>1. /\ oldest_timestep \in Nat /\ First \in 1..timestep /\ timestep \in Nat
      /\ oldest_timestep <= First
  BY TimeFacts DEF TInv
<1>2. runs(c, x) \subseteq {r}
  BY OneFirstMode DEF runs
<1>3. /\ H \in SUBSET Part
      /\ \A u \in Nat : u > oldest_timestep => horizonFailures(H, x, u) = {}
      /\ \A u \in First..(timestep - 1) :
           stepFailures(H, x, u) = IF transition(c, x, u) = 0 THEN {}
                                   ELSE {<<x, u, transition(c, x, u)>>}
  BY HistoryFacts
<1> HIDE DEF H
<1>4. IsReplay(f, timestep, command, H, x)
  BY <1>3, ReplayFacts
<1> HIDE DEF f
<1>5. f[First] \in Mode
  BY <1>1, <1>4 DEF IsReplay
<1>6. \A t \in First..timestep :
        r[t] = IF t = First THEN f[First]
               ELSE IF transition(c, x, t - 1) # 0
                    THEN failure[x][transition(c, x, t - 1)]
                    ELSE nextMode(x, command[t - 1], r[t - 1])
  BY <1>1, <1>5, CourseFacts
<1> HIDE DEF r
<1> DEFINE P == {n \in Nat : First + n <= timestep => r[First + n] = f[First + n]}
<1>7. 0 \in P
  BY <1>1, <1>6
<1>8. ASSUME NEW n \in Nat, n \in P
      PROVE  n + 1 \in P
  <2> SUFFICES ASSUME First + (n + 1) <= timestep
               PROVE  r[First + (n + 1)] = f[First + (n + 1)]
    OBVIOUS
  <2> DEFINE t == First + (n + 1)
             u == First + n
             v == transition(c, x, u)
  <2>1. /\ t \in 1..timestep /\ t \in First..timestep /\ t # First /\ t # 1 /\ t - 1 = u
        /\ t > oldest_timestep /\ t \in Nat
        /\ u \in First..(timestep - 1)
    BY <1>1
  <2>2. r[u] = f[u]
    BY <1>8, <1>1
  <2> HIDE DEF t, u
  <2>3. r[t] = IF v # 0 THEN failure[x][v] ELSE nextMode(x, command[u], r[u])
    BY <1>6, <2>1
  <2>4. f[t] = ModeAfter(H, x, command, t, f[u])
    BY <1>4, <2>1 DEF IsReplay
  <2>5. horizonFailures(H, x, t) = {}
    BY <1>3, <2>1
  <2>6. stepFailures(H, x, u) = IF v = 0 THEN {} ELSE {<<x, u, v>>}
    BY <1>3, <2>1
  <2>7. v # 0 => target(stepFailures(H, x, u), x) = failure[x][v]
    <3> DEFINE e == <<x, u, v>>
    <3>1. e[3] = v /\ (CHOOSE a \in {e} : TRUE) = e
      OBVIOUS
    <3> HIDE DEF e, v
    <3> QED
      BY <2>6, <3>1 DEF target, e
  <2> HIDE DEF v
  <2>8. f[t] = IF v # 0 THEN failure[x][v] ELSE nextMode(x, command[u], f[u])
    BY <2>1, <2>4, <2>5, <2>6, <2>7 DEF ModeAfter
  <2>9. r[t] = f[t]
    BY <2>2, <2>3, <2>8
  <2> QED
    BY <2>9 DEF t
<1> HIDE DEF P
<1>9. Nat \subseteq P
  BY <1>7, <1>8, Induction
<1>10. \A t \in Steps : r[t] = f[t]
  <2> TAKE t \in Steps
  <2>1. t - First \in Nat /\ First + (t - First) = t /\ t <= timestep
    BY <1>1 DEF Steps
  <2>2. t - First \in P
    BY <1>9, <2>1
  <2> QED
    BY <2>1, <2>2 DEF P
<1> QED
  BY <1>2, <1>10 DEF f, H, r

-----------------------------------------------------------------------------
(* What a history weighs *)

partCost == [a \in Part |-> cost[a[1]][a[3]]]

LEMMA PartCosts ==
  \A a \in Part : partCost[a] = cost[a[1]][a[3]] /\ partCost[a] \in Nat
<1> TAKE a \in Part
<1>1. a[1] \in Component /\ a[3] \in DOMAIN failure[a[1]]
  BY PartFacts DEF Part
<1>2. cost[a[1]][a[3]] \in Nat
  BY <1>1, FaultFacts
<1> QED
  BY <1>2 DEF partCost

LEMMA CostIsSum ==
  ASSUME NEW H \in SUBSET Part, IsFiniteSet(H)
  PROVE  MapThenSumSet(LAMBDA a : cost[a[1]][a[3]], H) = Sum(partCost, H)
<1> DEFINE body(h) == [s \in SUBSET H |->
                         IF s = {} THEN 0
                         ELSE cost[(CHOOSE a \in s : TRUE)[1]][(CHOOSE a \in s : TRUE)[3]]
                              + h[s \ {CHOOSE a \in s : TRUE}]]
           iter == CHOOSE iter : iter = body(iter)
<1>1. ASSUME NEW h
      PROVE  h = body(h) <=> Accumulates(h, partCost, H)
  <2> DEFINE other == [s \in SUBSET H |->
                        IF s = {} THEN 0
                        ELSE partCost[CHOOSE a \in s : TRUE] + h[s \ {CHOOSE a \in s : TRUE}]]
  <2>1. ASSUME NEW s \in SUBSET H, s # {}
        PROVE  partCost[CHOOSE a \in s : TRUE]
                 = cost[(CHOOSE a \in s : TRUE)[1]][(CHOOSE a \in s : TRUE)[3]]
    <3> DEFINE x == CHOOSE a \in s : TRUE
    <3>1. x \in Part
      BY <2>1
    <3> HIDE DEF x
    <3>2. partCost[x] = cost[x[1]][x[3]]
      BY <3>1, PartCosts
    <3> QED
      BY <3>2 DEF x
  <2>2. other = body(h)
    BY <2>1
  <2> QED
    BY <2>2 DEF Accumulates
<1>2. \A a \in H : partCost[a] \in Nat
  BY PartCosts
<1>3. MapThenSumSet(LAMBDA a : cost[a[1]][a[3]], H) = iter[H]
  BY Zenon DEF MapThenSumSet, MapThenFoldSet
<1> HIDE DEF body
<1>4. \E h : h = body(h)
  BY <1>1, <1>2, SumAccumulates
<1>5. Accumulates(iter, partCost, H)
  BY <1>1, <1>4
<1> HIDE DEF iter
<1>6. iter[H] = Sum(partCost, H)
  BY <1>2, <1>5, SumAccumulates
<1> QED
  BY <1>3, <1>6

(* The parts that a candidate adds to its trajectory cost what its failures do. *)
LEMMA PartsWeigh ==
  ASSUME TInv, NEW c \in Proper
  PROVE  LET F == {a \in c : a[1] # STATE_VAR} IN
         /\ IsFiniteSet(parts(c))
         /\ Sum([a \in c |-> assignmentWeight(a)], F) = Sum(partCost, parts(c))
<1> DEFINE F == {a \in c : a[1] # STATE_VAR}
           w == [a \in c |-> assignmentWeight(a)]
           part(a) == IF a[2] = BEFORE_HORIZON THEN <<a[1], a[2], a[3], oldest_timestep>> ELSE a
           f == [a \in F |-> part(a)]
<1>1. IsFiniteSet(F)
  BY FS_Subset DEF Proper
<1>2. parts(c) = {f[a] : a \in F}
  BY DEF parts
<1>3. ASSUME NEW a \in F
      PROVE  /\ f[a] \in Part /\ f[a][1] = a[1] /\ f[a][3] = a[3] /\ f[a][2] = a[2]
             /\ w[a] = cost[a[1]][a[3]] /\ a = <<a[1], a[2], a[3]>>
  <2>1. /\ a \in c /\ a[1] # STATE_VAR /\ a[1] \in Component /\ a[3] \in DOMAIN failure[a[1]]
        /\ a = <<a[1], a[2], a[3]>>
    BY ProperFacts
  <2>2. w[a] = cost[a[1]][a[3]]
    BY <2>1 DEF assignmentWeight
  <2>3. f[a] = part(a)
    OBVIOUS
  <2>4. CASE a[2] = BEFORE_HORIZON
    <3> DEFINE e == <<a[1], BEFORE_HORIZON, a[3], oldest_timestep>>
    <3>1. oldest_timestep \in Nat
      BY TimeFacts DEF TInv
    <3>2. e \in HorizonPart
      BY <2>1, <3>1, HorizonPartShape
    <3>3. f[a] = e
      BY <2>3, <2>4
    <3>4. e[1] = a[1] /\ e[3] = a[3] /\ e[2] = BEFORE_HORIZON
      OBVIOUS
    <3> HIDE DEF f, w, e
    <3> QED
      BY <2>1, <2>2, <2>4, <3>2, <3>3, <3>4 DEF Part
  <2>5. CASE a[2] # BEFORE_HORIZON
    <3>1. a[2] \in Nat
      <4>1. a[2] \in TransitionTimes
        BY <2>1, ProperFacts
      <4> QED
        BY <2>5, <4>1, TimeFacts DEF TransitionTimes, TInv
    <3>2. a \in StepPart
      BY <2>1, <3>1, StepPartShape
    <3>3. f[a] = a
      BY <2>3, <2>5
    <3> HIDE DEF f, w
    <3> QED
      BY <2>1, <2>2, <3>2, <3>3 DEF Part
  <2> QED
    BY <2>4, <2>5
<1>4. ASSUME NEW a \in F, NEW b \in F, f[a] = f[b]
      PROVE  a = b
  <2>1. a[1] = b[1] /\ a[2] = b[2]
    <3> HIDE DEF f
    <3> QED
      BY <1>3, <1>4
  <2> QED
    BY <2>1 DEF Proper
<1>5. \A a \in F : w[a] \in Nat /\ w[a] = partCost[f[a]]
  <2> HIDE DEF f, w, F
  <2>1. \A a \in F : f[a] \in Part /\ partCost[f[a]] = cost[a[1]][a[3]]
    BY <1>3, PartCosts
  <2> QED
    BY <1>3, <2>1, PartCosts
<1> HIDE DEF F, w, f
<1>6. Sum(w, F) = Sum(partCost, {f[a] : a \in F})
  BY <1>1, <1>4, <1>5, SumsMatch
<1>7. IsFiniteSet({f[a] : a \in F})
  <2> DEFINE g == [a \in F |-> f[a]]
  <2>1. g \in Surjection(F, {f[a] : a \in F})
    BY DEF Surjection
  <2> QED
    BY <1>1, <2>1, FS_Surjection
<1> QED
  BY <1>2, <1>6, <1>7 DEF F, w

(* A value of the state variable that a candidate was summarized as weighs what its
   trajectory does. *)
StateWeights ==
  \A i \in DOMAIN state : state[i].explained =>
    state[i].weight = Sum(partCost, state[i].trajectory)

LEMMA WeightOfHistory ==
  ASSUME TInv, TrajectoriesPast, StateWeights, NEW c \in Proper, isExplained(c)
  PROVE  /\ get_weight(c) = Sum(partCost, history(c))
         /\ IsFiniteSet(history(c)) /\ history(c) \in SUBSET Part
<1> DEFINE F == {a \in c : a[1] # STATE_VAR}
           S == {a \in c : a[1] = STATE_VAR}
           w == [a \in c |-> assignmentWeight(a)]
           T == state[stateOf(c)].trajectory
           e == <<STATE_VAR, oldest_timestep, stateOf(c)>>
<1>1. /\ stateOf(c) \in DOMAIN state /\ state[stateOf(c)].explained
      /\ IsFiniteSet(T) /\ history(c) = T \cup parts(c)
  BY StateOfFacts DEF TrajectoriesPast, isExplained, history
<1>2. IsFiniteSet(c) /\ IsFiniteSet(F) /\ IsFiniteSet(S)
  BY FS_Subset DEF Proper
<1>3. \A a \in c : assignmentWeight(a) \in Nat
  BY AssignmentWeights DEF TInv, Proper
<1>4. get_weight(c) = Sum(w, c)
  BY <1>2, <1>3, WeightIsSum
<1>5. Sum(w, c) = Sum(w, S) + Sum(w, F)
  <2>1. S \cap F = {} /\ S \cup F = c /\ \A a \in S \cup F : w[a] \in Nat
    BY <1>3
  <2> HIDE DEF S, F, w
  <2>2. Sum(w, S \cup F) = Sum(w, S) + Sum(w, F)
    BY <1>2, <2>1, SumOfUnion
  <2> QED
    BY <2>1, <2>2
<1>6. Sum(w, F) = Sum(partCost, parts(c)) /\ IsFiniteSet(parts(c))
  BY PartsWeigh
<1>7. state[stateOf(c)].weight = Sum(partCost, T)
  BY <1>1 DEF StateWeights
<1>8. state[stateOf(c)].weight \in Nat
  BY <1>1 DEF TInv, TypeOK
<1>9. Sum(w, S) = state[stateOf(c)].weight
  <2>1. S \subseteq {e}
    BY StateOfFacts
  <2>2. \A a \in S : w[a] \in Nat
    BY <1>3
  <2>3. CASE S = {}
    <3>1. c \cap StateAssignment = {} /\ \A a \in c : a[1] # STATE_VAR
      <4>1. \A a \in StateAssignment : a[1] = STATE_VAR
        BY StateShape
      <4> QED
        BY <2>3, <4>1
    <3>2. stateOf(c) = 1 /\ state[1].weight = 0
      BY <3>1, StateOfFacts DEF isExplained
    <3>3. Sum(w, {}) = 0
      <4> HIDE DEF w, S
      <4> QED
        BY <1>2, <2>2, SumFacts
    <3> QED
      BY <2>3, <3>2, <3>3
  <2>4. CASE S # {}
    <3>1. S = {e} /\ e \in c
      BY <2>1, <2>4
    <3>2. w[e] = state[stateOf(c)].weight
      BY <3>1 DEF assignmentWeight
    <3> HIDE DEF w, S, e
    <3>3. S \in SUBSET S /\ S \ {e} = {} /\ e \in S
      BY <3>1
    <3>4. Sum(w, S) = w[e] + Sum(w, S \ {e}) /\ Sum(w, {}) = 0
      BY <1>2, <2>2, <3>3, SumFacts
    <3>5. Sum(w, S \ {e}) = 0
      BY <3>3, <3>4
    <3>6. w[e] + 0 = w[e]
      BY <1>8, <3>2
    <3> QED
      BY <3>2, <3>4, <3>5, <3>6
  <2> QED
    BY <2>3, <2>4
<1>10. T \cap parts(c) = {} /\ T \in SUBSET Part /\ history(c) \in SUBSET Part
  <2>1. Component # {} \/ parts(c) = {}
    BY ProperFacts DEF parts
  <2>2. PastParts(oldest_timestep) \subseteq Part
    BY DEF PastParts, Part
  <2>3. T \in SUBSET Part
    BY <1>1, <2>2 DEF TrajectoriesPast
  <2>4. CASE \E x \in Component : TRUE
    BY <2>4, HistoryFacts
  <2>5. CASE parts(c) = {}
    BY <1>1, <2>3, <2>5
  <2> QED
    BY <2>1, <2>4, <2>5
<1> HIDE DEF T, S, F, w
<1>11. Sum(partCost, T \cup parts(c)) = Sum(partCost, T) + Sum(partCost, parts(c))
  <2>1. \A a \in T \cup parts(c) : partCost[a] \in Nat
    BY <1>1, <1>10, PartCosts
  <2> QED
    BY <1>1, <1>6, <1>10, <2>1, SumOfUnion
<1>12. IsFiniteSet(history(c))
  BY <1>1, <1>6, FS_Union
<1> QED
  BY <1>1, <1>4, <1>5, <1>6, <1>7, <1>9, <1>10, <1>11, <1>12

-----------------------------------------------------------------------------
(* What truncate makes of a candidate *)

(* put_candidate_in_trajectory: the part of a candidate that truncate takes away
   comes from the same state and has the same failures until the new horizon. *)
LEMMA OldPart ==
  ASSUME TInv, NEW c \in Proper, NEW h \in Nat, oldest_timestep < h, h <= timestep
  PROVE  LET old == {a \in c : isTruncated(a, h)} IN
         /\ old \in Proper
         /\ stateOf(old) = stateOf(c) /\ (isExplained(c) => isExplained(old))
         /\ \A x \in Component : \A u : u < h \/ u = BEFORE_HORIZON =>
              transition(old, x, u) = transition(c, x, u)
         /\ TrajectoriesPast =>
              history(old) \subseteq PastParts(h) /\ IsFiniteSet(history(old))
<1> DEFINE old == {a \in c : isTruncated(a, h)}
<1>1. /\ oldest_timestep \in Nat /\ First \in Nat /\ timestep \in Nat
      /\ oldest_timestep <= First
  BY TimeFacts DEF TInv
<1>2. old \in Proper
  BY FS_Subset DEF Proper
<1>3. \A a \in c : a[1] = STATE_VAR => a \in old /\ a \in StateAssignment
  <2>1. STATE_VAR \notin Component
    BY ModelAssumption
  <2>2. \A a \in c : a[1] = STATE_VAR => a[2] = oldest_timestep /\ a \in StateAssignment
    BY <2>1, ProperFacts
  <2> QED
    BY <1>1, <2>2 DEF isTruncated
<1>4. stateOf(old) = stateOf(c)
  <2>1. CASE \E a \in c : a[1] = STATE_VAR
    <3>1. PICK a \in c : a[1] = STATE_VAR
      BY <2>1
    <3>2. a \in old
      BY <1>3, <3>1
    <3>3. a = <<STATE_VAR, oldest_timestep, stateOf(c)>>
      BY <3>1, StateOfFacts
    <3> HIDE DEF old
    <3>4. a = <<STATE_VAR, oldest_timestep, stateOf(old)>>
      BY <1>2, <3>1, <3>2, StateOfFacts
    <3> QED
      BY <3>3, <3>4
  <2>2. CASE ~\E a \in c : a[1] = STATE_VAR
    <3>1. ~\E a \in old : a[1] = STATE_VAR
      BY <2>2
    <3> HIDE DEF old
    <3> QED
      BY <2>2, <3>1 DEF stateOf
  <2> QED
    BY <2>1, <2>2
<1>5. isExplained(c) => isExplained(old)
  <2>1. \A a \in StateAssignment : a[1] = STATE_VAR
    BY StateShape
  <2>2. c \cap StateAssignment # {} => old \cap StateAssignment # {}
    BY <1>3, <2>1
  <2> HIDE DEF old
  <2> QED
    BY <1>4, <2>2 DEF isExplained
<1>6. ASSUME NEW x \in Component, NEW u, u < h \/ u = BEFORE_HORIZON
      PROVE  transition(old, x, u) = transition(c, x, u)
  <2>1. CASE \E a \in c : a[1] = x /\ a[2] = u
    <3>1. PICK a \in c : a[1] = x /\ a[2] = u
      BY <2>1
    <3>2. a \in old
      BY <1>6, <3>1 DEF isTruncated
    <3>3. a = <<x, u, transition(c, x, u)>>
      BY <3>1, TransitionOf
    <3> HIDE DEF old
    <3>4. a = <<x, u, transition(old, x, u)>>
      BY <1>2, <3>1, <3>2, TransitionOf
    <3> QED
      BY <3>3, <3>4
  <2>2. CASE ~\E a \in c : a[1] = x /\ a[2] = u
    <3>1. ~\E a \in old : a[1] = x /\ a[2] = u
      BY <2>2
    <3> HIDE DEF old
    <3> QED
      BY <2>2, <3>1 DEF transition
  <2> QED
    BY <2>1, <2>2
<1>7. ASSUME TrajectoriesPast
      PROVE  history(old) \subseteq PastParts(h) /\ IsFiniteSet(history(old))
  <2> DEFINE T == state[stateOf(old)].trajectory
             P == parts(old)
  <2>1. \A a \in old : a[2] < h \/ a[2] = BEFORE_HORIZON
    BY DEF isTruncated
  <2> HIDE DEF old
  <2>2. T \subseteq PastParts(oldest_timestep) /\ IsFiniteSet(T)
    BY <1>2, <1>7, StateOfFacts DEF TrajectoriesPast
  <2>3. history(old) = T \cup P
    BY DEF history
  <2>4. \A a \in P :
          \/ a \in StepPart /\ a \in old /\ a[2] \in First..(timestep - 1)
          \/ a \in HorizonPart /\ a[4] = oldest_timestep
    BY <1>2, PartsFacts
  <2>5. IsFiniteSet(P)
    BY <1>2, PartsWeigh
  <2> HIDE DEF T, P
  <2>6. ASSUME NEW a \in P PROVE a \in PastParts(h)
    <3>1. CASE a \in StepPart /\ a \in old /\ a[2] \in First..(timestep - 1)
      <4>1. a[2] # BEFORE_HORIZON
        BY <3>1, TimeFacts DEF TInv
      <4>2. a[2] < h
        BY <2>1, <3>1, <4>1
      <4> QED
        BY <3>1, <4>2 DEF PastParts
    <3>2. CASE a \in HorizonPart /\ a[4] = oldest_timestep
      BY <3>2 DEF PastParts
    <3> QED
      BY <2>4, <3>1, <3>2
  <2>7. ASSUME NEW a \in T PROVE a \in PastParts(h)
    <3>1. CASE a \in StepPart /\ a[2] < oldest_timestep
      <4>1. a[2] \in Nat
        BY <3>1, PartFacts
      <4>2. a[2] < h
        BY <1>1, <3>1, <4>1
      <4> QED
        BY <3>1, <4>2 DEF PastParts
    <3>2. CASE a \in HorizonPart /\ a[4] < oldest_timestep
      <4>1. a[4] \in Nat
        BY <3>2, PartFacts
      <4>2. a[4] < h
        BY <1>1, <3>2, <4>1
      <4> QED
        BY <3>2, <4>2 DEF PastParts
    <3> QED
      BY <2>2, <3>1, <3>2 DEF PastParts
  <2>8. IsFiniteSet(T \cup P)
    BY <2>2, <2>5, FS_Union
  <2> QED
    BY <2>3, <2>6, <2>7, <2>8
<1> QED
  BY <1>2, <1>4, <1>5, <1>6, <1>7

(* Its history has the failures of the candidate until the new horizon. *)
LEMMA OldHistory ==
  ASSUME TInv, TrajectoriesPast, NEW c \in Proper,
         NEW h \in Nat, oldest_timestep < h, h <= timestep, NEW x \in Component
  PROVE  LET K == history({a \in c : isTruncated(a, h)})
             H == history(c)
         IN  /\ \A u \in 0..h : horizonFailures(K, x, u) = horizonFailures(H, x, u)
             /\ \A u \in 1..(h - 1) : stepFailures(K, x, u) = stepFailures(H, x, u)
<1> DEFINE old == {a \in c : isTruncated(a, h)}
           K == history(old)
           H == history(c)
           T == state[stateOf(c)].trajectory
<1>1. /\ oldest_timestep \in Nat /\ First \in Nat /\ timestep \in Nat
      /\ oldest_timestep <= First
  BY TimeFacts DEF TInv
<1>2. /\ old \in Proper /\ stateOf(old) = stateOf(c)
      /\ transition(old, x, BEFORE_HORIZON) = transition(c, x, BEFORE_HORIZON)
      /\ \A u : u < h => transition(old, x, u) = transition(c, x, u)
  BY OldPart
<1> HIDE DEF old
<1>3. T = state[stateOf(old)].trajectory
  BY <1>2
<1> HIDE DEF T
<1>4. ASSUME NEW u \in 0..h
      PROVE  horizonFailures(K, x, u) = horizonFailures(H, x, u)
  <2>1. CASE u < oldest_timestep
    <3>1. horizonFailures(H, x, u) = horizonFailures(T, x, u)
      BY <1>4, <2>1, HistoryFacts DEF T
    <3>2. horizonFailures(K, x, u) = horizonFailures(T, x, u)
      BY <1>2, <1>3, <1>4, <2>1, HistoryFacts
    <3> QED
      BY <3>1, <3>2
  <2>2. CASE u = oldest_timestep
    <3>1. horizonFailures(H, x, oldest_timestep) =
            IF transition(c, x, BEFORE_HORIZON) = 0 THEN {}
            ELSE {<<x, BEFORE_HORIZON, transition(c, x, BEFORE_HORIZON), oldest_timestep>>}
      BY HistoryFacts
    <3>2. horizonFailures(K, x, oldest_timestep) =
            IF transition(old, x, BEFORE_HORIZON) = 0 THEN {}
            ELSE {<<x, BEFORE_HORIZON, transition(old, x, BEFORE_HORIZON), oldest_timestep>>}
      BY <1>2, HistoryFacts
    <3> QED
      BY <1>2, <2>2, <3>1, <3>2
  <2>3. CASE u > oldest_timestep
    <3>1. horizonFailures(H, x, u) = {}
      BY <1>4, <2>3, HistoryFacts
    <3>2. horizonFailures(K, x, u) = {}
      BY <1>2, <1>4, <2>3, HistoryFacts
    <3> QED
      BY <3>1, <3>2
  <2> QED
    BY <1>1, <1>4, <2>1, <2>2, <2>3
<1>5. ASSUME NEW u \in 1..(h - 1)
      PROVE  stepFailures(K, x, u) = stepFailures(H, x, u)
  <2>1. CASE u < First
    <3>1. stepFailures(H, x, u) = stepFailures(T, x, u)
      BY <1>5, <2>1, HistoryFacts DEF T
    <3>2. stepFailures(K, x, u) = stepFailures(T, x, u)
      BY <1>2, <1>3, <1>5, <2>1, HistoryFacts
    <3> QED
      BY <3>1, <3>2
  <2>2. CASE ~(u < First)
    <3>1. u \in First..(timestep - 1) /\ u < h
      BY <1>1, <1>5, <2>2
    <3>2. stepFailures(H, x, u) = IF transition(c, x, u) = 0 THEN {}
                                  ELSE {<<x, u, transition(c, x, u)>>}
      BY <3>1, HistoryFacts
    <3>3. stepFailures(K, x, u) = IF transition(old, x, u) = 0 THEN {}
                                  ELSE {<<x, u, transition(old, x, u)>>}
      BY <1>2, <3>1, HistoryFacts
    <3> QED
      BY <1>2, <3>1, <3>2, <3>3
  <2> QED
    BY <2>1, <2>2
<1> QED
  BY <1>4, <1>5 DEF old

(* summarize_variables: of an explained candidate it is known in which mode each
   component is at the new horizon. *)
LEMMA SummaryFacts ==
  ASSUME TInv, TrajectoriesPast, StateModes, StateWeights,
         NEW c \in Proper, IsConsistent(c), isExplained(c),
         NEW h \in Nat, oldest_timestep < h, h <= timestep,
         NEW modes \in summaries(c, h)
  PROVE  LET s == summarized(c, h, modes) IN
         /\ s.weight = Sum(partCost, s.trajectory)
         /\ \A x \in Component : \A k, f :
              /\ \A u \in 1..(timestep - 1) : k[u] = command[u]
              /\ IsReplay(f, timestep + 1, k, s.trajectory, x)
              => s.mode[x] = f[h]
<1> DEFINE old == {a \in c : isTruncated(a, h)}
           s == summarized(c, h, modes)
<1>1. /\ s.weight = get_weight(old) /\ s.trajectory = history(old) /\ s.mode = modes
  BY DEF summarized, history
<1>2. old \in Proper /\ isExplained(old)
  BY OldPart
<1> HIDE DEF s
<1>3. s.weight = Sum(partCost, s.trajectory)
  <2> HIDE DEF old
  <2> QED
    BY <1>1, <1>2, WeightOfHistory
<1>4. ASSUME NEW x \in Component, NEW k, NEW f,
             \A u \in 1..(timestep - 1) : k[u] = command[u],
             IsReplay(f, timestep + 1, k, s.trajectory, x)
      PROVE  s.mode[x] = f[h]
  <2> DEFINE H == history(c)
             K == history(old)
             g == replay(H, x)
             r == course(c, x, First, g[First])
  <2>1. /\ oldest_timestep \in Nat /\ First \in Nat /\ timestep \in Nat
        /\ oldest_timestep <= First /\ h \in Steps /\ h \in 1..h
    BY TimeFacts DEF TInv, Steps, First
  <2>2. runs(c, x) = {r} /\ r[h] = g[h]
    <3>1. runs(c, x) # {}
      BY DEF IsConsistent
    <3>2. runs(c, x) \subseteq {r} /\ \A q \in runs(c, x) : q[h] = g[h]
      BY <2>1, RunIsReplay
    <3> HIDE DEF r, g
    <3> QED
      BY <3>1, <3>2
  <2>3. discovered(c, x, h) = {g[h]}
    <3> HIDE DEF r, g
    <3>1. {q[h] : q \in runs(c, x)} = {g[h]}
      BY <2>2
    <3>2. Cardinality({g[h]}) = 1 /\ Cardinality(runs(c, x)) = 1
      BY <2>2, FS_Singleton
    <3> QED
      BY <3>1, <3>2 DEF discovered
  <2>4. s.mode[x] = g[h]
    BY <1>1, <2>3 DEF summaries
  <2>5. IsReplay(g, timestep, command, H, x)
    BY HistoryFacts, ReplayFacts
  <2>6. /\ \A u \in 0..h : horizonFailures(K, x, u) = horizonFailures(H, x, u)
        /\ \A u \in 1..(h - 1) : stepFailures(K, x, u) = stepFailures(H, x, u)
    BY OldHistory
  <2>7. s.trajectory = K
    BY <1>1
  <2> HIDE DEF H, K, g, old
  <2>8. \A u \in 1..(h - 1) : stepFailures(K, x, u) = stepFailures(H, x, u) /\ k[u] = command[u]
    <3>1. \A u \in 1..(h - 1) : u \in 1..(timestep - 1)
      BY <2>1
    <3> QED
      BY <1>4, <2>6, <3>1
  <2>9. \A t \in 1..h : f[t] = g[t]
    <3>1. timestep + 1 \in Nat /\ h <= timestep + 1
      BY <2>1
    <3> QED
      BY <1>4, <2>1, <2>5, <2>6, <2>7, <2>8, <3>1, ReplaysAgree
  <2> QED
    BY <2>1, <2>4, <2>9
<1> QED
  BY <1>3, <1>4 DEF s

-----------------------------------------------------------------------------
(* The inductive invariant of the history *)

HInv == TInv /\ TrajectoriesPast /\ StateModes /\ StateWeights

(* Every value of the new state variable is a consistent candidate summarized, or
   one that explains nothing. *)
LEMMA SummaryOrigins ==
  ASSUME TInv, NEW h \in Nat, truncate(h)
  PROVE  \A i \in DOMAIN state' :
           \/ \E c \in Proper : /\ IsConsistent(c)
                                /\ \E modes \in summaries(c, h) :
                                     state'[i] = summarized(c, h, modes)
           \/ state'[i].trajectory = {} /\ ~state'[i].explained
<1>1. CASE candidates = <<>>
  <2>1. PICK modes : state' = [i \in DOMAIN state |-> [unsummarized EXCEPT !.mode = modes]]
    BY <1>1 DEF truncate, truncateWithoutCandidates
  <2> QED
    BY <2>1 DEF unsummarized
<1>2. CASE candidates # <<>>
  <2> DEFINE n == Len(candidates)
             limit == IF max_truncated_candidates # 0 /\ n > max_truncated_candidates
                      THEN max_truncated_candidates ELSE n
  <2>1. n \in Nat /\ DOMAIN candidates = 1..n /\ limit \in Nat
    BY LimitAssumption DEF TInv, CandidatesProper
  <2>2. PICK summary :
          /\ \A j \in 1..n : IsConsistent(candidates[j]) =>
               summary[j] \in summaries(candidates[j], h)
          /\ LET kept == keptCandidates(h, limit, summary) IN
             state' = [i \in 1..limit |->
                         IF i <= Len(kept)
                         THEN summarized(candidates[kept[i]], h, summary[kept[i]])
                         ELSE unsummarized]
    BY <1>2 DEF truncate, truncateWithCandidates
  <2> DEFINE kept == keptCandidates(h, limit, summary)
  <2>3. kept \in Seq(Consistent) /\ Len(kept) <= limit
    BY <2>1, KeptFacts DEF TInv
  <2>4. state' = [i \in 1..limit |->
                    IF i <= Len(kept)
                    THEN summarized(candidates[kept[i]], h, summary[kept[i]])
                    ELSE unsummarized]
    BY <2>2
  <2> HIDE DEF limit, kept
  <2>5. DOMAIN state' = 1..limit
    BY <2>4
  <2>6. ASSUME NEW i \in 1..limit, i <= Len(kept)
        PROVE  \E c \in Proper : /\ IsConsistent(c)
                                 /\ \E modes \in summaries(c, h) :
                                      state'[i] = summarized(c, h, modes)
    <3> DEFINE j == kept[i]
    <3>1. i \in 1..Len(kept)
      BY <2>1, <2>3, <2>6
    <3>2. j \in Consistent
      BY <2>3, <3>1
    <3>3. state'[i] = summarized(candidates[j], h, summary[j])
      BY <2>4, <2>6
    <3> HIDE DEF j
    <3>4. j \in 1..n /\ IsConsistent(candidates[j])
      BY <2>1, <3>2 DEF Consistent
    <3>5. candidates[j] \in Proper
      BY <3>4 DEF TInv, CandidatesProper
    <3>6. summary[j] \in summaries(candidates[j], h)
      BY <2>2, <3>4
    <3> QED
      BY <3>3, <3>4, <3>5, <3>6
  <2>7. ASSUME NEW i \in 1..limit, ~(i <= Len(kept))
        PROVE  state'[i].trajectory = {} /\ ~state'[i].explained
    BY <2>4, <2>7 DEF unsummarized
  <2> QED
    BY <2>5, <2>6, <2>7
<1> QED
  BY <1>1, <1>2

Replays ==
  \A H \in SUBSET Part, x \in Component :
    IsReplay(replay(H, x), timestep, command, H, x)

LEMMA ReplaysHold == TInv => Replays
BY ReplayFacts DEF Replays

LEMMA ReplaysHoldNext == TInv' => Replays'
BY ReplaysHold, PTL

LEMMA HistoryTruncateStep ==
  ASSUME HInv, TInv', NEW h \in Nat, oldest_timestep < h, h <= timestep,
         timestep' = timestep + 1, command' = Append(command, pending), truncate(h)
  PROVE  TrajectoriesPast' /\ StateModes' /\ StateWeights'
<1>1. TInv /\ TrajectoriesPast /\ StateModes /\ StateWeights
  BY DEF HInv
<1>2. oldest_timestep' = h /\ First' = h
  <2>1. h # 0
    BY <1>1, TimeFacts DEF TInv
  <2> QED
    BY <2>1 DEF truncate, First
<1>3. \A u \in 1..(timestep - 1) : command'[u] = command[u]
  BY <1>1 DEF TInv, TypeOK
<1>4. ASSUME NEW i \in DOMAIN state'
      PROVE  /\ state'[i].trajectory \subseteq PastParts(h) /\ IsFiniteSet(state'[i].trajectory)
             /\ state'[i].explained =>
                  /\ state'[i].weight = Sum(partCost, state'[i].trajectory)
                  /\ \A x \in Component : \A f :
                       IsReplay(f, timestep + 1, command', state'[i].trajectory, x) =>
                         state'[i].mode[x] = f[h]
  <2>1. CASE state'[i].trajectory = {} /\ ~state'[i].explained
    BY <2>1, FS_EmptySet
  <2>2. CASE \E c \in Proper : /\ IsConsistent(c)
                               /\ \E modes \in summaries(c, h) :
                                    state'[i] = summarized(c, h, modes)
    <3>1. PICK c \in Proper : /\ IsConsistent(c)
                              /\ \E modes \in summaries(c, h) :
                                   state'[i] = summarized(c, h, modes)
      BY <2>2
    <3>2. PICK modes \in summaries(c, h) : state'[i] = summarized(c, h, modes)
      BY <3>1
    <3>3. /\ state'[i].trajectory = history({a \in c : isTruncated(a, h)})
          /\ state'[i].explained = isExplained(c)
      BY <3>2 DEF summarized, history
    <3>4. state'[i].trajectory \subseteq PastParts(h) /\ IsFiniteSet(state'[i].trajectory)
      BY <1>1, <3>3, OldPart
    <3>5. ASSUME isExplained(c)
          PROVE  /\ state'[i].weight = Sum(partCost, state'[i].trajectory)
                 /\ \A x \in Component : \A f :
                      IsReplay(f, timestep + 1, command', state'[i].trajectory, x) =>
                        state'[i].mode[x] = f[h]
      <4> DEFINE s == summarized(c, h, modes)
      <4>1. /\ s.weight = Sum(partCost, s.trajectory)
            /\ \A x \in Component : \A k, f :
                 /\ \A u \in 1..(timestep - 1) : k[u] = command[u]
                 /\ IsReplay(f, timestep + 1, k, s.trajectory, x)
                 => s.mode[x] = f[h]
        BY <1>1, <3>1, <3>5, SummaryFacts
      <4> HIDE DEF s
      <4>2. state'[i] = s
        BY <3>2 DEF s
      <4>3. ASSUME NEW x \in Component, NEW f, IsReplay(f, timestep + 1, command', s.trajectory, x)
            PROVE  s.mode[x] = f[h]
        BY <1>3, <4>1, <4>3, ZenonT(60)
      <4> QED
        BY <4>1, <4>2, <4>3
    <3> QED
      BY <3>3, <3>4, <3>5
  <2> QED
    BY <1>1, <2>1, <2>2, SummaryOrigins
<1>5. TrajectoriesPast'
  BY <1>2, <1>4 DEF TrajectoriesPast, PastParts
<1>6. StateWeights'
  BY <1>4 DEF StateWeights
<1>7. StateModes'
  <2> SUFFICES ASSUME NEW i \in DOMAIN state', state'[i].explained, NEW x \in Component
               PROVE  state'[i].mode[x] = replay(state[i].trajectory, x)'[h]
    BY <1>2 DEF StateModes
  <2>1. state'[i].trajectory \in SUBSET Part
    BY <1>4 DEF PastParts, Part
  <2>2. Replays'
    BY ReplaysHoldNext
  <2>3. IsReplay(replay(state[i].trajectory, x)', timestep', command', state'[i].trajectory, x)
    BY <2>1, <2>2 DEF Replays
  <2> QED
    BY <1>4, <2>3
<1> QED
  BY <1>5, <1>6, <1>7

(* Without truncation the modes at the horizon follow from the same commands. *)
LEMMA HistoryKeptStep ==
  ASSUME HInv, TInv', timestep' \in {timestep, timestep + 1},
         \A u \in 1..(timestep - 1) : command'[u] = command[u],
         UNCHANGED <<state, oldest_timestep>>
  PROVE  TrajectoriesPast' /\ StateModes' /\ StateWeights'
<1>1. TInv /\ TrajectoriesPast /\ StateModes /\ StateWeights
  BY DEF HInv
<1>2. First' = First /\ First \in 1..timestep /\ timestep \in Nat
  BY <1>1, TimeFacts DEF First, TInv
<1>3. PICK n, k : n = timestep' /\ k = command'
  OBVIOUS
<1>4. TrajectoriesPast' /\ StateWeights'
  BY <1>1 DEF TrajectoriesPast, StateWeights, PastParts
<1>5. StateModes'
  <2> SUFFICES ASSUME NEW i \in DOMAIN state, state[i].explained, NEW x \in Component
               PROVE  state[i].mode[x] = replay(state[i].trajectory, x)'[First]
    BY <1>2 DEF StateModes
  <2> DEFINE T == state[i].trajectory
             f == replay(T, x)
  <2>1. T \in SUBSET Part
    BY <1>1 DEF TrajectoriesPast, PastParts, Part
  <2>2. state[i].mode[x] = f[First]
    BY <1>1 DEF StateModes
  <2>3. IsReplay(f, timestep, command, T, x)
    BY <1>1, <2>1, ReplayFacts
  <2>4. Replays' /\ state' = state
    BY ReplaysHoldNext
  <2>5. PICK g : g = replay(state[i].trajectory, x)'
    OBVIOUS
  <2>6. IsReplay(g, n, k, T, x)
    <3>1. IsReplay(replay(state[i].trajectory, x)', timestep', command', state'[i].trajectory, x)
      BY <2>1, <2>4 DEF Replays
    <3> QED
      BY <1>3, <2>4, <2>5, <3>1
  <2> HIDE DEF T, f
  <2>7. /\ First \in Nat /\ First <= timestep /\ n \in Nat /\ First <= n /\ First \in 1..First
        /\ \A u \in 1..(First - 1) : u \in 1..(timestep - 1)
    BY <1>2, <1>3
  <2>8. /\ \A u \in 0..First : horizonFailures(T, x, u) = horizonFailures(T, x, u)
        /\ \A u \in 1..(First - 1) : /\ stepFailures(T, x, u) = stepFailures(T, x, u)
                                      /\ command[u] = k[u]
    BY <1>3, <2>7
  <2>9. \A t \in 1..First : f[t] = g[t]
    BY <1>2, <2>3, <2>6, <2>7, <2>8, ReplaysAgree
  <2> QED
    BY <2>2, <2>5, <2>7, <2>9
<1> QED
  BY <1>4, <1>5

LEMMA HInvInit ==
  ASSUME Init
  PROVE  HInv
<1>1. TInv
  BY TInvInit
<1>2. /\ timestep = 1 /\ oldest_timestep = 0 /\ First = 1
      /\ DOMAIN state = 1..1
      /\ state[1] = [mode |-> initial, weight |-> 0, trajectory |-> {}, explained |-> TRUE]
  BY DEF Init, First
<1>3. \A i \in DOMAIN state : i = 1 /\ state[i].trajectory = {} /\ state[i].weight = 0
                              /\ state[i].mode = initial
  BY <1>2
<1>4. TrajectoriesPast
  BY <1>3, FS_EmptySet DEF TrajectoriesPast
<1>5. StateWeights
  <2>1. Sum(partCost, {}) = 0
    BY FS_EmptySet, SumFacts
  <2> QED
    BY <1>3, <2>1 DEF StateWeights
<1>6. StateModes
  <2> SUFFICES ASSUME NEW x \in Component
               PROVE  initial[x] = replay({}, x)[1]
    BY <1>2, <1>3 DEF StateModes
  <2> DEFINE f == replay({}, x)
  <2>1. {} \in SUBSET Part
    OBVIOUS
  <2>2. IsReplay(f, timestep, command, {}, x)
    BY <1>1, <2>1, ReplayFacts
  <2> HIDE DEF f
  <2>3. 1 \in 1..timestep
    BY <1>2
  <2>4. f[1] = ModeAfter({}, x, command, 1, f[1 - 1])
    BY <2>2, <2>3 DEF IsReplay
  <2>5. f[1] = initial[x]
    BY <2>4 DEF ModeAfter, horizonFailures
  <2> QED
    BY <2>5 DEF f
<1> QED
  BY <1>1, <1>4, <1>5, <1>6 DEF HInv

LEMMA HInvStep ==
  ASSUME HInv, [Next]_vars
  PROVE  HInv'
<1>1. TInv /\ TInv'
  BY TInvStep DEF HInv
<1>2. CASE progress
  <2>1. timestep' = timestep + 1 /\ command' = Append(command, pending)
    BY <1>2 DEF progress
  <2>2. CASE history_full /\ get_horizon > oldest_timestep
    <3>1. truncate(get_horizon)
      BY <1>2, <2>2 DEF progress
    <3>2. get_horizon \in Nat /\ oldest_timestep < get_horizon /\ get_horizon <= timestep
      BY <1>1, <2>2, HorizonFacts DEF TInv
    <3>3. TrajectoriesPast' /\ StateModes' /\ StateWeights'
      BY <1>1, <2>1, <3>1, <3>2, HistoryTruncateStep
    <3> QED
      BY <1>1, <3>3 DEF HInv
  <2>3. CASE ~(history_full /\ get_horizon > oldest_timestep)
    <3>1. UNCHANGED <<state, oldest_timestep>>
      BY <1>2, <2>3 DEF progress
    <3>2. \A u \in 1..(timestep - 1) : command'[u] = command[u]
      BY <1>1, <2>1 DEF TInv, TypeOK
    <3>3. TrajectoriesPast' /\ StateModes' /\ StateWeights'
      BY <1>1, <2>1, <3>1, <3>2, HistoryKeptStep
    <3> QED
      BY <1>1, <3>3 DEF HInv
  <2> QED
    BY <2>2, <2>3
<1>3. CASE UNCHANGED <<timestep, oldest_timestep, command, state>>
  <2>1. TrajectoriesPast' /\ StateModes' /\ StateWeights'
    BY <1>1, <1>3, HistoryKeptStep
  <2> QED
    BY <1>1, <2>1 DEF HInv
<1>4. CASE Next /\ ~progress
  <2>1. UNCHANGED <<timestep, oldest_timestep, command, state>>
    <3>1. pruneAndSearch => UNCHANGED <<timestep, oldest_timestep, command, state>>
      BY DEF pruneAndSearch, searchLeaves, timeVars
    <3> QED
      BY <1>4, <3>1 DEF Next, extend_candidates, find_fresh_candidates, search, searchLeaves,
         prune_and_search, command_or_idle, parse_msg_COMMAND, observe, timeVars
  <2> QED
    BY <1>3, <2>1
<1>5. CASE UNCHANGED vars
  BY <1>3, <1>5 DEF vars, timeVars
<1> QED
  BY <1>2, <1>4, <1>5

LEMMA HInvAlways == Spec => []HInv
BY HInvInit, HInvStep, PTL DEF Spec

(* T_system::truncate: a candidate has, at every step that is left, the modes to
   which its failures lead from the initial state on, although the clauses of the
   older steps are gone and the state variable stands for them. *)
THEOREM ModesSurviveTruncation == Spec => []TruncationKeepsModes
<1>1. HInv => TruncationKeepsModes
  <2> SUFFICES ASSUME HInv PROVE TruncationKeepsModes
    OBVIOUS
  <2>1. TInv /\ TrajectoriesPast /\ StateModes
    BY DEF HInv
  <2>2. \A i \in DOMAIN candidates : candidates[i] \in Proper
    BY <2>1 DEF TInv, CandidatesProper
  <2> QED
    BY <2>1, <2>2, RunIsReplay DEF TruncationKeepsModes
<1> QED
  BY <1>1, HInvAlways, PTL

(* Candidate::truncate: a candidate weighs what all its failures weigh, those that
   its value of the state variable stands for included. *)
THEOREM WeightSurvivesTruncation == Spec => []TruncationKeepsWeight
<1>1. HInv => TruncationKeepsWeight
  <2> SUFFICES ASSUME HInv PROVE TruncationKeepsWeight
    OBVIOUS
  <2> SUFFICES ASSUME NEW i \in DOMAIN candidates, isExplained(candidates[i])
               PROVE  get_weight(candidates[i]) =
                        MapThenSumSet(LAMBDA a : cost[a[1]][a[3]], history(candidates[i]))
    BY Zenon DEF TruncationKeepsWeight
  <2> DEFINE c == candidates[i]
  <2>1. TInv /\ TrajectoriesPast /\ StateWeights /\ c \in Proper
    BY DEF HInv, TInv, CandidatesProper
  <2>2. isExplained(c)
    OBVIOUS
  <2> HIDE DEF c
  <2>3. /\ get_weight(c) = Sum(partCost, history(c))
        /\ IsFiniteSet(history(c)) /\ history(c) \in SUBSET Part
    BY <2>1, <2>2, WeightOfHistory
  <2>4. MapThenSumSet(LAMBDA a : cost[a[1]][a[3]], history(c)) = Sum(partCost, history(c))
    BY <2>3, CostIsSum
  <2> QED
    BY <2>3, <2>4 DEF c
<1> QED
  BY <1>1, HInvAlways, PTL

=============================================================================
