-------------------------------- MODULE CBFS --------------------------------
(***************************************************************************)
(* The conflict-directed best-first search of Livingstone2                 *)
(* (mba/cpp/src/opsat) and the candidates it leaves with the tracker, over *)
(* the database of conflicts.                                              *)
(*                                                                         *)
(* The search takes one step per iteration of the loop of                  *)
(* next_consistent_candidate.  The binary heap of the agenda is a bag from *)
(* which a lightest element is popped; the list of remaining assignments,  *)
(* which the code sorts by weight, is a set from which a lightest one is   *)
(* taken.  Ties are unconstrained choices.                                 *)
(*                                                                         *)
(* An operator named X_Y is the mutated form Y of the definition X, for    *)
(* the mutation runs; no specification uses it.                            *)
(***************************************************************************)
EXTENDS ConflictDB, Sequences, SequencesExt, Bags

CONSTANTS
  StateVariable,       \* the one that stands for the time before the horizon
  Part,                \* Trajectory::Parts, the truncated past assignments
  trajectory,          \* T_system::state_var_trajectories
  fault,               \* the variable id and value index of an assignment or part
  Settings,            \* the constraints and limits to start from
  ReviseObservations   \* may the client change or withdraw an observation?

(* The limits that CBFS_tracker and Opsat_CBFS are constructed with; 0 is no
   limit, but for number_tracked. *)
Limit == [number_tracked : Nat, maxClassCount : Nat, cutoff_weight : Nat,
          max_candidates : Nat]

ASSUME TrajectoryAssumption ==
  /\ StateVariable \in Assumption
  /\ Part \cap Assignment = {}
  /\ trajectory \in [{a \in Assignment : variable[a] = StateVariable} -> SUBSET Part]
  /\ DOMAIN fault = Assignment \cup Part

(* Assumption::Assumption asserts that the weights increase; assumption.h adds that
   costs are positive, which only the default's is not.  But any value of the state
   variable, its default too, weighs what the past weighs that it stands for
   (Candidate::truncate). *)
ASSUME FaultWeightAssumption ==
  \A a \in Assignment :
    a # default[variable[a]] /\ variable[a] # StateVariable => weight[a] > 0

ASSUME SettingAssumption ==
  /\ ReviseObservations \in BOOLEAN
  /\ \A s \in Settings : s.theory \subseteq Constraint /\ s.limits \in Limit

VARIABLES
  limits,                 \* of CBFS_tracker and Opsat_CBFS
  candidates,             \* Conflict_db::candidates
  candidatePartition,     \* Tracker::candidatePartition
  agenda,                 \* Opsat_CBFS::agenda
  candidates_considered,  \* Opsat_CBFS::candidates_considered
  hasTracker,             \* T_system::getTracker() != NULL
  it,                     \* the iterator of prune_inconsistent_candidates
  seeds,                  \* history: the candidates the search began with
  pc                      \* the call in progress, "client" when there is none

theoryVars == <<theory, limits, observed>>
trackerVars == <<candidates, candidatePartition, hasTracker>>
searchVars == <<agenda, candidates_considered, seeds>>
vars == <<theoryVars, trackerVars, searchVars, conflicts, it, pc>>

-----------------------------------------------------------------------------
(* Candidates *)

(* Two candidates may name different values of the state variable; then the
   pasts those values stand for are compared. *)
StateAssignments(c) == {a \in c : variable[a] = StateVariable}

supersetWithState(super, sub) ==
  \A a \in sub :
    \/ a \in super
    \/ /\ variable[a] = StateVariable
       /\ \E b \in StateAssignments(super) : trajectory[a] \subseteq trajectory[b]

superset_candidate_Never(c, found) == FALSE

superset_candidate(c, found) ==
  \E i \in DOMAIN found : supersetWithState(c, found[i])

(* The assignments of a candidate with its state assignment expanded into the
   past it stands for. *)
createTriples(c) ==
  (c \ StateAssignments(c)) \cup UNION {trajectory[a] : a \in StateAssignments(c)}

isEquivalent(c1, c2) ==
  /\ Cardinality(createTriples(c1)) = Cardinality(createTriples(c2))
  /\ \A t1 \in createTriples(c1) : \E t2 \in createTriples(c2) : fault[t1] = fault[t2]

belongs(c, class) == \A i \in DOMAIN class : isEquivalent(c, class[i])

(* Tracker::equivalenceClassIndex, counted from 1. *)
equivalenceClassIndex(c, classes) ==
  LET home == {i \in DOMAIN classes : belongs(c, classes[i])}
  IN  IF home = {} THEN Len(classes) + 1 ELSE Min(home)

addToPartition(classes, c) ==
  LET i == equivalenceClassIndex(c, classes)
  IN  IF i <= Len(classes) THEN [classes EXCEPT ![i] = Append(@, c)]
                           ELSE Append(classes, <<c>>)

-----------------------------------------------------------------------------
(* The agenda *)

(* A CBFSElement stands for the candidate of its prefix with its current
   assignment, and in time for those with the remaining ones. *)
Element == [prefix : SUBSET Assignment,
            current : Assignment \cup {NULL},
            remaining : SUBSET Assignment]

seed(c) == [prefix |-> c, current |-> NULL, remaining |-> {}]

generate_candidate(e) ==
  IF e.current = NULL THEN e.prefix ELSE e.prefix \cup {e.current}

compute_element_weight(e) ==
  get_weight(e.prefix) + (IF e.current = NULL THEN 0 ELSE weight[e.current])

is_assignment_useful_AnyValue(a, c) == a # default[variable[a]] /\ a \notin c

is_assignment_useful(a, c) ==
  /\ a # default[variable[a]]
  /\ variable[a] \notin Variables(c)
  /\ a \notin c

UsefulAssignments(prefix, list) == {a \in list : is_assignment_useful(a, prefix)}

Lightest(list) == {a \in list : \A b \in list : weight[a] <= weight[b]}

(* The element for the first useful assignment of a sorted list, if there is
   one: pop_useless_assignments, then the constructor or shift_assignment. *)
NextElements(prefix, list) ==
  {[prefix |-> prefix, current |-> a, remaining |-> list \ {a}] :
     a \in Lightest(UsefulAssignments(prefix, list))}

Child(e, k) == NextElements(generate_candidate(e), resolving_assignments(k))

Sibling_Lost(e) == {}

Sibling(e) == NextElements(e.prefix, e.remaining)

(* One element of S as a bag, none when S is empty. *)
Insertions(S) == IF S = {} THEN {EmptyBag} ELSE {SetToBag({x}) : x \in S}

terminate_search ==
  IF agenda = EmptyBag THEN "EMPTY_AGENDA"
  ELSE IF limits.max_candidates # 0 /\ candidates_considered > limits.max_candidates
  THEN "MAX_OVERRUN"
  ELSE IF limits.cutoff_weight # 0
          /\ \A e \in BagToSet(agenda) : compute_element_weight(e) > limits.cutoff_weight
  THEN "WEIGHT_CUTOFF"
  ELSE "SEARCH_CONTINUE"

Best_Any == BagToSet(agenda)

(* pop_candidate: the lightest elements. *)
Best ==
  {e \in BagToSet(agenda) : \A f \in BagToSet(agenda) :
     compute_element_weight(e) <= compute_element_weight(f)}

(* Why find_consistent_candidates leaves its loop before the agenda does. *)
EnoughFound ==
  \/ Len(candidates) >= limits.number_tracked
  \/ limits.maxClassCount > 0 /\ Len(candidatePartition) >= limits.maxClassCount

-----------------------------------------------------------------------------
(* The search: find_consistent_candidates and next_consistent_candidate *)

(* expand_element after a conflict: look for ways to resolve it on top of e,
   and go on with the other assignments of e. *)
next_inconsistent(e) ==
  /\ \E k \in conflict(generate_candidate(e)) :
       /\ conflicts' = conflicts \cup {k}
       /\ \E child \in Insertions(Child(e, k)), sibling \in Insertions(Sibling(e)) :
            agenda' = ((agenda (-) SetToBag({e})) (+) child) (+) sibling
  /\ UNCHANGED <<candidates, candidatePartition>>

(* A consistent candidate is tracked unless it contains one that is.  Its
   supersets are not looked for. *)
next_consistent_candidate(e) ==
  LET c == generate_candidate(e) IN
  /\ IsConsistent(c)
  /\ \E sibling \in Insertions(Sibling(e)) :
       agenda' = (agenda (-) SetToBag({e})) (+) sibling
  /\ IF superset_candidate(c, candidates)
     THEN UNCHANGED <<candidates, candidatePartition>>
     ELSE /\ candidates' = Append(candidates, c)
          /\ candidatePartition' = IF hasTracker
                                   THEN addToPartition(candidatePartition, c)
                                   ELSE candidatePartition
  /\ UNCHANGED conflicts

find_consistent_candidates ==
  /\ pc = "search"
  /\ ~EnoughFound
  /\ terminate_search = "SEARCH_CONTINUE"
  /\ \E e \in Best : next_inconsistent(e) \/ next_consistent_candidate(e)
  /\ candidates_considered' = candidates_considered + 1
  /\ UNCHANGED <<theoryVars, hasTracker, seeds, it, pc>>

SearchEnds == pc = "search" /\ (EnoughFound \/ terminate_search # "SEARCH_CONTINUE")

(* The search returns; the first one is the tracker's constructor's. *)
find_consistent_candidates_return ==
  /\ SearchEnds
  /\ pc' = "client"
  /\ hasTracker' = TRUE
  /\ UNCHANGED <<theoryVars, searchVars, candidates, candidatePartition, conflicts, it>>

StartSearch_KeepPartition(from) ==
  /\ seeds' = from
  /\ agenda' = SetToBag({seed(c) : c \in from})
  /\ candidates_considered' = 0
  /\ candidates' = <<>>
  /\ pc' = "search"
  /\ UNCHANGED candidatePartition

(* CBFS_tracker::extend_candidates on the given list of candidates.
   initialize_agenda starts from the empty candidate when it is empty. *)
StartSearch(from) ==
  LET start == IF from = {} THEN {{}} ELSE from IN
  /\ seeds' = start
  /\ agenda' = SetToBag({seed(c) : c \in start})
  /\ candidates_considered' = 0
  /\ candidates' = <<>>
  /\ candidatePartition' = <<>>
  /\ pc' = "search"

extend_candidates ==
  /\ pc = "client"
  /\ StartSearch(ToSet(candidates))
  /\ UNCHANGED <<theoryVars, hasTracker, conflicts, it>>

FreshSeeds == {{a} : a \in {a \in Assignment : variable[a] = StateVariable}}

find_fresh_candidates ==
  /\ pc = "client"
  /\ StartSearch(FreshSeeds)
  /\ UNCHANGED <<theoryVars, hasTracker, conflicts, it>>

(* Tracker::prune_and_search, up to the loop of
   T_system::prune_inconsistent_candidates. *)
prune_and_search ==
  /\ pc = "client"
  /\ candidatePartition' = <<>>
  /\ it' = 1
  /\ pc' = "prune"
  /\ UNCHANGED <<theoryVars, searchVars, candidates, hasTracker, conflicts>>

prune_inconsistent_candidates_Skip ==
  /\ pc = "prune"
  /\ it <= Len(candidates)
  /\ it' = it + 1
  /\ \/ /\ IsConsistent(candidates[it])
        /\ UNCHANGED <<candidates, conflicts>>
     \/ /\ \E k \in conflict(candidates[it]) : conflicts' = conflicts \cup {k}
        /\ candidates' = RemoveAt(candidates, it)
  /\ UNCHANGED <<theoryVars, searchVars, candidatePartition, hasTracker, pc>>

prune_inconsistent_candidates_Stay ==
  /\ pc = "prune"
  /\ it <= Len(candidates)
  /\ \/ /\ IsConsistent(candidates[it])
        /\ UNCHANGED <<candidates, conflicts>>
     \/ /\ \E k \in conflict(candidates[it]) : conflicts' = conflicts \cup {k}
        /\ candidates' = RemoveAt(candidates, it)
  /\ UNCHANGED <<theoryVars, searchVars, candidatePartition, hasTracker, it, pc>>

(* One turn of that loop: the candidate is erased, and the iterator moves on
   with that, if it has a conflict. *)
prune_inconsistent_candidates ==
  /\ pc = "prune"
  /\ it <= Len(candidates)
  /\ \/ /\ IsConsistent(candidates[it])
        /\ it' = it + 1
        /\ UNCHANGED <<candidates, conflicts>>
     \/ /\ \E k \in conflict(candidates[it]) : conflicts' = conflicts \cup {k}
        /\ candidates' = RemoveAt(candidates, it)
        /\ UNCHANGED it
  /\ UNCHANGED <<theoryVars, searchVars, candidatePartition, hasTracker, pc>>

(* The end of that loop.  With no candidate left partition has nothing to do,
   and find_fresh_candidates is called. *)
prune_inconsistent_candidates_return ==
  /\ pc = "prune"
  /\ it > Len(candidates)
  /\ \/ /\ candidates = <<>>
        /\ StartSearch(FreshSeeds)
        /\ it' = 0
     \/ /\ candidates # <<>>
        /\ it' = 1
        /\ pc' = "partition"
        /\ UNCHANGED <<searchVars, candidates, candidatePartition>>
  /\ UNCHANGED <<theoryVars, hasTracker, conflicts>>

(* One turn of the loop of Tracker::partition. *)
partition ==
  /\ pc = "partition"
  /\ it <= Len(candidates)
  /\ candidatePartition' = addToPartition(candidatePartition, candidates[it])
  /\ it' = it + 1
  /\ UNCHANGED <<theoryVars, searchVars, candidates, hasTracker, conflicts, pc>>

prune_and_search_return ==
  /\ pc = "partition"
  /\ it > Len(candidates)
  /\ it' = 0
  /\ pc' = "client"
  /\ UNCHANGED <<theoryVars, searchVars, trackerVars, conflicts>>

(* Observable::observe: a new value, or none. *)
observe(x, v) ==
  /\ pc = "client"
  /\ ReviseObservations \/ observed[x] = NULL
  /\ observed[x] # v
  /\ observed' = [observed EXCEPT ![x] = v]
  /\ UNCHANGED <<theory, limits, trackerVars, searchVars, conflicts, it, pc>>

-----------------------------------------------------------------------------

(* The constructor of CBFS_tracker runs extend_candidates without candidates,
   before the T_system knows of the tracker. *)
Init ==
  /\ \E s \in Settings : theory = s.theory /\ limits = s.limits
  /\ observed = [x \in Observable |-> NULL]
  /\ conflicts = {}
  /\ candidates = <<>>
  /\ candidatePartition = <<>>
  /\ agenda = SetToBag({seed({})})
  /\ candidates_considered = 0
  /\ hasTracker = FALSE
  /\ it = 0
  /\ seeds = {{}}
  /\ pc = "search"

Search ==
  \/ find_consistent_candidates
  \/ find_consistent_candidates_return
  \/ prune_inconsistent_candidates
  \/ prune_inconsistent_candidates_return
  \/ partition
  \/ prune_and_search_return

Next ==
  \/ Search
  \/ extend_candidates
  \/ find_fresh_candidates
  \/ prune_and_search
  \/ \E x \in Observable, v \in Value \cup {NULL} : observe(x, v)

Spec == Init /\ [][Next]_vars

(* The search runs in the thread that called it, which goes on running. *)
FairSpec == Spec /\ WF_vars(Search)

-----------------------------------------------------------------------------
(* Properties *)

(* Every variable has a value of its kind; candidates and the candidates that
   agenda elements stand for name a variable at most once. *)
TypeOK ==
  /\ theory \in SUBSET Constraint
  /\ limits \in Limit
  /\ observed \in [Observable -> Value \cup {NULL}]
  /\ conflicts \in SUBSET SUBSET Assignment
  /\ candidates \in Seq(Candidate)
  /\ candidatePartition \in Seq(Seq(Candidate))
  /\ IsABag(agenda)
  /\ \A e \in BagToSet(agenda) : e \in Element /\ generate_candidate(e) \in Candidate
  /\ candidates_considered \in Nat
  /\ hasTracker \in BOOLEAN
  /\ it \in Nat
  /\ seeds \in SUBSET Candidate
  /\ pc \in {"client", "search", "prune", "partition"}
  /\ pc \in {"prune", "partition"} => it > 0

(* The candidates that the search could return, told from scratch: those that
   extend what it began with and that no nogood in force rules out. *)
Explanation == {c \in Candidate : NotRuledOut(c) /\ \E s \in seeds : s \subseteq c}

(* find_consistent_candidates: what it returns is consistent and extends one of
   the candidates it began with. *)
FoundAreExplanations ==
  pc = "search" => \A i \in DOMAIN candidates : candidates[i] \in Explanation

(* expand_element: when the agenda runs empty ("exhaustive search"), every
   explanation contains one that was found: none was lost when only the ways to
   resolve one conflict were followed. *)
ExhaustiveMeansComplete ==
  (pc = "search" /\ agenda = EmptyBag) =>
    \A c \in Explanation : superset_candidate(c, candidates)

(* terminate_search: when it is the weight limit that ends the search, every
   explanation within that limit contains one that was found. *)
CutoffMeansCompleteBelow ==
  (pc = "search" /\ terminate_search = "WEIGHT_CUTOFF") =>
    \A c \in Explanation :
      get_weight(c) <= limits.cutoff_weight => superset_candidate(c, candidates)

(* next_consistent_candidate: at whatever limit the search stops, no lighter
   explanation was passed over for one that it returned. *)
BestFirst ==
  SearchEnds =>
    \A i \in DOMAIN candidates : \A c \in Explanation :
      get_weight(c) < get_weight(candidates[i]) =>
        superset_candidate(c, SubSeq(candidates, 1, i - 1))

(* The past of c is heavier than that of d, or contains it and weighs the same.
   Candidates whose pasts contain one another are like that when pasts have the
   weights of their parts; one with a past and one without when it weighs anything. *)
HeavierPast(c, d) ==
  LET past == StateAssignments(c)
      part == StateAssignments(d)
  IN  \/ get_weight(part) < get_weight(past)
      \/ get_weight(part) = get_weight(past) /\ supersetWithState(part, past)

(* superset_candidate only looks back: no candidate returned contains another, be
   it an earlier or a later one.  Left out are two that can be found in the wrong
   order since what the larger one has in its past adds nothing to its weight. *)
NoneRedundant ==
  pc = "search" =>
    \A i, j \in DOMAIN candidates :
      /\ supersetWithState(candidates[i], candidates[j])
      /\ HeavierPast(candidates[i], candidates[j])
      => i = j

(* prune_inconsistent_candidates erases from the list it iterates over: at the
   end of the loop no candidate is left that a nogood in force rules out. *)
KeptAreConsistent ==
  (pc = "prune" /\ it > Len(candidates)) =>
    \A i \in DOMAIN candidates : NotRuledOut(candidates[i])

(* Tracker::partition and find_consistent_candidates: the classes hold each
   candidate of the tracker once, and nothing else (a dangling pointer).  The
   search of the constructor makes no classes. *)
PartitionCovers ==
  (hasTracker /\ pc \in {"client", "search"} /\ candidatePartition # <<>>) =>
    LET members == FlattenSeq(candidatePartition) IN
    /\ ToSet(members) = ToSet(candidates)
    /\ Len(members) = Len(candidates)

(* The loops of the search and of the pruning end. *)
SearchReturns == pc # "client" ~> pc = "client"

=============================================================================
