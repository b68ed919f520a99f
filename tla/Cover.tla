-------------------------------- MODULE Cover --------------------------------
(***************************************************************************)
(* The conflict coverage search of Livingstone2 (mba/cpp/src/cover), the   *)
(* other search that a tracker may use.                                    *)
(*                                                                         *)
(* It looks for candidates that resolve every known conflict at a cost of  *)
(* at most rho, tests those it finds, and starts again with a larger rho   *)
(* until one passes.  The recursion of rho_coverage_aux is a function; the *)
(* tests, each of which may add a conflict, are steps.                     *)
(*                                                                         *)
(* Weights are of type unsigned: their arithmetic is modulo WeightModulus. *)
(* Observations are not revised, so a conflict stays a nogood.  The list   *)
(* of candidates has the order of a hash table, and is a set here.         *)
(*                                                                         *)
(* An operator named X_Y is the mutated form Y of the definition X, for    *)
(* the mutation runs; no specification uses it.                            *)
(***************************************************************************)
EXTENDS ConflictDB

CONSTANTS
  WeightModulus,       \* 2^32 where unsigned has 32 bits
  Settings             \* the constraints and the rank limits to start from

ASSUME WeightRangeAssumption ==
  /\ WeightModulus \in Nat \ {0}
  /\ \A a \in Assignment : weight[a] < WeightModulus
  /\ \A s \in Settings : /\ s.theory \subseteq Constraint
                         /\ s.gamma_limit \in 0..(WeightModulus - 2)

(* The defaults cost nothing.  (Where a time step was truncated that of the state
   variable may; there is none here.) *)
ASSUME DefaultWeightAssumption == \A v \in Assumption : weight[default[v]] = 0

VARIABLES
  gamma_limit,         \* Cover_tracker::gamma_limit
  gamma,               \* Cover_tracker::gamma, the rho of the last round
  candidates,          \* Conflict_db::candidates
  untested,            \* those of them that a loop has not come to yet
  covered,             \* history: the conflicts that the round set out to cover
  pc                   \* the call in progress, "client" when there is none

vars == <<theory, observed, conflicts, gamma_limit, gamma, candidates, untested,
          covered, pc>>

-----------------------------------------------------------------------------
(* rho_coverage_aux *)

(* Of type weight_t. *)
next_rho(rho, a) == (rho - weight[a]) % WeightModulus

choices_AnyVariable(k, rho, marked) ==
  {a \in resolving_assignments(k) : ~(next_rho(rho, a) < 0)}

(* The assignments that are considered for conflict k: to a variable that is not
   marked, other than the one in the conflict, and within cost. *)
choices(k, rho, marked) ==
  {a \in resolving_assignments(k) :
     variable[a] \notin marked /\ ~(next_rho(rho, a) < 0)}

(* What the assignment adds to a candidate. *)
named(a) == IF a = default[variable[a]] THEN {} ELSE {a}

enoughLeft_Two(rho) == ~(rho < 2)

(* May the remaining conflicts be covered?  Even values of no weight are not
   looked for when nothing is left of rho. *)
enoughLeft(rho) == ~(rho < 1)

(* The first of the conflicts that are left: list gives each conflict its place. *)
front(list, active) == CHOOSE k \in active : \A j \in active : list[k] <= list[j]

(* Those that assignment a leaves when it covers the first one. *)
active_conflicts(list, active, a) ==
  {k \in active \ {front(list, active)} : a \notin resolving_assignments(k)}

(* What a call for the conflicts in active returns, when the calls that it makes
   for those that are left return what found says. *)
coverage(list, active, rho, marked, found) ==
  LET covers(a) ==
        LET rest == active_conflicts(list, active, a)
            left == next_rho(rho, a)
        IN  IF rest = {} THEN {named(a)}
            ELSE IF enoughLeft(left)
            THEN {named(a) \cup c : c \in found[<<rest, left, marked \cup {variable[a]}>>]}
            ELSE {}
  IN  UNION {covers(a) : a \in choices(front(list, active), rho, marked)}

(* The arguments of rho_coverage_aux: conflicts, cost and marks. *)
Arguments == (SUBSET SUBSET Assignment) \X (0..(WeightModulus - 1)) \X (SUBSET Assumption)

rho_coverage_aux(list) ==
  LET found[args \in Arguments] == coverage(list, args[1], args[2], args[3], found)
  IN  found

(* Conflict_db::conflicts is sorted by size. *)
SortedConflicts ==
  {list \in [conflicts -> 1..Cardinality(conflicts)] :
     \A k, j \in conflicts : list[k] <= list[j] =>
       k = j \/ (list[k] < list[j] /\ Cardinality(k) <= Cardinality(j))}

-----------------------------------------------------------------------------
(* The tracker *)

(* The loop of find_fresh_candidates is entered unless there are no conflicts,
   or the limit was exceeded before. *)
fresh == pc' = IF conflicts = {} \/ gamma > gamma_limit THEN "client" ELSE "deepen"

(* Called by the client, it erases the candidates it finds. *)
find_fresh_candidates ==
  /\ pc = "client"
  /\ candidates' = {}
  /\ fresh
  /\ UNCHANGED <<theory, observed, conflicts, gamma_limit, gamma, untested, covered>>

(* Tracker::prune_and_search and Cover_tracker::find_candidates *)
find_candidates ==
  /\ pc = "client"
  /\ untested' = candidates
  /\ pc' = "prune"
  /\ UNCHANGED <<theory, observed, conflicts, gamma_limit, gamma, candidates, covered>>

test_KeepAll(c) ==
  \/ IsConsistent(c) /\ UNCHANGED <<candidates, conflicts>>
  \/ /\ \E k \in conflict(c) : conflicts' = conflicts \cup {k}
     /\ UNCHANGED candidates

(* A candidate is erased if installing it shows a conflict. *)
test(c) ==
  \/ IsConsistent(c) /\ UNCHANGED <<candidates, conflicts>>
  \/ /\ \E k \in conflict(c) : conflicts' = conflicts \cup {k}
     /\ candidates' = candidates \ {c}

(* One turn of the loop of prune_inconsistent_candidates, or of the loop at the
   end of rho_coverage. *)
filter ==
  /\ pc \in {"prune", "filter"}
  /\ \E c \in untested : test(c) /\ untested' = untested \ {c}
  /\ UNCHANGED <<theory, observed, gamma_limit, gamma, covered, pc>>

prune_inconsistent_candidates_return ==
  /\ pc = "prune"
  /\ untested = {}
  /\ IF candidates = {} THEN fresh ELSE pc' = "client"
  /\ UNCHANGED <<theory, observed, conflicts, gamma_limit, gamma, candidates, untested,
                 covered>>

rho_coverage_SameLevel ==
  /\ pc = "deepen"
  /\ gamma < gamma_limit
  /\ gamma' = gamma
  /\ \E list \in SortedConflicts : candidates' = rho_coverage_aux(list)[<<conflicts, gamma', {}>>]
  /\ untested' = candidates'
  /\ covered' = conflicts
  /\ pc' = "filter"
  /\ UNCHANGED <<theory, observed, conflicts, gamma_limit>>

(* The next level, up to the loop that tests what was found. *)
rho_coverage ==
  /\ pc = "deepen"
  /\ gamma < gamma_limit
  /\ gamma' = gamma + 1
  /\ \E list \in SortedConflicts : candidates' = rho_coverage_aux(list)[<<conflicts, gamma', {}>>]
  /\ untested' = candidates'
  /\ covered' = conflicts
  /\ pc' = "filter"
  /\ UNCHANGED <<theory, observed, conflicts, gamma_limit>>

(* The limit is exceeded: the search returns without a candidate. *)
exceed_limit ==
  /\ pc = "deepen"
  /\ gamma >= gamma_limit
  /\ gamma' = gamma + 1
  /\ pc' = "client"
  /\ UNCHANGED <<theory, observed, conflicts, gamma_limit, candidates, untested, covered>>

rho_coverage_return ==
  /\ pc = "filter"
  /\ untested = {}
  /\ pc' = IF candidates = {} THEN "deepen" ELSE "client"
  /\ UNCHANGED <<theory, observed, conflicts, gamma_limit, gamma, candidates, untested,
                 covered>>

(* Observable::observe *)
observe(x, v) ==
  /\ pc = "client"
  /\ observed[x] = NULL
  /\ observed' = [observed EXCEPT ![x] = v]
  /\ UNCHANGED <<theory, conflicts, gamma_limit, gamma, candidates, untested, covered, pc>>

-----------------------------------------------------------------------------

(* The constructor leaves the empty candidate with the tracker. *)
Init ==
  /\ \E s \in Settings : theory = s.theory /\ gamma_limit = s.gamma_limit
  /\ observed = [x \in Observable |-> NULL]
  /\ conflicts = {}
  /\ gamma = 0
  /\ candidates = {{}}
  /\ untested = {}
  /\ covered = {}
  /\ pc = "client"

Search ==
  \/ filter
  \/ prune_inconsistent_candidates_return
  \/ rho_coverage
  \/ exceed_limit
  \/ rho_coverage_return

Next ==
  \/ Search
  \/ find_fresh_candidates
  \/ find_candidates
  \/ \E x \in Observable, v \in Value : observe(x, v)

(* The search runs in the thread that called it, which goes on running. *)
FairSpec == Init /\ [][Next]_vars /\ WF_vars(Search)

-----------------------------------------------------------------------------
(* Properties *)

(* Every variable has a value of its kind; candidates name a variable at most
   once. *)
TypeOK ==
  /\ theory \subseteq Constraint
  /\ observed \in [Observable -> Value \cup {NULL}]
  /\ conflicts \cup covered \subseteq SUBSET Assignment
  /\ gamma_limit \in 0..(WeightModulus - 2)
  /\ gamma \in 0..(gamma_limit + 1)
  /\ candidates \cup untested \subseteq Candidate
  /\ pc \in {"client", "prune", "deepen", "filter"}

(* Does the candidate, its defaults included, resolve the conflict? *)
Resolves(c, k) == \E a \in k : ~Holds(a, c)

IsCover(c, ks) == \A k \in ks : Resolves(c, k)

(* rho_coverage_aux: the candidates of a round resolve every conflict that was
   known when it began, those resolved by a default included. *)
CandidatesCover == pc = "filter" => \A c \in untested : IsCover(c, covered)

(* rho_coverage_aux: of the covers that cost less than rho the smallest ones are
   among the candidates of the round, whatever order conflicts have. *)
SmallCoversFound ==
  (pc = "filter" /\ untested = candidates /\ conflicts = covered) =>
    \A c \in Candidate :
      (/\ IsCover(c, covered)
       /\ \A d \in SUBSET c : IsCover(d, covered) => d = c
       /\ get_weight(c) < gamma) => c \in candidates

(* prune_inconsistent_candidates and rho_coverage: candidates that a loop has
   passed are consistent with what is observed. *)
PassedAreConsistent ==
  pc # "client" => \A c \in candidates \ untested : NotRuledOut(c)

(* The loops end, and with them the search. *)
SearchReturns == pc # "client" ~> pc = "client"

(* termination.h, of what search_termination says of this search: "No more
   candidates can be constructed that have weights less than the specified
   cutoff paramter." *)
CutoffMeansNoneLeft ==
  (pc = "deepen" /\ gamma >= gamma_limit) =>
    \A c \in Candidate : get_weight(c) < gamma_limit => ~NotRuledOut(c)

=============================================================================
