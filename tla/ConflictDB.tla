----------------------------- MODULE ConflictDB -----------------------------
(***************************************************************************)
(* Candidates and the database of conflicts (mba/cpp/src/conflict_db) that *)
(* both searches of Livingstone2 work on.                                  *)
(*                                                                         *)
(* A candidate is a set of assignments to assumption variables; installing *)
(* it gives every other assumption its default.  The LTMS below answers    *)
(* whether what is installed is consistent and, if not, with a conflict.   *)
(* Here it is what LTMSProofs proves of it: a theory is a set of nogoods,  *)
(* each in force while certain observations stand; propagate fails exactly *)
(* when a nogood in force is installed, and last_conflict yields one.      *)
(*                                                                         *)
(* An operator named X_Y is the mutated form Y of the definition X, for    *)
(* the mutation runs; no specification uses it.                            *)
(***************************************************************************)
EXTENDS Integers, FiniteSets, FiniteSetsExt

CONSTANTS
  Assumption,          \* the assumption variables
  Assignment,          \* the assignments of values to assumptions
  NULL,                \* the null pointer
  variable,            \* Assignment::variable
  default,             \* Assumption::default_assignment
  weight,              \* Assignment::weight
  Observable,          \* the observable variables
  Value                \* what may be observed

(* A nogood, and the observations under which the clauses rule it out. *)
Constraint == [nogood : SUBSET Assignment, given : SUBSET (Observable \X Value)]

ASSUME AssignmentAssumption ==
  /\ variable \in [Assignment -> Assumption]
  /\ default \in [Assumption -> Assignment]
  /\ \A v \in Assumption : variable[default[v]] = v
  /\ NULL \notin Assignment \cup Value
  /\ IsFiniteSet(Assignment)

ASSUME WeightAssumption == weight \in [Assignment -> Nat]

VARIABLES
  theory,              \* the clauses, as constraints
  observed,            \* Assignable::current of the observables
  conflicts            \* Conflict_db::conflicts

-----------------------------------------------------------------------------
(* Candidates *)

(* At most one assignment to each variable. *)
Candidate == {c \in SUBSET Assignment :
                \A a, b \in c : variable[a] = variable[b] => a = b}

get_weight(c) == MapThenSumSet(LAMBDA a : weight[a], c)

Variables(c) == {variable[a] : a \in c}

install_NoDefaults(c) == c

(* What the assumptions are assigned after restore_assumption_defaults and
   Candidate::assign. *)
install(c) == c \cup {default[v] : v \in Assumption \ Variables(c)}

-----------------------------------------------------------------------------
(* Conflicts *)

(* The nogoods in force. *)
Nogoods == {k.nogood : k \in {x \in theory :
              \A o \in x.given : observed[o[1]] = o[2]}}

(* What last_conflict may answer once candidate c is installed and propagate
   has failed. *)
LastConflicts(c) == {k \in Nogoods : k \subseteq install(c)}

IsConsistent(c) == LastConflicts(c) = {}

(* The known conflicts that make k redundant; the list is sorted by size, and
   the first one that is found is used. *)
find_subsuming_conflict(k) == {known \in conflicts : known \subseteq k}

(* The conflict that add_conflict returns for k. *)
add_conflict(k) ==
  LET known == find_subsuming_conflict(k)
  IN  IF known = {}
      THEN {k}
      ELSE {c \in known : \A d \in known : Cardinality(c) <= Cardinality(d)}

(* The conflicts that conflict() may return when c is installed; none if c is
   consistent. *)
conflict(c) == UNION {add_conflict(k) : k \in LastConflicts(c)}

resolving_assignments_AnyValue(k) ==
  {a \in Assignment : \E b \in k : variable[a] = variable[b]}

(* The assignments whose resolved_conflicts have k. *)
resolving_assignments(k) ==
  {a \in Assignment \ k : \E b \in k : variable[a] = variable[b]}

-----------------------------------------------------------------------------
(* The reference that properties compare with *)

(* Does assignment a hold when c gives the values that differ from the default? *)
Holds(a, c) == IF variable[a] \in Variables(c) THEN a \in c
                                               ELSE a = default[variable[a]]

(* No nogood in force holds altogether. *)
NotRuledOut(c) == \A n \in Nogoods : \E a \in n : ~Holds(a, c)

=============================================================================
