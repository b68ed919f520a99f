-------------------------------- MODULE LTMS --------------------------------
(***************************************************************************)
(* The logic-based truth maintenance system of Livingstone2                *)
(* (mba/cpp/src/tms): unit propagation over a clausal theory whose clauses *)
(* come and go, with cached truth values, cached justifications and the    *)
(* trace that turns an inconsistency into a conflict among assumptions.    *)
(*                                                                         *)
(* The LTMS is called by one client (Conflict_db, T_system).  Operations   *)
(* that loop (undo_propagations, propagate, get_clause_support) take one   *)
(* step per iteration of their loop; pc names the call in progress.        *)
(*                                                                         *)
(* The two fringes, the unsatisfied array, the undo list and the stack of  *)
(* the trace are sets: the order in which the code takes their elements is *)
(* an unconstrained choice here (except that non-volatile fringe clauses   *)
(* go first), so what holds of the model holds for any such order.         *)
(*                                                                         *)
(* An operator named X_Y is the mutated form Y of the definition X, for    *)
(* the mutation runs; no specification uses it.                            *)
(***************************************************************************)
EXTENDS Integers, FiniteSets

CONSTANTS
  Prop,              \* the propositions the client may use
  Clause,            \* the clauses the client may allocate
  NULL,              \* the null pointer
  Bodies,            \* the sets of literals the client makes clauses of
  VolatileClause,    \* clauses that are created with isVolatile
  AssumptionClause,  \* clauses that satisfy Conflict_db::is_assumption
  MAX_TIME_STAMP     \* the last visit stamp before they start over

(* A literal is a proposition with the truth value that satisfies it. *)
Literal == Prop \X {"PTRUE", "PFALSE"}

ASSUME NullAssumption == NULL \notin Prop /\ NULL \notin Clause

ASSUME FiniteAssumption == IsFiniteSet(Prop) /\ Bodies \subseteq SUBSET Literal

ASSUME KindAssumption ==
  /\ VolatileClause \subseteq Clause
  /\ AssumptionClause \subseteq VolatileClause

ASSUME StampAssumption == MAX_TIME_STAMP \in Nat \ {0}

VARIABLES
  clauses,          \* Ptheory::clauses, the allocated clauses
  lits,             \* Clause::literals, with their signs
  deleted,          \* Clause::DELETED
  num_unassigned,   \* Clause::num_unassigned
  satisfying_prop,  \* Clause::satisfying_prop
  supports,         \* Clause::supports
  stamp,            \* Clause::time_stamp
  tv,               \* Proposition::tv
  supported_by,     \* Proposition::supported_by
  fringe,           \* LTMS::fringe and LTMS::volatile_fringe, Clause::IN_FRINGE
  unsatisfied,      \* LTMS::unsatisfied, Clause::UNSATISFIED
  undo_list,        \* LTMS::undo_list
  time_stamp,       \* Ptheory::time_stamp, the current visit
  stack,            \* the stack of get_clause_support
  conflict,         \* the out parameter of last_conflict
  pc,               \* the call in progress, "client" when there is none
  verdict           \* what the last propagate or last_conflict answered

theoryVars == <<clauses, lits, deleted>>
cacheVars == <<num_unassigned, satisfying_prop, fringe, unsatisfied>>
supportVars == <<supports, tv, supported_by, undo_list>>
traceVars == <<stamp, time_stamp, stack, conflict>>
vars == <<theoryVars, cacheVars, supportVars, traceVars, pc, verdict>>

-----------------------------------------------------------------------------
(* Reading the theory *)

Opposite(v) == IF v = "PTRUE" THEN "PFALSE" ELSE "PTRUE"

(* The clauses that take part in inference. *)
Active == clauses \ deleted

PropsOf(c) == {l[1] : l \in lits[c]}

Unassigned(c) == {l \in lits[c] : tv[l[1]] = "UNKNOWN"}

Satisfying(c) == {l \in lits[c] : tv[l[1]] = l[2]}

count_unassigned_All(c) == Cardinality(lits[c])

count_unassigned(c) == Cardinality(Unassigned(c))

find_satisfying_prop(c) ==
  IF Satisfying(c) = {} THEN NULL ELSE (CHOOSE l \in Satisfying(c) : TRUE)[1]

(* Is the clause one with a single way left to be satisfied, or with none? *)
IsUnit(c) == Satisfying(c) = {} /\ count_unassigned(c) = 1

IsFalsified(c) == Satisfying(c) = {} /\ count_unassigned(c) = 0

Occurrences_Once(p, c) == IF p \in PropsOf(c) THEN 1 ELSE 0

(* How often p occurs in c: a clause may hold both p and its negation. *)
Occurrences(p, c) == (IF <<p, "PTRUE">> \in lits[c] THEN 1 ELSE 0)
                       + (IF <<p, "PFALSE">> \in lits[c] THEN 1 ELSE 0)

-----------------------------------------------------------------------------
(* Allocating a clause, adding it to the theory and removing it *)

(* Clause::Clause and Ptheory::create_clause without inTheory.  The clause of
   an Assignment, the only kind is_assumption accepts, is a positive unit. *)
create_clause(c, body) ==
  /\ pc = "client"
  /\ c \notin clauses
  /\ c \in AssumptionClause => \E p \in Prop : body = {<<p, "PTRUE">>}
  /\ clauses' = clauses \cup {c}
  /\ deleted' = deleted \cup {c}
  /\ lits' = [lits EXCEPT ![c] = body]
  /\ num_unassigned' = [num_unassigned EXCEPT ![c] = 0]
  /\ satisfying_prop' = [satisfying_prop EXCEPT ![c] = NULL]
  /\ supports' = [supports EXCEPT ![c] = NULL]
  /\ stamp' = [stamp EXCEPT ![c] = 0]
  /\ UNCHANGED <<tv, supported_by, fringe, unsatisfied, undo_list, time_stamp,
                 stack, conflict, pc, verdict>>

(* LTMS::add, which Ptheory::create_clause also calls when inTheory is set. *)
add(c) ==
  /\ pc = "client"
  /\ c \in clauses \cap deleted
  /\ deleted' = deleted \ {c}
  /\ satisfying_prop' = [satisfying_prop EXCEPT ![c] = find_satisfying_prop(c)]
  /\ num_unassigned' = [num_unassigned EXCEPT ![c] = count_unassigned(c)]
  /\ supports' = [supports EXCEPT ![c] = NULL]
  /\ fringe' = IF IsUnit(c) THEN fringe \cup {c} ELSE fringe
  /\ unsatisfied' = IF IsFalsified(c) THEN unsatisfied \cup {c} ELSE unsatisfied
  /\ verdict' = "none"
  /\ UNCHANGED <<clauses, lits, tv, supported_by, undo_list, traceVars, pc>>

remove_UndoSatisfying(c) ==
  /\ pc = "client"
  /\ c \in Active
  /\ deleted' = deleted \cup {c}
  /\ verdict' = "none"
  /\ fringe' = fringe \ {c}
  /\ unsatisfied' = IF c \in fringe THEN unsatisfied ELSE unsatisfied \ {c}
  /\ IF c \notin fringe \cup unsatisfied /\ satisfying_prop[c] # NULL
       THEN /\ undo_list' = undo_list \cup {satisfying_prop[c]}
            /\ supports' = [supports EXCEPT ![c] = NULL]
            /\ pc' = "remove"
       ELSE UNCHANGED <<undo_list, supports, pc>>
  /\ UNCHANGED <<clauses, lits, num_unassigned, satisfying_prop, tv,
                 supported_by, traceVars>>

(* LTMS::remove up to its call of undo_propagations. *)
remove(c) ==
  /\ pc = "client"
  /\ c \in Active
  /\ deleted' = deleted \cup {c}
  /\ verdict' = "none"
  /\ fringe' = fringe \ {c}
  /\ unsatisfied' = IF c \in fringe THEN unsatisfied ELSE unsatisfied \ {c}
  /\ IF c \notin fringe \cup unsatisfied /\ supports[c] # NULL
       THEN /\ undo_list' = undo_list \cup {supports[c]}
            /\ supports' = [supports EXCEPT ![c] = NULL]
            /\ pc' = "remove"
       ELSE UNCHANGED <<undo_list, supports, pc>>
  /\ UNCHANGED <<clauses, lits, num_unassigned, satisfying_prop, tv,
                 supported_by, traceVars>>

(* Proposition::set_destroying on the propositions of D, then
   LTMS::finish_destroying up to its call of undo_propagations. *)
finish_destroying(D) ==
  LET doomed == {c \in clauses : PropsOf(c) \cap D # {}}
  IN  /\ pc = "client"
      /\ clauses' = clauses \ doomed
      /\ deleted' = deleted \ doomed
      /\ fringe' = fringe \ doomed
      /\ unsatisfied' = unsatisfied \ doomed
      /\ undo_list' = undo_list \cup ({supports[c] : c \in doomed} \ (D \cup {NULL}))
      /\ supports' = [c \in Clause |-> IF c \in doomed THEN NULL ELSE supports[c]]
      /\ tv' = [p \in Prop |-> IF p \in D THEN "UNKNOWN" ELSE tv[p]]
      /\ supported_by' = [p \in Prop |-> IF p \in D THEN NULL ELSE supported_by[p]]
      /\ lits' = [c \in Clause |-> IF c \in doomed THEN {} ELSE lits[c]]
      /\ pc' = "finish_destroying"
      /\ verdict' = "none"
      /\ UNCHANGED <<num_unassigned, satisfying_prop, traceVars>>

-----------------------------------------------------------------------------
(* Truth values *)

(* LTMS::assign with assignUpdateSameSense and assignUpdateOppositeSense;
   rest is the fringe without the clause that propagates. *)
assign(p, v, c, rest) ==
  LET same == {d \in Active : <<p, v>> \in lits[d]}
      opposite == {d \in Active : <<p, Opposite(v)>> \in lits[d]}
      open == {d \in Active : satisfying_prop[d] = NULL}
      hit == (opposite \ same) \cap open
      left(d) == IF d \in Active THEN num_unassigned[d] - Occurrences(p, d)
                                 ELSE num_unassigned[d]
  IN  /\ tv' = [tv EXCEPT ![p] = v]
      /\ supported_by' = [supported_by EXCEPT ![p] = c]
      /\ num_unassigned' = [d \in Clause |-> left(d)]
      /\ satisfying_prop' = [d \in Clause |->
            IF d \in same \cap open THEN p ELSE satisfying_prop[d]]
      /\ fringe' = (rest \ ((same \cap open) \cup hit))
                     \cup {d \in hit \ rest : left(d) = 1}
      /\ unsatisfied' = unsatisfied \cup (hit \cap rest)

(* LTMS::unassign with unassignUpdateSameSense and
   unassignUpdateOppositeSense, for a proposition that has a value. *)
unassign(p) ==
  LET v == tv[p]
      same == {d \in Active : <<p, v>> \in lits[d]}
      opposite == {d \in Active : <<p, Opposite(v)>> \in lits[d]}
      others(d) == Satisfying(d) \ {<<p, v>>}
      resatisfied(d) == IF others(d) = {} THEN NULL
                        ELSE (CHOOSE l \in others(d) : TRUE)[1]
      lost == {d \in same : satisfying_prop[d] = p /\ others(d) = {}}
      reopened == fringe \cup {d \in lost : num_unassigned[d] + 1 = 1}
      released == {d \in opposite \ (unsatisfied \cup reopened) :
                     supports[d] # NULL}
  IN  /\ tv' = [tv EXCEPT ![p] = "UNKNOWN"]
      /\ supported_by' = [supported_by EXCEPT ![p] = NULL]
      /\ num_unassigned' = [d \in Clause |->
            IF d \in Active THEN num_unassigned[d] + Occurrences(p, d)
                            ELSE num_unassigned[d]]
      /\ satisfying_prop' = [d \in Clause |->
            IF d \in same /\ satisfying_prop[d] = p
              THEN resatisfied(d)
              ELSE satisfying_prop[d]]
      /\ fringe' = (reopened \ opposite) \cup (opposite \cap unsatisfied)
      /\ unsatisfied' = unsatisfied \ opposite
      /\ supports' = [d \in Clause |->
            IF d \in released THEN NULL ELSE supports[d]]
      /\ undo_list' = (undo_list \ {p}) \cup {supports[d] : d \in released}

(* One iteration of LTMS::undo_propagations, for either caller. *)
undo_propagations(p) ==
  /\ pc \in {"remove", "finish_destroying"}
  /\ p \in undo_list
  /\ IF tv[p] = "UNKNOWN"
       THEN /\ undo_list' = undo_list \ {p}
            /\ UNCHANGED <<tv, supported_by, supports, cacheVars>>
       ELSE unassign(p)
  /\ UNCHANGED <<theoryVars, traceVars, pc, verdict>>

(* undo_propagations returns: remove is done, finish_destroying propagates. *)
undo_propagations_return ==
  /\ pc \in {"remove", "finish_destroying"}
  /\ undo_list = {}
  /\ pc' = IF pc = "remove" THEN "client" ELSE "propagate"
  /\ UNCHANGED <<theoryVars, cacheVars, supportVars, traceVars, verdict>>

-----------------------------------------------------------------------------
(* Unit propagation *)

propagate ==
  /\ pc = "client"
  /\ pc' = "propagate"
  /\ verdict' = "none"
  /\ UNCHANGED <<theoryVars, cacheVars, supportVars, traceVars>>

(* LTMS::get_fringe_clause: any clause, but non-volatile ones first. *)
FringeClauses ==
  IF fringe \subseteq VolatileClause THEN fringe ELSE fringe \ VolatileClause

propagate_clause_NoSupports(c) ==
  /\ pc = "propagate"
  /\ unsatisfied = {}
  /\ c \in FringeClauses
  /\ \E l \in Unassigned(c) : assign(l[1], l[2], c, fringe \ {c})
  /\ UNCHANGED <<theoryVars, supports, undo_list, traceVars, pc, verdict>>

(* One iteration of LTMS::propagate: a fringe clause forces its last literal. *)
propagate_clause(c) ==
  /\ pc = "propagate"
  /\ unsatisfied = {}
  /\ c \in FringeClauses
  /\ \E l \in Unassigned(c) :
       /\ assign(l[1], l[2], c, fringe \ {c})
       /\ supports' = [supports EXCEPT ![c] = l[1]]
  /\ UNCHANGED <<theoryVars, undo_list, traceVars, pc, verdict>>

propagate_return_NonVolatile ==
  /\ pc = "propagate"
  /\ unsatisfied # {} \/ fringe \subseteq VolatileClause
  /\ pc' = "client"
  /\ verdict' = IF unsatisfied = {} THEN "consistent" ELSE "inconsistent"
  /\ UNCHANGED <<theoryVars, cacheVars, supportVars, traceVars>>

propagate_return ==
  /\ pc = "propagate"
  /\ unsatisfied # {} \/ fringe = {}
  /\ pc' = "client"
  /\ verdict' = IF unsatisfied = {} THEN "consistent" ELSE "inconsistent"
  /\ UNCHANGED <<theoryVars, cacheVars, supportVars, traceVars>>

-----------------------------------------------------------------------------
(* Explaining an inconsistency *)

NextStamp_NoWrap == time_stamp + 1

(* The stamp of the next visit; they start over after MAX_TIME_STAMP ... *)
NextStamp == IF time_stamp = MAX_TIME_STAMP THEN 1 ELSE time_stamp + 1

FreshStamps_Kept == stamp

(* ... and then Ptheory::initialize_time_stamps clears those of the clauses. *)
FreshStamps ==
  [d \in Clause |-> IF time_stamp = MAX_TIME_STAMP /\ d \in clauses
                      THEN 0 ELSE stamp[d]]

(* LTMS::last_conflict with predicate is_assumption, up to the loop of
   get_clause_support. *)
last_conflict(c) ==
  /\ pc = "client"
  /\ c \in unsatisfied
  /\ conflict' = {c} \cap AssumptionClause
  /\ stack' = {c}
  /\ time_stamp' = NextStamp
  /\ stamp' = FreshStamps
  /\ pc' = "last_conflict"
  /\ verdict' = "none"
  /\ UNCHANGED <<theoryVars, cacheVars, supportVars>>

get_clause_support_Peek(c) ==
  LET parents == {supported_by[p] : p \in PropsOf(c)}
      fresh == {d \in parents \ {c} : stamp[d] # time_stamp}
  IN  /\ pc = "last_conflict"
      /\ c \in stack
      /\ NULL \notin parents
      /\ stamp' = [d \in Clause |-> IF d \in fresh THEN time_stamp ELSE stamp[d]]
      /\ conflict' = conflict \cup (fresh \cap AssumptionClause)
      /\ stack' = stack \cup (fresh \ AssumptionClause)
      /\ UNCHANGED <<theoryVars, cacheVars, supportVars, time_stamp, pc, verdict>>

(* One iteration of get_clause_support: the justifications of the clause's
   literals that were not met yet go to the conflict or to the stack. *)
get_clause_support(c) ==
  LET parents == {supported_by[p] : p \in PropsOf(c)}
      fresh == {d \in parents \ {c} : stamp[d] # time_stamp}
  IN  /\ pc = "last_conflict"
      /\ c \in stack
      /\ NULL \notin parents
      /\ stamp' = [d \in Clause |-> IF d \in fresh THEN time_stamp ELSE stamp[d]]
      /\ conflict' = conflict \cup (fresh \cap AssumptionClause)
      /\ stack' = (stack \ {c}) \cup (fresh \ AssumptionClause)
      /\ UNCHANGED <<theoryVars, cacheVars, supportVars, time_stamp, pc, verdict>>

last_conflict_return ==
  /\ pc = "last_conflict"
  /\ stack = {}
  /\ pc' = "client"
  /\ verdict' = "explained"
  /\ UNCHANGED <<theoryVars, cacheVars, supportVars, traceVars>>

-----------------------------------------------------------------------------
Init ==
  /\ clauses = {} /\ deleted = {}
  /\ lits = [c \in Clause |-> {}]
  /\ num_unassigned = [c \in Clause |-> 0]
  /\ satisfying_prop = [c \in Clause |-> NULL]
  /\ supports = [c \in Clause |-> NULL]
  /\ stamp = [c \in Clause |-> 0]
  /\ tv = [p \in Prop |-> "UNKNOWN"]
  /\ supported_by = [p \in Prop |-> NULL]
  /\ fringe = {} /\ unsatisfied = {} /\ undo_list = {}
  /\ time_stamp = 0 /\ stack = {} /\ conflict = {}
  /\ pc = "client" /\ verdict = "none"

(* What the client may call. *)
Call ==
  \/ \E c \in Clause, body \in Bodies : create_clause(c, body)
  \/ \E c \in Clause : add(c)
  \/ \E c \in Clause : remove(c)
  \/ \E D \in SUBSET Prop : finish_destroying(D)
  \/ propagate
  \/ \E c \in Clause : last_conflict(c)

(* The LTMS running a call to its end. *)
Run ==
  \/ \E p \in Prop : undo_propagations(p)
  \/ undo_propagations_return
  \/ \E c \in Clause : propagate_clause(c)
  \/ propagate_return
  \/ \E c \in Clause : get_clause_support(c)
  \/ last_conflict_return

Next == Call \/ Run

Spec == Init /\ [][Next]_vars

(* A call that was made runs: the LTMS is plain sequential code. *)
FairSpec == Spec /\ WF_vars(Run)

-----------------------------------------------------------------------------
(* Type correctness *)

DataOK ==
  /\ clauses \subseteq Clause
  /\ lits \in [Clause -> SUBSET Literal]
  /\ deleted \subseteq clauses
  /\ num_unassigned \in [Clause -> Int]
  /\ satisfying_prop \in [Clause -> Prop \cup {NULL}]
  /\ supports \in [Clause -> Prop \cup {NULL}]
  /\ stamp \in [Clause -> 0..MAX_TIME_STAMP]
  /\ tv \in [Prop -> {"PTRUE", "PFALSE", "UNKNOWN"}]
  /\ supported_by \in [Prop -> Clause \cup {NULL}]
  /\ fringe \subseteq Clause
  /\ unsatisfied \subseteq Clause
  /\ undo_list \subseteq Prop
  /\ time_stamp \in 0..MAX_TIME_STAMP
  /\ stack \subseteq Clause
  /\ conflict \subseteq Clause
  /\ verdict \in {"none", "consistent", "inconsistent", "explained"}

TypeOK ==
  /\ DataOK
  /\ pc \in {"client", "remove", "finish_destroying", "propagate", "last_conflict"}

-----------------------------------------------------------------------------
(* The caches *)

(* Every cache of a clause in the theory says what the truth values say: the
   count of unassigned literals, the satisfying proposition, and membership
   of the fringe and of the unsatisfied list.  add, remove, assign and
   unassign each repair them locally and must agree. *)
CachesExact ==
  /\ \A c \in Active :
       /\ num_unassigned[c] = count_unassigned(c)
       /\ IF Satisfying(c) = {}
            THEN satisfying_prop[c] = NULL
            ELSE \E l \in Satisfying(c) : l[1] = satisfying_prop[c]
  /\ fringe = {c \in Active : IsUnit(c)}
  /\ unsatisfied = {c \in Active : IsFalsified(c)}

(* The caches of clause c say what the truth values say. *)
ClauseExact(c) ==
  /\ num_unassigned[c] = count_unassigned(c)
  /\ IF Satisfying(c) = {} THEN satisfying_prop[c] = NULL
                          ELSE \E l \in Satisfying(c) : l[1] = satisfying_prop[c]
  /\ c \in fringe <=> IsUnit(c)
  /\ c \in unsatisfied <=> IsFalsified(c)

(* CachesExact, but for the clauses of K. *)
CachesExactBut(K) ==
  /\ \A c \in Active \ K : ClauseExact(c)
  /\ (fringe \cup unsatisfied) \ K \subseteq Active

Assigned == {p \in Prop : tv[p] # "UNKNOWN"}

(* c leaves p no other value: its other literals are all false. *)
Justifies(c, p) ==
  /\ <<p, tv[p]>> \in lits[c]
  /\ \A l \in lits[c] \ {<<p, tv[p]>>} : l[1] # p /\ tv[l[1]] = Opposite(l[2])

(* Proposition::supported_by and Clause::supports are inverse, and every value
   but those of U has a clause of the theory that forces it. *)
JustifiedBut(U) ==
  /\ \A p \in Prop : tv[p] = "UNKNOWN" <=> supported_by[p] = NULL
  /\ \A p \in Assigned \ U :
       /\ supported_by[p] \in Active
       /\ supports[supported_by[p]] = p
       /\ Justifies(supported_by[p], p)
  /\ \A c \in Clause : supports[c] # NULL =>
       /\ c \in Active
       /\ supports[c] \notin U
       /\ supported_by[supports[c]] = c
  /\ U \subseteq Assigned

(* Every value that is not queued for undo is justified.  remove() finds what to
   retract through these pointers alone. *)
JustificationsExact == JustifiedBut(undo_list)

(* No value rests on itself: every set of assigned propositions has one whose
   clause needs no other of the set.  Were there a cycle, remove() would leave
   values standing that support each other and nothing else does. *)
WellFounded ==
  \A S \in SUBSET Assigned : S # {} =>
    \E p \in S : (PropsOf(supported_by[p]) \ {p}) \cap S = {}

-----------------------------------------------------------------------------
(* What the LTMS answers *)

(* The total truth assignments that satisfy every clause of T. *)
Models(T) ==
  {m \in [Prop -> {"PTRUE", "PFALSE"}] :
     \A c \in T : \E l \in lits[c] : m[l[1]] = l[2]}

(* Whenever no undo is under way, every cached truth value is a consequence of
   the clauses that are in the theory now, however they got there. *)
ValuesEntailed ==
  undo_list = {} =>
    \A m \in Models(Active), p \in Assigned : m[p] = tv[p]

(* If propagate() returns false the theory has no model. *)
InconsistentMeansNoModel ==
  verdict \in {"inconsistent", "explained"} => Models(Active) = {}

(* If propagate() returns true no clause of the theory is left that is unit or
   falsified: "all Propositions have truth values that are unit propagation
   entailed by the Theory" (ltms.h). *)
ConsistentMeansClosed ==
  verdict = "consistent" => \A c \in Active : ~IsUnit(c) /\ ~IsFalsified(c)

(* Is a set L of literals closed under unit propagation over the clauses T? *)
UnitClosed(T, L) ==
  \A c \in T : \A l \in lits[c] :
    (\A k \in lits[c] \ {l} : <<k[1], Opposite(k[2])>> \in L) => l \in L

(* What unit propagation over T reaches from nothing: the least such set. *)
FromScratch(T) ==
  {l \in Literal : \A L \in SUBSET Literal : UnitClosed(T, L) => l \in L}

(* After any history of adding, removing and destroying clauses, propagate()
   that returns true leaves exactly the values that unit propagation over the
   present theory reaches from nothing. *)
SameAsFromScratch ==
  verdict = "consistent" => {<<p, tv[p]>> : p \in Assigned} = FromScratch(Active)

(* The conflict last_conflict() returns is a real one: the assumptions in it
   are in the theory and cannot all hold beside the clauses that are not
   assumptions.  The search of OPSAT discards candidates on its word. *)
ConflictIsNogood ==
  verdict = "explained" =>
    /\ conflict \subseteq Active \cap AssumptionClause
    /\ Models(conflict \cup (Active \ AssumptionClause)) = {}

(* None of the integrity tests of the code fires: "prop has unknown value but
   is supported", "called get_unassigned_literal on non-fringe clause",
   "decreasing unassigned count below zero", "number of unassigned literals
   exceeds total number", "unsupported clause was supporting something". *)
NoIntegrityTestFails ==
  /\ \A p \in undo_list : tv[p] = "UNKNOWN" => supported_by[p] = NULL
  /\ pc = "propagate" /\ unsatisfied = {} =>
       \A c \in FringeClauses : \E l \in Unassigned(c) :
         \A d \in Active : num_unassigned[d] >= Occurrences(l[1], d)
  /\ \A p \in undo_list \cap Assigned, d \in Active :
       num_unassigned[d] + Occurrences(p, d) <= Cardinality(lits[d])
  /\ pc = "last_conflict" =>
       \A c \in stack : \A p \in PropsOf(c) : supported_by[p] # NULL

(* A step never replaces a truth value by the other one, and gives a value up
   only when its justification is gone: the clause left the theory or one of
   its other literals lost its value first. *)
OnlyUnsupportedRetracted ==
  [][\A p \in Assigned : tv'[p] # tv[p] =>
       /\ tv'[p] = "UNKNOWN"
       /\ \/ supported_by[p] \notin Active'
          \/ \E q \in PropsOf(supported_by[p]) \ {p} : tv'[q] = "UNKNOWN"]_vars

(* Every call returns: undo_propagations and propagate cannot feed each other
   for ever, and the trace of a conflict ends. *)
CallsReturn == (pc # "client") ~> (pc = "client")

=============================================================================
