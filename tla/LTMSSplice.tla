----------------------------- MODULE LTMSSplice -----------------------------
(***************************************************************************)
(* LTMS::move_support, with which T_system::splice puts a variable of a    *)
(* past time step in the place of one of the present, in the clauses that  *)
(* lead there from the step before.                                        *)
(*                                                                         *)
(* Clause::supports is the index of a literal in the code: when another    *)
(* proposition takes the literal's place it is the one supported.          *)
(*                                                                         *)
(* An operator named X_Y is the mutated form Y of the definition X, for    *)
(* the mutation runs; no specification uses it.                            *)
(***************************************************************************)
EXTENDS LTMS

CONSTANTS
  Splices,        \* the propositions that are replaced, each with its successor
  LeaveSupport    \* may one be replaced whose support stays behind?

ASSUME SpliceAssumption ==
  /\ Splices \subseteq Prop \X Prop
  /\ LeaveSupport \in BOOLEAN

VARIABLES
  moving,         \* the arguments of the move_support in progress
  unsettled       \* history: the clauses that the second case left with wrong caches

spliceVars == <<vars, moving, unsettled>>

(* Clauses that may be among the transition_clauses of a mode: they hold other
   propositions as well, of the time step before. *)
TransitionClauses == {c \in Active : Cardinality(PropsOf(c)) > 1}

(* Proposition r in the place of p in the literals of c. *)
swapped(c, p, r) == {IF l[1] = p THEN <<r, l[2]>> ELSE l : l \in lits[c]}

transfer_clauses_KeepSatisfying(p, r, cs, losing_assignment) ==
  /\ lits' = [c \in Clause |-> IF c \in cs THEN swapped(c, p, r) ELSE lits[c]]
  /\ supports' = [c \in Clause |->
        IF c \in cs /\ supports[c] = p THEN r ELSE supports[c]]
  /\ num_unassigned' = [c \in Clause |->
        IF c \in cs /\ losing_assignment THEN num_unassigned[c] + Occurrences(p, c)
                                         ELSE num_unassigned[c]]
  /\ UNCHANGED satisfying_prop

transfer_clauses_KeepSupports(p, r, cs, losing_assignment) ==
  /\ lits' = [c \in Clause |-> IF c \in cs THEN swapped(c, p, r) ELSE lits[c]]
  /\ UNCHANGED supports
  /\ num_unassigned' = [c \in Clause |->
        IF c \in cs /\ losing_assignment THEN num_unassigned[c] + Occurrences(p, c)
                                         ELSE num_unassigned[c]]
  /\ satisfying_prop' = [c \in Clause |->
        IF c \in cs /\ satisfying_prop[c] = p THEN r ELSE satisfying_prop[c]]

transfer_clauses(p, r, cs, losing_assignment) ==
  /\ lits' = [c \in Clause |-> IF c \in cs THEN swapped(c, p, r) ELSE lits[c]]
  /\ supports' = [c \in Clause |->
        IF c \in cs /\ supports[c] = p THEN r ELSE supports[c]]
  /\ num_unassigned' = [c \in Clause |->
        IF c \in cs /\ losing_assignment THEN num_unassigned[c] + Occurrences(p, c)
                                         ELSE num_unassigned[c]]
  /\ satisfying_prop' = [c \in Clause |->
        IF c \in cs /\ satisfying_prop[c] = p THEN r ELSE satisfying_prop[c]]

(* The new proposition is one of a variable that was just created: it has no
   value, and is in none of the clauses that are moved. *)
Fresh(r, cs) == tv[r] = "UNKNOWN" /\ \A c \in cs : r \notin PropsOf(c)

(* The moved clauses whose other caches do not go with the new count, when p
   keeps its value: those that it satisfied, and those that were in the fringe or
   unsatisfied. *)
Unsettled(p, cs) ==
  {c \in cs : p \in PropsOf(c) /\ (satisfying_prop[c] = p \/ c \in fringe \cup unsatisfied)}

(* The first two cases: p has no support, or it has it from another clause. *)
move_support_unsupported(p, cs, r) ==
  /\ pc = "client"
  /\ Fresh(r, cs)
  /\ supported_by[p] \notin cs
  /\ supported_by[p] = NULL \/ LeaveSupport
  /\ transfer_clauses(p, r, cs, supported_by[p] # NULL)
  /\ unsettled' = IF supported_by[p] = NULL THEN unsettled
                                            ELSE unsettled \cup Unsettled(p, cs)
  /\ verdict' = "none"
  /\ UNCHANGED <<clauses, deleted, fringe, unsatisfied, tv, supported_by, undo_list,
                 traceVars, pc, moving>>

(* The third case: r takes over the value and the support, ... *)
move_support(p, cs, r) ==
  /\ pc = "client"
  /\ Fresh(r, cs)
  /\ supported_by[p] \in cs
  /\ assign(r, tv[p], supported_by[p], fringe)
  /\ moving' = <<p, cs, r>>
  /\ pc' = "transfer_clauses"
  /\ verdict' = "none"
  /\ UNCHANGED <<theoryVars, supports, undo_list, traceVars, unsettled>>

(* ... then it takes the place of p ... *)
move_support_transfer ==
  /\ pc = "transfer_clauses"
  /\ transfer_clauses(moving[1], moving[3], moving[2], FALSE)
  /\ pc' = "unassign"
  /\ UNCHANGED <<clauses, deleted, fringe, unsatisfied, tv, supported_by, undo_list,
                 traceVars, verdict, moving, unsettled>>

(* ... and p loses its value; undo_propagations follows. *)
move_support_unassign ==
  /\ pc = "unassign"
  /\ unassign(moving[1])
  /\ moving' = <<>>
  /\ pc' = "remove"
  /\ UNCHANGED <<theoryVars, traceVars, verdict, unsettled>>

SpliceInit == Init /\ moving = <<>> /\ unsettled = {}

SpliceRun ==
  \/ Run /\ UNCHANGED <<moving, unsettled>>
  \/ move_support_transfer
  \/ move_support_unassign

SpliceNext ==
  \/ Call /\ UNCHANGED <<moving, unsettled>>
  \/ \E s \in Splices, cs \in SUBSET TransitionClauses :
       move_support_unsupported(s[1], cs, s[2]) \/ move_support(s[1], cs, s[2])
  \/ SpliceRun

(* A call that was made runs. *)
SpliceSpec == SpliceInit /\ [][SpliceNext]_spliceVars /\ WF_spliceVars(SpliceRun)

-----------------------------------------------------------------------------
(* move_support, in each of its cases: between calls the count, satisfying
   proposition and place in the fringe or among the unsatisfied clauses are those
   that the truth values give, but for clauses that the second case left wrong. *)
CachesExactAfter == pc = "client" => CachesExactBut(unsettled)

(* move_support: "that support and truth value is given to new_prop" (ltms.h).
   Between calls every value has a clause that forces it, and which knows.  (Not
   so after the second case: the value of another proposition may rest on a clause
   where p was false, and where now r has no value.) *)
JustificationsExactAfter == pc = "client" => JustificationsExact

=============================================================================
