------------------------------ MODULE TSystem ------------------------------
(***************************************************************************)
(* The transition system of Livingstone2 (mba/cpp/src/transition): time    *)
(* steps, the transitions and failures of the component modes between      *)
(* them, and the truncation of the history.                                *)
(*                                                                         *)
(* A candidate names the values of the transition variables that are not   *)
(* nominal, and possibly a value of the state variable, which stands for   *)
(* all that was before the horizon.  The clauses between two time steps    *)
(* determine the mode at the later one, so the theory is given by what it  *)
(* derives: the run of modes of a component.  Unit propagation finds a     *)
(* contradiction just when no run agrees with the observations.            *)
(*                                                                         *)
(* The search is what tracker.h says of any Tracker, and CBFSProofs        *)
(* proves of one: it finds the lightest consistent candidates, up to its   *)
(* limits.  The progress style is full_progress, the default.              *)
(*                                                                         *)
(* An operator named X_Y is the mutated form Y of the definition X, for    *)
(* the mutation runs; no specification uses it.                            *)
(***************************************************************************)
EXTENDS Integers, Sequences, SequencesExt, FiniteSets, FiniteSetsExt

CONSTANTS
  Component,                 \* the components, each with a mode variable
  Mode,                      \* the values of the mode variables
  Command,                   \* the values of the command variable
  IDLE,                      \* the null command assignment
  Reading,                   \* the values of the observables, one per component
  NONE,                      \* no value: unassigned, unknown
  STATE_VAR,                 \* the id of the state variable
  initial,                   \* the mode of each component in the initial state
  nominal,                   \* its next mode, by the command and its mode
  failure,                   \* the modes that its failures lead to
  cost,                      \* the weights of its failures
  shows,                     \* the reading that goes with each mode
  max_history_length,
  max_truncated_candidates,
  number_tracked,            \* the limit of the tracker
  ReviseObservations,        \* may the client change what a search has used?
  MaxTime,                   \* bound on the time steps
  MaxFailures,               \* bound on the failures in a candidate
  MaxConflicts               \* bound on the conflicts that are recorded

ASSUME ModelAssumption ==
  /\ IsFiniteSet(Component)
  /\ initial \in [Component -> Mode]
  /\ nominal \in [Component -> [Command -> [Mode -> Mode]]]
  /\ \A x \in Component : /\ failure[x] \in Seq(Mode)
                          /\ cost[x] \in Seq(Nat)
                          /\ Len(cost[x]) = Len(failure[x])
  /\ shows \in [Component -> [Mode -> Reading]]
  /\ NONE \notin Mode \cup Reading /\ IDLE \notin Command /\ STATE_VAR \notin Component

(* Tracker::Tracker asserts the minimum; 0 would be no truncation. *)
ASSUME LimitAssumption ==
  /\ {max_history_length, MaxTime} \subseteq Nat \ {0}
  /\ {max_truncated_candidates, number_tracked, MaxFailures, MaxConflicts} \subseteq Nat
  /\ ReviseObservations \in BOOLEAN

VARIABLES
  timestep,          \* T_system::timestep, the number of the NOW step
  oldest_timestep,   \* T_system::oldest_timestep
  command,           \* the command at each past time step (all of them: history)
  observed,          \* the observations at each time step that is kept, and NOW
  state,             \* the values of the state variable, with what summarizes them
  candidates,        \* Conflict_db::candidates
  conflicts,         \* Conflict_db::conflicts
  pending,           \* the command whose progress is under way, NONE if none is
  searched           \* history: has a search used the observations of NOW?

timeVars == <<timestep, oldest_timestep, command, observed>>
vars == <<timeVars, state, candidates, conflicts, pending, searched>>

-----------------------------------------------------------------------------
(* Variables, assignments and candidates *)

(* The time of the transition into the first step that is kept: (unsigned)-1,
   which compares greater than any time step. *)
BEFORE_HORIZON == MaxTime + 1

(* The first time step with a mode variable; there is none at time 0. *)
First == IF oldest_timestep = 0 THEN 1 ELSE oldest_timestep

Steps == First..timestep

(* An assignment names its variable by id and time.  Value 0 of a transition is
   nominal; the state variable has the time of the horizon. *)
TransitionTimes == (First..(timestep - 1)) \cup {BEFORE_HORIZON}

StateAssignment == {<<STATE_VAR, oldest_timestep, i>> : i \in DOMAIN state}

Failures == UNION {{<<x, t, v>> : t \in TransitionTimes, v \in DOMAIN failure[x]} :
                     x \in Component}

Nominals == {<<x, t, 0>> : x \in Component, t \in TransitionTimes}

Assignment == StateAssignment \cup Failures \cup Nominals

(* At most one value for each transition, and for the state. *)
Candidate ==
  {c \cup s : c \in {f \in UNION {kSubset(n, Failures) : n \in 0..MaxFailures} :
                       \A a, b \in f : a[1] = b[1] /\ a[2] = b[2] => a = b},
              s \in {{}} \cup {{a} : a \in StateAssignment}}

(* The value that the candidate gives the transition variable, once installed. *)
transition(c, x, t) ==
  IF \E a \in c : a[1] = x /\ a[2] = t
  THEN (CHOOSE a \in c : a[1] = x /\ a[2] = t)[3]
  ELSE 0

(* The value of the state variable; its default is the first. *)
stateOf(c) ==
  IF \E a \in c : a[1] = STATE_VAR THEN (CHOOSE a \in c : a[1] = STATE_VAR)[3] ELSE 1

assignmentWeight(a) == IF a[1] = STATE_VAR THEN state[a[3]].weight ELSE cost[a[1]][a[3]]

get_weight(c) == MapThenSumSet(assignmentWeight, c)

(* What all assumptions are assigned after install. *)
install(c) ==
  c \cup {<<STATE_VAR, oldest_timestep, stateOf(c)>>}
    \cup {a \in Nominals : transition(c, a[1], a[2]) = 0}

-----------------------------------------------------------------------------
(* The theory: the runs of modes that the clauses allow *)

(* idle adds clauses that keep the mode; a command has those of its prototypes. *)
nextMode(x, k, m) == IF k = IDLE THEN m ELSE nominal[x][k][m]

(* The modes of the component from mode m at step s on. *)
course(c, x, s, m) ==
  LET mode[t \in s..timestep] ==
        IF t = s THEN m
        ELSE IF transition(c, x, t - 1) # 0
             THEN failure[x][transition(c, x, t - 1)]
             ELSE nextMode(x, command[t - 1], mode[t - 1])
  IN  mode

(* Clauses for the first mode exist only if some state value was summarized. *)
horizonHasClauses(x) == \E i \in DOMAIN state : state[i].mode[x] # NONE

firstModes(c, x) ==
  IF transition(c, x, BEFORE_HORIZON) # 0
  THEN IF horizonHasClauses(x) THEN {failure[x][transition(c, x, BEFORE_HORIZON)]}
                               ELSE Mode
  ELSE IF state[stateOf(c)].mode[x] # NONE THEN {state[stateOf(c)].mode[x]} ELSE Mode

contradicted(x, t, m) == observed[t][x] \notin {NONE, shows[x][m]}

runs(c, x) ==
  {r \in {course(c, x, First, m) : m \in firstModes(c, x)} :
     \A t \in Steps : ~contradicted(x, t, r[t])}

IsConsistent(c) == \A x \in Component : runs(c, x) # {}

(* The assignments that are nominal from step s up to step t. *)
nominalFrom(x, s, t) == {<<x, j, 0>> : j \in s..(t - 1)}

(* The assignments that the LTMS may answer with for a contradiction at step t:
   the failure or the state value that the mode comes from and the nominal
   transitions since, or these alone if no mode at their start does. *)
nogoodsAt(x, t) ==
  LET wrong(s, m) == contradicted(x, t, course({}, x, s, m)[t]) IN
  {{<<x, p[1], p[2]>>} \cup nominalFrom(x, p[1] + 1, t) :
     p \in {q \in (First..(t - 1)) \X DOMAIN failure[x] :
              wrong(q[1] + 1, failure[x][q[2]])}}
  \cup
  {{<<x, BEFORE_HORIZON, v>>} \cup nominalFrom(x, First, t) :
     v \in {w \in DOMAIN failure[x] :
              horizonHasClauses(x) /\ wrong(First, failure[x][w])}}
  \cup
  {{<<STATE_VAR, oldest_timestep, i>>, <<x, BEFORE_HORIZON, 0>>} \cup nominalFrom(x, First, t) :
     i \in {j \in DOMAIN state :
              state[j].mode[x] # NONE /\ wrong(First, state[j].mode[x])}}
  \cup
  {nominalFrom(x, s, t) :
     s \in {s \in First..t : \A r \in {course({}, x, s, m) : m \in Mode} :
              \E u \in s..t : contradicted(x, u, r[u])}}

Nogoods == UNION {nogoodsAt(x, t) : x \in Component, t \in Steps}

-----------------------------------------------------------------------------
(* The tracker *)

(* What a search may leave that starts from the given candidates: consistent
   ones that extend them, none extending an earlier one, and no lighter one that
   does not was passed over.  It may stop at one of its limits at any time. *)
findResults(seeds) ==
  LET found == {c \in Candidate : (\E s \in seeds : s \subseteq c) /\ IsConsistent(c)}
      rank == [c \in found |-> get_weight(c)]
  IN  {list \in UNION {[1..n -> found] : n \in 0..number_tracked} :
         \A i \in DOMAIN list :
           /\ \A j \in 1..(i - 1) : ~(list[j] \subseteq list[i])
           /\ \A c \in found : rank[c] < rank[list[i]] =>
                \E j \in 1..(i - 1) : list[j] \subseteq c}

FreshSeeds == {{a} : a \in StateAssignment}

resolves(a, k) == a \notin k /\ \E b \in k : a[1] = b[1] /\ a[2] = b[2]

(* The inconsistent candidates that a search may come to: it goes on from one
   that is inconsistent, with assignments that resolve a conflict. *)
rejected(seeds) ==
  LET dead == {s \in seeds : ~IsConsistent(s)}
      nogoods == Nogoods
  IN  {c \in Candidate :
         /\ \E s \in dead : /\ s \subseteq c
                           /\ \A a \in c \ s : \E k \in nogoods : resolves(a, k)
         /\ ~IsConsistent(c)}

(* What add_conflict may add for inconsistent candidates.  Of the conflicts that
   are found any MaxConflicts are recorded: no property relates more of them. *)
NewConflicts(inconsistent) ==
  IF Cardinality(conflicts) = MaxConflicts THEN {{}}
  ELSE LET installed == {install(c) : c \in inconsistent}
       IN  {{}} \cup {{k} : k \in {n \in Nogoods : \E i \in installed : n \subseteq i}}

searchLeaves(lists, inconsistent) ==
  /\ \E list \in lists, new \in NewConflicts(inconsistent) :
       /\ candidates' = list
       /\ conflicts' = conflicts \cup new
  /\ searched' = TRUE
  /\ UNCHANGED <<timeVars, state>>

search(seeds) == searchLeaves(findResults(seeds), rejected(seeds))

extend_candidates ==
  /\ pending = NONE
  /\ search(IF candidates = <<>> THEN {{}} ELSE ToSet(candidates))
  /\ UNCHANGED pending

find_fresh_candidates ==
  /\ pending = NONE
  /\ search(FreshSeeds)
  /\ UNCHANGED pending

prune_inconsistent_candidates ==
  LET kept[j \in 0..Len(candidates)] ==
        IF j = 0 THEN <<>>
        ELSE IF IsConsistent(candidates[j]) THEN Append(kept[j - 1], candidates[j])
                                            ELSE kept[j - 1]
  IN  kept[Len(candidates)]

(* Tracker::prune_and_search *)
pruneAndSearch ==
  LET pruned == {c \in ToSet(candidates) : ~IsConsistent(c)} IN
  /\ pending = NONE
  /\ IF prune_inconsistent_candidates # <<>>
     THEN searchLeaves({prune_inconsistent_candidates}, pruned)
     ELSE searchLeaves(findResults(FreshSeeds), pruned \cup rejected(FreshSeeds))

prune_and_search == pruneAndSearch /\ UNCHANGED pending

-----------------------------------------------------------------------------
(* Truncation *)

history_full == oldest_timestep + max_history_length <= timestep

get_horizon_Late == IF max_history_length > timestep THEN 0
                                                     ELSE timestep - max_history_length

get_horizon == IF max_history_length > timestep THEN 0
                                                ELSE timestep - max_history_length + 1

isTruncated(a, h) == a[2] < h \/ a[2] = BEFORE_HORIZON

discovered_NextStep(c, x, h) ==
  LET values == {r[h + 1] : r \in runs(c, x)}
  IN  IF Cardinality(values) = 1 THEN values ELSE {NONE}

(* The values of mode variables that set_initial_mode may discover at step h:
   known if the candidate has one run, unknown if its runs differ there. *)
discovered(c, x, h) ==
  LET values == {r[h] : r \in runs(c, x)}
  IN  IF Cardinality(values) = 1
      THEN values \cup (IF Cardinality(runs(c, x)) = 1 THEN {} ELSE {NONE})
      ELSE {NONE}

(* What summarize_variables may make of the candidate. *)
summaries(c, h) ==
  {m \in [Component -> Mode \cup {NONE}] : \A x \in Component : m[x] \in discovered(c, x, h)}

(* The clauses for failures before the new horizon are added while the old ones
   still stand, with the first candidate whose mode is known there.  Once they
   are, an old failure must leave its mode at the new horizon as well. *)
agreesWithNewClauses(c, h, xs) ==
  \A x \in xs : transition(c, x, BEFORE_HORIZON) # 0 =>
    \E r \in runs(c, x) : r[h] = failure[x][transition(c, x, BEFORE_HORIZON)]

(* The indices of the candidates that the loop of truncate keeps, in order, when
   summary[j] is discovered for the j-th. *)
keptCandidates(h, limit, summary) ==
  LET clauses(done) == {x \in Component : \E i \in ToSet(done) : summary[i][x] # NONE}
      kept[j \in 0..Len(candidates)] ==
        IF j = 0 THEN <<>>
        ELSE IF /\ Len(kept[j - 1]) < limit
                /\ IsConsistent(candidates[j])
                /\ agreesWithNewClauses(candidates[j], h, clauses(kept[j - 1]))
             THEN Append(kept[j - 1], j)
             ELSE kept[j - 1]
  IN  kept[Len(candidates)]

(* Trajectory::Parts.  A failure before the horizon is kept with the oldest time
   step at that time, which is history: the code has only its time, -1. *)
parts(c) ==
  {IF a[2] = BEFORE_HORIZON THEN <<a[1], a[2], a[3], oldest_timestep>> ELSE a :
     a \in {b \in c : b[1] # STATE_VAR}}

(* History: does a candidate name where it comes from, back to the initial state?
   One that leaves the state variable at its default is taken to come from a
   state of no weight. *)
isExplained(c) ==
  /\ state[stateOf(c)].explained
  /\ c \cap StateAssignment # {} \/ state[1].weight = 0

summarized_NewFailuresOnly(c, h, modes) ==
  LET old == {a \in c : isTruncated(a, h)}
  IN  [mode |-> modes,
       weight |-> get_weight(parts(old) \cap c),
       trajectory |-> state[stateOf(old)].trajectory \cup parts(old),
       explained |-> isExplained(c)]

(* One value of the state variable: put_candidate_in_trajectory,
   summarize_variables and the weight that Candidate::truncate sets. *)
summarized(c, h, modes) ==
  LET old == {a \in c : isTruncated(a, h)}
  IN  [mode |-> modes,
       weight |-> get_weight(old),
       trajectory |-> state[stateOf(old)].trajectory \cup parts(old),
       explained |-> isExplained(c)]

(* A value of the state variable that no candidate came to be summarized as. *)
unsummarized == [mode |-> [x \in Component |-> NONE], weight |-> 0, trajectory |-> {},
                 explained |-> FALSE]

(* Candidate::truncate *)
truncateCandidate(c, h, i) == {a \in c : ~isTruncated(a, h)} \cup {<<STATE_VAR, h, i>>}

conflict_is_old_Entirely(k, h) == \A a \in k : a[2] < h

conflict_is_old(k, h) == \E a \in k : a[2] < h

truncateWithCandidates(h) ==
  LET n == Len(candidates)
      limit == IF max_truncated_candidates # 0 /\ n > max_truncated_candidates
               THEN max_truncated_candidates ELSE n
  IN  \E summary \in {s \in [1..n -> UNION {summaries(candidates[j], h) : j \in 1..n}
                                       \cup {unsummarized.mode}] :
                        \A j \in 1..n : IF IsConsistent(candidates[j])
                                        THEN s[j] \in summaries(candidates[j], h)
                                        ELSE s[j] = unsummarized.mode} :
        LET kept == keptCandidates(h, limit, summary) IN
        /\ state' = [i \in 1..limit |->
                       IF i <= Len(kept)
                       THEN summarized(candidates[kept[i]], h, summary[kept[i]])
                       ELSE unsummarized]
        /\ candidates' = [i \in 1..Len(kept) |->
                            truncateCandidate(candidates[kept[i]], h, i)]

(* With no candidate the observations are unassigned and every value of the new
   state variable gets the modes of whatever was tried last, where they still
   have support.  Weights and trajectories stay empty. *)
leftovers(c, h) ==
  {modes \in [Component -> Mode \cup {NONE}] :
     \A x \in Component :
       \/ modes[x] = NONE
       \/ \E m \in Mode : firstModes(c, x) = {m} /\ modes[x] = course(c, x, First, m)[h]}

truncateWithoutCandidates(h) ==
  /\ state' \in {[i \in DOMAIN state |-> [unsummarized EXCEPT !.mode = modes]] :
                  modes \in UNION {leftovers(c, h) : c \in Candidate}}
  /\ UNCHANGED candidates

(* T_system::truncate with its calls of remove_old_variables and
   install_new_state.  The latter's sort leaves the values as they are. *)
truncate(h) ==
  /\ IF candidates = <<>> THEN truncateWithoutCandidates(h)
                          ELSE truncateWithCandidates(h)
  /\ conflicts' = {k \in conflicts : ~conflict_is_old(k, h)}
  /\ oldest_timestep' = h

-----------------------------------------------------------------------------
(* The calls of the client *)

(* The observations once the NOW step is copied at the time step that ends and
   the steps before the horizon are gone.  The observables keep their values. *)
copyNow(h) ==
  [t \in {u \in Steps : u >= h} \cup {timestep + 1} |->
     observed[IF t > timestep THEN timestep ELSE t]]

(* T_system::progress: truncate_if_needed, a copy of the NOW variables at the
   time step that ends, and the transition of the modes. *)
progress ==
  /\ pending # NONE
  /\ IF history_full /\ get_horizon > oldest_timestep
     THEN truncate(get_horizon)
     ELSE UNCHANGED <<state, candidates, conflicts, oldest_timestep>>
  /\ command' = Append(command, pending)
  /\ observed' = copyNow(oldest_timestep')
  /\ timestep' = timestep + 1
  /\ pending' = NONE
  /\ searched' = FALSE

(* Livingstone::command and idle prune first, and then progress. *)
command_or_idle ==
  /\ timestep < MaxTime
  /\ pruneAndSearch
  /\ pending' \in Command \cup {IDLE}

(* The COMMAND of the real-time API goes straight to progress. *)
parse_msg_COMMAND ==
  /\ timestep < MaxTime
  /\ pending = NONE
  /\ pending' \in Command
  /\ UNCHANGED <<timeVars, state, candidates, conflicts, searched>>

observe(x, r) ==
  /\ pending = NONE
  /\ observed[timestep][x] # r
  /\ ReviseObservations \/ ~searched
  /\ observed' = [observed EXCEPT ![timestep][x] = r]
  /\ UNCHANGED <<timestep, oldest_timestep, command, state, candidates, conflicts,
                 pending, searched>>

-----------------------------------------------------------------------------

(* to_t_system::createInitialState, and the empty candidate of the tracker. *)
Init ==
  /\ timestep = 1
  /\ oldest_timestep = 0
  /\ command = <<>>
  /\ observed = [t \in {timestep} |-> [x \in Component |-> NONE]]
  /\ state = <<[mode |-> initial, weight |-> 0, trajectory |-> {},
              explained |-> TRUE]>>
  /\ candidates = <<{}>>
  /\ conflicts = {}
  /\ pending = NONE
  /\ searched = FALSE

Next ==
  \/ extend_candidates
  \/ find_fresh_candidates
  \/ prune_and_search
  \/ progress
  \/ command_or_idle
  \/ parse_msg_COMMAND
  \/ \E x \in Component, r \in Reading \cup {NONE} : observe(x, r)

Spec == Init /\ [][Next]_vars

-----------------------------------------------------------------------------
(* Properties *)

(* Every variable has a value of its kind, and truncate_if_needed keeps the history
   within its limit. *)
TypeOK ==
  /\ timestep \in 1..MaxTime
  /\ oldest_timestep \in 0..timestep
  /\ timestep - oldest_timestep <= max_history_length
  /\ command \in Seq(Command \cup {IDLE})
  /\ observed \in [Steps -> [Component -> Reading \cup {NONE}]]
  /\ \A i \in DOMAIN state : /\ state[i].mode \in [Component -> Mode \cup {NONE}]
                             /\ state[i].weight \in Nat
                             /\ state[i].explained \in BOOLEAN
  /\ pending \in Command \cup {IDLE, NONE}
  /\ searched \in BOOLEAN

(* remove_old_variables deletes variables: what candidates and conflicts refer
   to exists. *)
NoneDangling ==
  /\ \A i \in DOMAIN candidates : candidates[i] \subseteq Assignment
  /\ \A k \in conflicts : k \subseteq Assignment

(* The failures that a candidate stands for, before the horizon and since. *)
history(c) == state[stateOf(c)].trajectory \cup parts(c)

(* The modes that follow from the initial ones by all commands and failures. *)
replay(H, x) ==
  LET horizonFailure(t) == {a \in H : Len(a) = 4 /\ a[1] = x /\ a[4] = t}
      stepFailure(t) == {a \in H : Len(a) = 3 /\ a[1] = x /\ a[2] = t}
      target(S) == failure[x][(CHOOSE a \in S : TRUE)[3]]
      mode[t \in 1..timestep] ==
        IF horizonFailure(t) # {} THEN target(horizonFailure(t))
        ELSE IF t = 1
             THEN IF horizonFailure(0) # {} THEN target(horizonFailure(0)) ELSE initial[x]
             ELSE IF stepFailure(t - 1) # {} THEN target(stepFailure(t - 1))
                  ELSE nextMode(x, command[t - 1], mode[t - 1])
  IN  mode

(* truncate: a candidate has, at every step that is left, the modes to which its
   failures lead from the initial state on, however often it was truncated. *)
TruncationKeepsModes ==
  \A i \in DOMAIN candidates : \A x \in Component :
    isExplained(candidates[i]) =>
      \A r \in runs(candidates[i], x) : \A t \in Steps :
        r[t] = replay(history(candidates[i]), x)[t]

(* Candidate::truncate: a candidate weighs what its failures weigh, those before
   the horizon included. *)
TruncationKeepsWeight ==
  \A i \in DOMAIN candidates :
    isExplained(candidates[i]) => get_weight(candidates[i]) =
      MapThenSumSet(LAMBDA a : cost[a[1]][a[3]], history(candidates[i]))

(* conflict.h: a conflict is "a set of Assignments that cannot all be true at
   once". *)
ConflictsHold ==
  \A k \in conflicts : \A c \in Candidate :
    k \subseteq install(c) /\ isExplained(c) => ~IsConsistent(c)

=============================================================================
