# Livingstone2 in TLA+

Livingstone2 (L2) is a model-based diagnosis engine.  It keeps a propositional
theory of a system, over a moving window of time steps, asserts the commands
and observations it is told, and when the theory becomes inconsistent searches
for the most likely combinations of component failures (candidates) that
explain what was seen.  The engine is the C++ program under `mba/cpp`; this
directory specifies the parts of it that carry state through time, checks them
with TLC and proves their main properties with TLAPS.

## 1. Inventory

### Parts and their state

| part | source (`mba/cpp/src`) | state | operations |
|---|---|---|---|
| truth maintenance | `tms/` (`ltms`, `clause`, `proposition`, `ptheory`) | clauses with cached counts and flags, propositions with truth value and justification, two fringes of unit clauses, list of unsatisfied clauses, undo list, visit stamps | `create_clause`, `add`, `remove`, `finish_destroying`, `propagate`, `partial_propagate`, `last_conflict`, `move_support` |
| conflict database | `conflict_db/` | variables with members (propositions), assignables with ranked assignments (unit clauses), conflicts indexed by assignable, candidates | `assign`, `unassign`, `conflict`, `add_conflict`, `deleteNewestConflicts`, candidate `install`/`uninstall` |
| best-first search | `opsat/` | agenda (binary heap), best candidates, search limits | `find_candidates`, `generate_successor`, `terminate_search` |
| conflict coverage | `cover/` | the rank `gamma` reached, candidates | `rho_coverage`, `find_fresh_candidates`, `find_candidates` |
| transition system | `transition/` | current time, per-time copies of variables and clauses, transitioned variables, candidate equivalence classes | `progress`, `observe`, `prune_and_search`, `truncate`, `splice`, `remove_old_variables`, `install_new_state` |
| API | `api/` | command and error state of the facade, parameters | `command`, `observe`, `find_candidates`, `warp` |
| real-time API | `realtime_api/posix` (and ports to win32, vxworks) | bounded message queue, timer count, threads | `queue_...`, `~L2_rtapi`, dispatcher loop, timeout handlers |
| containers | `mba_utils/`, `include/mba_utils` | array, slist, binary heap, pool allocator, string tools | |
| readers, checkpoint, debuggers, livdll, liv_utils | the rest | files, text, UI glue | parsing, printing, persistence |

Livingstone calls the tracker; the tracker (`T_system`) extends, splices and
truncates the theory held by its `Conflict_db`, which owns the LTMS; the search
installs candidates (adds and removes assumption clauses), asks the LTMS to
propagate and turns inconsistencies into conflicts.  All of that runs in one
thread.  The real-time API puts a queue and a dispatcher thread in front of it
and starts one timer thread per timed command.

### What is hard here

* The LTMS is incremental: four routines repair the same caches from different
  sides (`add`, `remove`, `assign`, `unassign`), a clause may hold both signs
  of a proposition, implications may form cycles, and `remove` finds what to
  retract only through the pointers that earlier propagations left.
* A conflict must be a nogood, or the search discards the true diagnosis
  silently.  The visit stamps that bound the trace are reused after 65535
  traces.
* A time step that ends takes over the clauses, support and values of the present
  while other values stand on them (`move_support`).
* The history is truncated: the past of each candidate becomes a value of the
  state variable, with a weight and a trajectory, variables are deleted, and
  conflicts that mention them must go (`truncate`).  The transitions before the
  horizon have the time (unsigned)-1 and outlive every truncation.
* The coverage search deepens from where it ended before, and computes with
  unsigned costs.
* The search stops at limits (candidates, classes, rejects, size) and drops what
  newer conflicts subsume.
* The queue is full, or a timer expires while its own call is still in progress,
  or the destructor runs while timers and the dispatcher are still active.

### What makes each part correct

* tms: values are entailed by the clauses of the theory at that moment; support
  is well founded; `false` from `propagate` means there is no model; `true` means
  the closure under unit propagation was reached; a conflict is a set of
  assumptions that cannot hold together with the background theory.
* conflict_db and search: every candidate that is returned resolves every known
  conflict, comes in rank order, and none below the limits is missed.
* transition: the theory after truncation admits the same current states as the
  one before; candidate classes agree with their members.
* real-time API: messages are applied once, in order; shutdown drains the queue
  and ends.

## 2. Plan

Done so far, in this order (sections 3 to 7 describe it):

1. `LTMS`, the truth maintenance system under all the rest, with its proofs in
   `LTMSProofs`.
2. `RTAPI`, the one part with threads, with `RTAPIProofs`.
3. `ConflictDB`, candidates and conflicts over an LTMS reduced to what
   `LTMSProofs` proves, and `CBFS`, the search that uses them, with the tracker
   that starts it; its proofs in `CBFSProofs`.
4. `PriorityQueue` and `BinaryHeap`: the agenda's heap implements the queue
   that `CBFS` takes for granted, as `BinaryHeapProofs` proves.
5. `TSystem`: time steps, commands, failures and truncation, composed with the
   search as `tracker.h` specifies it, with `TSystemProofs`.
6. `LTMSSplice`: `move_support` and `transfer_clauses` among the other calls of
   `LTMS`, with `LTMSSpliceProofs`.
7. `Cover`, the other search, on top of `ConflictDB`, with `CoverProofs`.

To come, most important first:

8. `Fringe`: the array with back indices behind the fringe, as a refinement of
   the set that `LTMS` has in its place.
9. An assignable's values clause by clause over the LTMS, and the conflict lists
    of the assignables.

## 3. The modules and the code

In every module an operator named `X_Y` is the mutated form Y of the definition
X.  No specification uses one; they serve to show that each property can be
broken by a plausible slip in the code.  `PROJECT.json` lists, for every
definition, the lines that it models.

The proofs about a module are in modules of their own (section 6).
`DataLemmas` has what they need about data: induction over the naturals, over sizes
and over the parts of a finite set, the existence of recursive functions and of the
fixpoint that a loop reaches, sums over finite sets, and loops that collect a list.

### LTMS (`tms/`)

The variables are the fields of `Clause`, `Proposition`, `Ptheory` and `LTMS`,
under the same names: `num_unassigned`, `satisfying_prop` and `supports` of a
clause, the truth value `tv` and `supported_by` of a proposition, `fringe`,
`unsatisfied`, `undo_list`, the visit `stamp`s, and the `stack` and `conflict` of
a trace.  `pc` names the call in progress and `verdict` what the last call
answered.

Each public operation is an action (`create_clause`, `add`, `remove`,
`finish_destroying`, `propagate`, `last_conflict`); an operation that loops
takes one step per turn of its loop (`undo_propagations`, `propagate_clause`,
`get_clause_support`) and a step to return.  `assign` and `unassign` repair the
caches of all clauses of a proposition and are part of the action that calls
them.

Abstractions: the arrays and lists are sets, so the model takes their elements
in any order, with the one order that the code does promise kept: clauses of the
non-volatile fringe go before those of the volatile one.  A clause is a set of
literals; a proposition may occur with both signs.  The client obeys what
`Conflict_db` obeys: it adds a clause once, asks for a conflict only when a
clause is unsatisfied, and destroys propositions together with their clauses.

### LTMSSplice (`tms/`, `transition/`)

`T_system::splice` calls `move_support` for each value of a mode when a time step
ends: in the clauses that lead to the present from the step before, the variable
of the step that ends takes the place of the one of the present.  The module adds
this call to `LTMS`.  `move_support_unsupported` is the first two of its cases;
the third is three steps, which assign the new proposition (`move_support`), swap
the literals (`move_support_transfer`) and take the value from the old one
(`move_support_unassign`), and then `undo_propagations` of `LTMS`.  The variable
`moving` has the arguments.  `Clause::supports` is an index in the code, so the
proposition that takes over a literal takes over being supported.

Which clauses are moved is any set of clauses of two or more literals: a
generalisation of the transition clauses of one mode.  With `LeaveSupport = FALSE`
the second case is left out, in which the old proposition keeps the value it has
from a clause that is not moved; what happens then is finding 1.  The history
variable `unsettled` has the moved clauses whose caches that case leaves wrong:
those that the old proposition satisfied, which now name one without a value, and
those in the fringe or unsatisfied, whose count has grown.  CachesExactAfter allows
for these and no others.

### RTAPI (`realtime_api/posix`)

Three kinds of threads: the caller, which also runs the destructor; the
dispatcher; a timer per timed call.  `messages`, `timeout_handlers` and
`timeout_handlers_mutex` are the fields of `GuardedQueue`; `waiting` holds the
wait set of each condition variable, `pc` each thread's place, `held` the message
in its hands, and `applied` (a history) what the tracker was handed.

A critical section of `queue_items_mutex` is one step.  The other mutex has an
owner, because `is_done_empty` waits with a mutex that it never locked:
`pthread_cond_wait` then releases it for whoever holds it and returns owning
it.  For the same reason `decrement_timeouts` is three steps: its mutex can be
taken away between its read and its write.  Spurious wakeups happen, as POSIX
allows.  The dispatcher's cancellation is asynchronous: it may strike between
any two of its steps.
Message contents, time and the length of a timer are left out: a sleeping timer
may wake at any moment.

### ConflictDB (`conflict_db/`)

A candidate is a set of assignments to assumptions; every other assumption has
its default.  The LTMS is replaced by the contract that `LTMSProofs` proves: a
`theory` is a set of nogoods, each in force while certain observations stand;
`propagate` fails exactly when an installed candidate holds a nogood in force,
and a conflict is such a nogood.  (The code's `propagate` is incomplete, being
unit propagation.  A theory here is what it detects.)  `conflict` and
`add_conflict` may return a recorded conflict in place of the one found.  `CBFS`
and `Cover` extend this module; NotRuledOut is the reference both are compared
with.

### CBFS (`opsat/`, `transition/`)

`find_consistent_candidates` takes one step per turn of the loop of
`next_consistent_candidate`: pop, install, propagate, and then either track the
candidate and insert the sibling, or record the conflict and insert child and
sibling.  `terminate_search` and `EnoughFound` are the ways out.  The tracker's
three entries (`extend_candidates`, `find_fresh_candidates`,
`prune_and_search`) start the same loop; `prune_inconsistent_candidates` and
`partition` take one step per turn.  `seeds`, a history variable, remembers what
the search began with.

Abstractions: the agenda is a bag from which a lightest element is popped; the
sorted list of remaining assignments is a set from which the lightest useful
one is taken (entries that have become useless linger in it and are never
picked, as in the code).  Ties are free choices.  Weights are naturals, positive
for values other than the default, as `assumption.h` asks, and sums do not
overflow; but a value of the state variable, the default included, has any weight,
since truncation gives it that of the past it stands for (`candidate.cpp:95`).

### BinaryHeap, PriorityQueue

`BinaryHeap` has the array of `binaryheap.h` with its 0-based children.  Each call is
one step; its loop is a recursive function of the array and the index, `siftUp` for
`insert` and `heapify` for `pop`, and a turn of it is an operator (`raise`, `lower`).  `PriorityQueue` is what
it promises: a set, an `insert`, and a `pop` that returns a first element.

### Cover (`cover/`)

`find_fresh_candidates` raises `gamma` and runs `rho_coverage` until a candidate
passes.  The recursion `rho_coverage_aux` is a recursive function of the conflicts, the
cost left and the marked variables (`coverage` is what one call makes of the results
of those below it); the installation and test of each candidate
it yields is a step (`filter`), since each may add a conflict that the next
round has to cover.  Costs are unsigned: `next_rho` is a difference modulo
`WeightModulus`, and is never negative.  The list of candidates comes out of a
hash table, so it is a set here.  `covered`, a history variable, has the
conflicts a round set out to cover.  `extend_candidates` throws, and is left out.

### TSystem (`transition/`, `api/`)

`timestep` and `oldest_timestep` are those of `T_system`; `observed` has the
observations of the steps that are kept; `state` the values of the state
variable, each with the modes that its clauses give, its weight and its
trajectory; `candidates` and `conflicts` are those of the `Conflict_db`.  The
actions are the client's calls.  `command_or_idle` and `progress` are the two
halves of `Livingstone::command` and `idle`: the first prunes and searches, the
second truncates if the history is full, copies the present and moves the modes.
The real-time API's COMMAND goes to `progress` without pruning
(`parse_msg_COMMAND`), so `truncate` also meets candidates that are inconsistent.

The clauses between time steps determine a mode from the mode before, the command
and the transition variable, so the theory is modelled by what it derives: the
`course` of modes of a component from its first one, and the `runs` of a candidate
that the observations allow.  What `summarize_variables` finds in the LTMS is
`discovered`: the mode where there is one run, and anything that unit propagation
may or may not have derived where there are several.  A search leaves any list
that `tracker.h` permits (the lightest consistent candidates, up to a limit) and
may record a conflict for a candidate that it came by.  Truncation follows the
code's loop: candidates are kept in their order up to the limit, those found
inconsistent are dropped in passing, and the clauses for failures before the new
horizon exist from the first candidate on whose mode is known.  The two loops over
the candidates (`keptCandidates`, `prune_inconsistent_candidates`) are recursive
functions of the number of turns made.

A transition before the horizon has the time `BEFORE_HORIZON`, larger than any, as
the (unsigned)-1 of the code.  History variables and fields: `command` keeps the
commands of steps that are gone, a part of a trajectory the step at which its
failure was truncated, and `explained` says whether a state value goes back to the
initial state by named failures.  (It does not if no candidate was left when the
history was truncated, nor if a candidate without a state value is taken to come
from value 0 while that one stands for failures.)  The progress style is
`full_progress`, the default.

## 4. What the runs check

A run of TLC is `tlc -config <cfg> <module>`.  The times are minutes at most.

| run | module, cfg | checks |
|---|---|---|
| `ltms_two_props` | `MCLTMS`, `LTMS_small` | all safety properties of the LTMS |
| `ltms_splice` | `MCLTMSSplice`, `LTMSSplice_calls` | CachesExactAfter, JustificationsExactAfter, ConsistentMeansClosed, CallsReturn |
| `ltms_splice_closed` | `MCLTMSSplice`, `LTMSSplice_closed` | ConsistentMeansClosed is violated (finding 1) |
| `rtapi_interface` | `RTAPI`, `RTAPI_interface` | HeardInOrder, DoneMeansDrained, CallsReturn, EveryCallApplied, DestructorReturnsWhenIdle |
| `rtapi_lost_wakeup` | `RTAPI`, `RTAPI_hang` | DestructorReturns is violated (finding 2) |
| `cbfs_search` | `MCCBFS`, `CBFS_search` | all properties of the search |
| `cbfs_revised_observation` | `MCCBFS`, `CBFS_revised` | BestFirst is violated when observations are revised (finding 3) |
| `heap_is_queue` | `MCBinaryHeap`, `BinaryHeap` | IsPriorityQueue |
| `tsystem_truncation` | `MCTSystem`, `TSystem_truncation` | NoneDangling, TruncationKeepsModes, TruncationKeepsWeight |
| `tsystem_conflicts_hold` | `MCTSystem`, `TSystem_ConflictsHold` | ConflictsHold is violated (finding 4) |
| `cover_search` | `MCCover`, `Cover_search` | CandidatesCover, SmallCoversFound, PassedAreConsistent, SearchReturns |
| `cover_cutoff` | `MCCover`, `Cover_CutoffMeansNoneLeft` | CutoffMeansNoneLeft is violated (finding 5) |

### Bounds

* `ltms_two_props`: two propositions, two ordinary clauses, each any of the 16
  sets of literals over them (the empty clause and tautologies included), and
  one assumption, which asserts a proposition; about 940,000 states.  This is enough for two
  implications that form a cycle and are entered from outside, for a value with
  two possible justifications, for a conflict through two clauses, and for a
  clause to be removed while what it supports is supporting others.
  `MAX_TIME_STAMP` is 1, so that every trace restarts the stamps.  The two
  ordinary clauses are symmetric.
* `ltms_splice`: the mode before, the mode now and the one that takes its place;
  a transition and its converse, which make a cycle, and units that give or refute a
  mode.  No symmetry, as befits a liveness check; about 173,000 states.
  `LeaveSupport` is FALSE here, so `unsettled` stays empty and the caches are exact
  without exception; the second case is in the theorem `CachesSurviveSplice` and in
  the next run.
  `ltms_splice_closed` needs one transition and one observation of its outcome.
* `rtapi_interface`: a queue of two and two calls, each with or without a timer:
  with the messages of the timers the queue fills, a timer expires before,
  during and after its own call, callers and timers wait for the same place, and
  the destructor meets zero to two timers.
* `cbfs_search`: four assumptions: one component at two time steps, one with two
  failure modes and the state variable with two pasts: the default one holds a
  failure and weighs 1, as after a truncation, the other holds and weighs nothing.
  NoneRedundant needs its exception here: {A2 = 1, S = 1} is found before {A2 = 1}.
  All theories of at most three of eight rules without limits, and
  all of six rules under limits on everything at once (3 candidates, 2 classes,
  weight 3, 4 nodes); two observations, each made at any moment between calls.
* `heap_is_queue`: nine items, with equal weights among them, in either order of
  the heap.  The code computes children as 2i and 2i+1 from index 0, so 0 is its
  own left child; nine items make paths of five nodes (0, 1, 2, 4, 8).
* `tsystem_truncation`: one valve, which a command opens, or frees when it is stuck;
  four time steps with a history of two, so that each candidate is truncated twice
  and a failure before the horizon is truncated again; two candidates, each with at
  most one failure besides those its state value stands for; one recorded conflict,
  any of those found (no property relates two).  About 105,000 states.
  The module takes any number of components, without constraints between them
  inside a time step; two are too many for TLC.  `max_truncated_candidates` is 0,
  no limit.
  `tsystem_conflicts_hold` starts with the valve open.
* `cover_search`: three components, one with two faults, of weights 1 to 3; all 256
  theories of eight rules, with all of which nothing explains the observations;
  limits of 0, 2 and 4 on the rank.  About 150,000 states.

### Fairness

* LTMS: weak fairness of `Run`.  A call is plain sequential code and goes on; the
  client need not make another.
* RTAPI: weak fairness of each thread and of the delivery of a cancellation,
  which is what the operating system gives.  Making a call or destroying the
  interface is the user's choice, and a spurious wakeup may never happen: neither
  is fair.  A thread in a wait set is not enabled: only a broadcast or a
  spurious wakeup takes it out.
* CBFS and Cover: weak fairness of `Search`, again sequential code.
* LTMSSplice: weak fairness of the calls in progress, `move_support` included.
* TSystem states no liveness: each call is one or two steps.

## 5. What was found

1. **A moved clause can be overlooked** (`ltms.cpp:792`).  Where the old proposition
   keeps its value, because a clause that stays behind gives it, `transfer_clauses`
   makes the new one, which has none, the satisfying proposition of a moved clause.
   The clause is unit, but `propagate` never sees it and answers that it is done.
   `full_progress` copies the constraints of the time step too and derives the
   value again; `minimal_progress` does not.
2. **The destructor can hang** (`guardedqueue.cpp:61`).  `is_done_empty` tests
   `timeout_handlers` without its mutex, then waits for `hzero_event`.  The last
   timer can decrement and broadcast in between.
3. **Conflicts outlive the observations they rest on** (`conflict_db.cpp:212`):
   after an observation is revised, `add_conflict` prefers a recorded subset
   that no longer is a conflict, and the lightest explanation is missed.
4. **Conflicts outlive the time steps they rest on** (`T_system.cpp:414`): the
   failures before the horizon have the time -1, which `conflict_is_old` takes for
   recent, although the same variable stands for later failures after the
   truncation.  The conflict then rules out what is possible.
5. **The coverage search gives up early** (`cover_tracker.cpp:37`): `gamma` never
   goes back, so repeated calls for fresh candidates return heavier and heavier
   ones and then none, with WEIGHT_CUTOFF as the reason.

Some have no run; the models have them as the code does:

* `livingstone_dispatcher.cpp:61`: an empty queue does not mean an idle dispatcher;
  with asynchronous cancellation the destructor can end it inside `parse_msg`, with
  the last message half applied.
* `CandidateEqClass.cpp:62`: `isEquivalent` looks for each triple of one candidate
  in the other and uses none up, so it is not symmetric, as the header says it is,
  and the classes depend on the order in which candidates are found.
* `cover.cpp:371`: `next_rho < 0` is never true of an unsigned number, so covers that
  cost more than rho are found too, against the comment at `cover.cpp:306`.
* `T_system.cpp:932`: the sort of the state values never updates `max_weight` and
  leaves them as they are.
* `ltms.cpp:285`: `partial_propagate`, which only the debugger calls and the models
  leave out, does not call `set_supports`, so `remove` does not retract what it
  derived.
* `opsat.cpp:144` compares with `>` where the comment at `opsat.cpp:17` speaks of a
  maximum, so one candidate more is considered.
* `livapi_rt.cpp:124` starts the timer before its command is queued, so a short
  timer asks for a diagnosis ahead of its own command.

## 6. What is proved

`tlapm <module>.tla` checks the proofs of a module.  The theorems hold for all
values of the constants that satisfy these assumptions:

* LTMS and LTMSSplice: NULL is neither clause nor proposition; finitely many
  propositions; assumptions are volatile clauses (`assignable.cpp:42` creates them
  so); the last stamp is at least 1.  The set of clauses may be infinite.
* RTAPI: the queue has room for a message, and messages are of the four kinds of
  the interface.  Any number of calls and timers, any length of the queue.
* CBFS: there are finitely many assignments; an assignment belongs to one variable
  and a variable's default is one of its assignments; weights are naturals, and
  other values than the default weigh more than 0, except that the values of the
  state variable weigh anything; each of these has its trajectory; theories and
  limits have their types.
* Cover: as CBFS for assignments, but defaults weigh nothing; weights and limits fit
  the unsigned type, that is, are less than WeightModulus, and a limit can be
  exceeded by one without wrapping.
* BinaryHeap: weights are naturals.  Any number of items, of either order.
* TSystem: finitely many components, each with finitely many failures; modes,
  commands and readings are arbitrary sets; the history has room for a step.

A theorem that needs more says so in its own ASSUME, and this section says why.

| theorem | module | property |
|---|---|---|
| TypeCorrect, CachesAlwaysExact, JustificationsAlwaysExact | `LTMSProofs` | TypeOK, CachesExact, JustificationsExact |
| SupportAlwaysWellFounded, ValuesAlwaysEntailed, InconsistencyIsReal, ConsistencyIsClosed, ConflictsAreNogoods | `LTMSProofs` | WellFounded, ValuesEntailed, InconsistentMeansNoModel, ConsistentMeansClosed, ConflictIsNogood |
| IntegrityTestsPass, RetractionIsJustified, AnswerIgnoresHistory | `LTMSProofs` | NoIntegrityTestFails, OnlyUnsupportedRetracted, SameAsFromScratch |
| CachesSurviveSplice, JustificationsSurviveSplice, SpliceKeepsClosed | `LTMSSpliceProofs` | CachesExactAfter, JustificationsExactAfter, ConsistentMeansClosed |
| TypeCorrect, DoneAlwaysDrained, AlwaysHeardInOrder | `RTAPIProofs` | TypeOK, DoneMeansDrained, HeardInOrder |
| TypeCorrect, FoundAlwaysExplanations, ExhaustiveSearchComplete, KeptAlwaysConsistent, PartitionAlwaysCovers | `CBFSProofs` | TypeOK, FoundAreExplanations, ExhaustiveMeansComplete, KeptAreConsistent, PartitionCovers |
| NoLighterPassedOver, CutoffCompleteBelow, NoneContainsAnother | `CBFSProofs` | BestFirst, CutoffMeansCompleteBelow, NoneRedundant |
| TypeCorrect, ReferencesExist | `TSystemProofs` | TypeOK, NoneDangling |
| HeapImplementsQueue | `BinaryHeapProofs` | IsPriorityQueue |
| TypeCorrect, CandidatesAlwaysCover, SmallCoversAlwaysFound, PassedAlwaysConsistent, RoundsExplain | `CoverProofs` | TypeOK, CandidatesCover, SmallCoversFound, PassedAreConsistent, (RoundExplains) |
| ModesSurviveTruncation, WeightSurvivesTruncation | `TSystemProofs` | TruncationKeepsModes, TruncationKeepsWeight |

### LTMS

No property that matters is inductive alone.  The argument goes up in layers,
each proved inductive with the help of those below it:

1. TypeOK (`TypeCorrect`).
2. CachesExact (`CachesAlwaysExact`): counts, satisfying propositions, fringe and
   unsatisfied list say what the truth values say.  This is where the four
   local repairs have to agree, and where counting literals of finite clauses
   comes in.
3. JInv = JustificationsExact and UndoOnlyInRetraction
   (`JustificationsAlwaysExact`): the pointers between clause and proposition are
   inverse and every value not queued for undo is forced by its clause.  The
   second conjunct is the strengthening: outside `remove` and
   `finish_destroying` nothing waits for undo, so `propagate` never relies on a
   value about to vanish.
4. WellFounded (`SupportAlwaysWellFounded`): every set of assigned propositions
   has a member whose clause needs no other member.  In this form it needs no
   induction over data: an assignment adds one proposition whose clause mentions
   only others, and retraction shrinks the set.
5. ValuesEntailed (`ValuesAlwaysEntailed`): take the assigned propositions on
   which a model differs; WellFounded picks one whose clause has all other
   literals false in the model too.
6. `InconsistencyIsReal` and `ConsistencyIsClosed`: what `propagate` answers, from
   2, 5 and VerdictInv (a verdict stands for the theory as it is).
7. `ConflictsAreNogoods`, with TraceInv: no stamp is ahead of the current one
   (across a restart of the stamps too), so the clauses that carry it are those
   of this trace; their assumptions are in the conflict, and the premises of
   every other one that is not waiting on the stack were met.  When the stack
   is empty these clauses are closed under justification, so they alone are
   unsatisfiable.
8. `IntegrityTestsPass`: the code tests its own data in many places and throws when
   a test fails.  None does.  The tests of counts follow from 2 and the fact that
   an assignment changes a count by as many literals as the clause has of the
   proposition.  That the trace never meets a proposition without a value needs
   MetAssigned: a clause met during a trace has values for all its propositions,
   as the clause that it starts from is falsified and the others force a value.
9. `RetractionIsJustified`, an action property, with UndoneUnsupported: what waits
   for undo has lost its clause to a removal, or one of its premises to an earlier
   undo.
10. `AnswerIgnoresHistory`: a consistent answer leaves exactly the values that unit
   propagation over the present theory reaches from nothing, the least set of
   literals closed under it (FromScratch).  By 6 the values are such a set
   (ValuesAreUnitClosed); by 3 and 4 each of them lies in every such set, since the
   values outside of one would have a member that rests on none of them
   (ValuesAreReached).

### LTMSSplice

CachesInv holds in all three cases of `move_support`: the caches of all clauses but
the `unsettled` ones are exact at every step, what has a value has a support, and a
proposition that takes over a value has it while its clauses do not hold it yet.
Assigning, unassigning and swapping literals repair each clause by itself, so a
clause that is wrong does not make another one wrong (CachesStep of `LTMSProofs`,
for any set of excepted clauses).  This gives `CachesSurviveSplice`, which assumes
nothing about LeaveSupport, and `SpliceKeepsClosed`: while the second case has left
no clause wrong, a consistent answer means closure.  Without that condition it is
false, which is finding 1 (`ltms_splice_closed`).

SpliceInv is for the first and the third case.  Between the three steps of the third
one value at a time has no clause that forces it, first that of the new proposition
(its clauses do not hold it yet), and, once the literals are swapped, that of the
old one: JustificationsExact is weakened by one proposition, JustifiedBut.
`JustificationsSurviveSplice` follows, and assumes `~LeaveSupport`: the second case
is not covered, as the value of another proposition may then rest on a clause in
which the old one was false and the new one has no value.

### RTAPI

IInv is TypeOK with PcOK and HeldOK (who is where, and who has a message in hand),
MutexOK, CountOK and DrainedOK.  Until the destructor waits, the mutex of
`timeout_handlers` excludes.  From then on it does not, since the wait gives away a
mutex that the destructor never owned, and a decrement can be lost: a timer writes
a value it read before another one decremented.  The invariant has to survive
this.  CountOK is what does: neither the counter nor any value that a timer is about
to write is ever below the number of timers still running, so a lost decrement
leaves the counter too high, never too low.  Hence `is_done_empty` may wait in vain
(finding 2), but it never answers while a timer can still queue a message
(`DoneAlwaysDrained`).  `AlwaysHeardInOrder` then follows from the messages that are
applied, held and queued, taken in this order, being exactly the calls made.

### CBFS

`TypeCorrect` includes that a candidate names a variable at most once, which
depends on what `generate_successor` skips.

ExhaustiveMeansComplete is proved from two invariants.  ConflictsHold: each
recorded conflict contains a nogood that is in force.  NoneLost: every
explanation contains a candidate already found or is covered by an agenda
element, that is, it extends the element's prefix and gives a value from the
element's list.  The central lemma, ConflictIsResolved, says that an explanation
extending an inconsistent candidate contains one of the assignments that
resolve its conflict.  The invariants need `ReviseObservations = FALSE`, which is
how a client diagnoses (observe, then search) and what the run `cbfs_search` has: a
nogood that ceases to be in force leaves its conflict behind, and
`cbfs_revised_observation` shows what then happens (finding 3).

FoundAlwaysExplanations (through Seeded: what the agenda stands for extends what the
search began with), KeptAlwaysConsistent (through KeptSoFar: what the iterator
has passed is consistent) and PartitionAlwaysCovers (through ClassesHold: the
classes hold the candidates that the loop has passed, each once) need no such
assumption.

The order of the search rests on weights being sums: a part weighs
no more than the whole (SumOfPart of `DataLemmas`).  Sorted says that an element's
current assignment is the lightest it has left, so its successors weigh no less
than it does; FoundInOrder, that candidates are found in the order of their weights
and nothing lighter than one of them is left.  With NoneLost this gives LighterFound
and thereby `NoLighterPassedOver` at every limit, and `CutoffCompleteBelow`; both
assume `ReviseObservations = FALSE` as NoneLost does.

`NoneContainsAnother` is about pairs in both directions.  That no later candidate
contains an earlier one is what `superset_candidate` tests (LaterAreNew).  That no
earlier one contains a later one follows from the order: FaultsOnly says that every
assignment in a candidate is a fault, which weighs something, or a value of the
state variable.  WeightOfPast splits the weight of a candidate accordingly, and if
the past of the larger one weighs no less, its faults can weigh no more than those
of the smaller one and are therefore the same.  State values may weigh anything, the
default included, so NoneRedundant says which pairs it is about (HeavierPast): the
past of the larger candidate weighs more than that of the smaller one, or weighs the
same and is contained in it.  This leaves out two that the search can return in the
wrong order: one with a past that weighs nothing against one that names none, and
two whose pasts weigh less the more they hold.  `WeightSurvivesTruncation` of
`TSystemProofs` shows that truncation gives a past the weight of its failures
wherever a candidate names where it comes from, so that the latter does not arise
there.

### BinaryHeap

The refinement is step by step: `insert` adds its item to the contents, `pop` takes
away one that comes first.  The invariant is that the array has each item once and no
item comes before its parent (HasItems, IsHeap); the root then comes first
(RootIsFirst).  Both loops are recursive functions, shown to exist and to obey their
recursion because each turn makes the index smaller or larger within the array.  What
a turn keeps is what the comments of `binaryheap.h` say, made exact: HoleAt for
`insert` (the path above the hole is in order with what is below it, which is in order
with the item to come) and SinksAt for `pop` (only the children of the current index
may come before it, and what is above is in order with them).  The root is its own
left child, which SinksAt and LargestFacts survive because an item does not come
before itself.

### Cover

CoverInv is TypeOK, Progress (every conflict is a set of values that a candidate can
take; a round starts with at least one), CandidatesCover, SmallCoversStay (the form of
SmallCoversFound that survives the tests of a round) and PassedAreConsistent.  The work
is in the recursion.  CoverageUnfolds shows that `rho_coverage_aux` obeys its
recursion, since every call below marks one variable more, and CoverageInduction that
a set of arguments has all of them if it has those for which it has the calls below.
With it RecursionCovers proves that what a call returns resolves its conflicts by
values of unmarked variables only, so adding a value never undoes what the calls below
resolved; and RecursionFinds that a call finds a part of every candidate that could
cover its conflicts and costs less than rho on the unmarked variables.  Such a
candidate costs at least what is taken from rho on the way to it, so the difference
never wraps there and `next_rho < 1` never cuts its branch.

`RoundsExplain` joins this to the conflicts.  With ConflictsHold (each recorded
conflict contains a nogood in force) an explanation covers all conflicts, hence
contains a smallest cover, which is no heavier and among the candidates of the round.
So when a round ends and its tests have shown no new conflict, its candidates are
explanations, and each explanation lighter than rho contains one.  RoundExplains is
stated in `CoverProofs`; no run lists it, as it follows from properties that
`cover_search` checks and from ConflictsHold.  Finding 5 does not contradict it: there a
search gives up without another round, although the last one found candidates or its
tests showed new conflicts.

### TSystem

TInv adds to TypeOK and NoneDangling that the state variable has a value (its
default exists), that a command is pending only while a time step is left, and that
every candidate is Proper: finite, made of failures and state values, naming a
variable once.  The last is what makes its weight a sum of naturals.  A search keeps
TInv because its results are candidates and a nogood names existing assignments
(NogoodsRefer).  `truncate` is the hard step: what it leaves of a candidate must lie
in the steps that are left (TruncatedIsProper), the indices that `keptCandidates`
collects must be those of consistent candidates, which have a summary (KeptFacts),
and a conflict that stays names no variable older than the horizon.

What truncation preserves is about candidates, but it cannot be shown of candidates
alone: a search may leave any candidate that names a value of the state variable, so
the values must carry it.  HInv adds to TInv three facts about each of them.  Its
trajectory is finite and of the time before the horizon (TrajectoriesPast), so
nothing that a candidate names since counts twice.  Once a candidate was summarized
as the value, its modes are those to which `replay` of its trajectory leads at the
horizon (StateModes), and its weight is what its trajectory costs (StateWeights).
A candidate that names such a value then has one first mode (OneFirstMode), its run
is the replay of its history at every step (RunIsReplay, by induction on the steps),
and its weight the cost of its history (WeightOfHistory).  That is what the two
theorems say, and also why `truncate` keeps HInv: the part of a candidate that it
takes away is a candidate with the same failures until the new horizon (OldPart,
OldHistory), its one run gives the modes of the new value (SummaryFacts), and two
replays agree up to the step until which failures and commands are the same
(ReplaysAgree), so later commands do not matter.

### Induction over data

A lemma cannot take a predicate or an operator as its parameter here.  Where a proof
needs induction, the property is given as a set instead: `DataLemmas` proves that a
nonempty set of naturals has a least element, and from it induction over naturals
(Induction), over the sizes of data (SizeInduction), over the parts of a finite set
(SmallestPart), and sums over finite sets, which the `MapThenSumSet` of `get_weight` is
shown to compute (SumAccumulates).

The recursions of the code are recursive functions in the models, and the step of a
recursion is a set of pairs in the lemmas.  Recursion and RecursiveFunctionExists show
that such a function exists and obeys its equation when each call asks only for
smaller arguments; every proof about a loop or a recursion (`replay`,
`keptCandidates`, `rho_coverage_aux`, `siftUp`, `heapify`) starts there.

## 7. What is only model-checked, and what is not modelled

Only model-checked: all liveness (CallsReturn, EveryCallApplied,
DestructorReturnsWhenIdle, SearchReturns), which is out of the prover's reach, as is
ENABLED.  Every invariant and every action property that a passing run checks is also
a theorem, and so is the refinement of the queue by the heap.  The properties that the
code violates (section 5) stay with the runs that refute them.

Not modelled yet: what section 2 lists as to come.  Of the transition system:
`minimal_progress`, which creates no copies of most variables; `planner_progress`
and `reconfigure`, which use a system of their own; `deleteNewestConflicts`, which
only the debugger calls; `summarize_conflicts`, compiled only on request; constraints
between components inside a time step.  Not to be modelled: the win32 and vxworks
ports (other primitives, the same design); memory layout of the
containers; parsing, file formats, checkpoints, printing and listeners, the JNI
glue and the tools in Java and Tcl, which keep no state of the engine.
`PROJECT.json` gives the reason for each part.
