------------------------------- MODULE MCCBFS -------------------------------
(***************************************************************************)
(* Instances of CBFS: one component at two time steps (A1, A2), another    *)
(* with two faults (B), and the state variable, whose default stands for a *)
(* past with B's first fault, and weighs as much, and whose other value    *)
(* stands for one without a fault.                                         *)
(***************************************************************************)
EXTENDS CBFS

CONSTANTS A1, A2, B, S, x, y, v, w

MCAssumption == {A1, A2, B, S}
MCAssignment == {<<A1, 0>>, <<A1, 1>>, <<A2, 0>>, <<A2, 1>>,
                 <<B, 0>>, <<B, 1>>, <<B, 2>>, <<S, 0>>, <<S, 1>>}
MCvariable == [a \in MCAssignment |-> a[1]]
MCdefault == [u \in MCAssumption |-> <<u, 0>>]
MCweight == [a \in MCAssignment |-> IF a = <<B, 2>> THEN 3
                                    ELSE IF a = <<A2, 1>> THEN 2
                                    ELSE IF a[1] = S THEN 1 - a[2] ELSE a[2]]
MCPart == {<<"B earlier", 1>>}
MCtrajectory == [a \in {<<S, 0>>, <<S, 1>>} |-> IF a[2] = 0 THEN MCPart ELSE {}]

(* A1 and A2 are one component, at two time steps. *)
MCfault ==
  [a \in MCAssignment \cup MCPart |->
     IF a \in MCPart THEN <<B, 1>> ELSE IF a[1] = A2 THEN <<A1, a[2]>> ELSE a]

Rule(nogood, given) == [nogood |-> nogood, given |-> given]

(* Theories for two things to observe, each at most once. *)
Pool ==
  { Rule({<<A1, 0>>}, {<<x, v>>}),
    Rule({<<A2, 0>>, <<B, 0>>}, {<<x, v>>}),
    Rule({<<A1, 0>>, <<B, 0>>}, {}),
    Rule({<<A1, 1>>}, {<<y, v>>}),
    Rule({<<S, 0>>, <<A2, 0>>}, {<<y, v>>}),
    Rule({<<A1, 1>>, <<B, 1>>}, {}),
    Rule({<<S, 1>>, <<B, 0>>}, {<<x, v>>, <<y, v>>}),
    Rule({<<A2, 1>>, <<B, 1>>}, {<<y, v>>}) }

Limited(tracked, classes, cutoff, considered) ==
  [number_tracked |-> tracked, maxClassCount |-> classes,
   cutoff_weight |-> cutoff, max_candidates |-> considered]

Unlimited == Limited(20, 0, 0, 0)

With(theories, limit) == {[theory |-> t, limits |-> limit] : t \in theories}

(* Small theories without limits, and larger ones under all four. *)
MCSettings ==
  With({t \in SUBSET Pool : Cardinality(t) <= 3}, Unlimited)
  \cup With({t \in SUBSET Pool : Cardinality(t) = 6}, Limited(3, 2, 3, 4))

(* One thing to observe, first as v and then, revised, as w. *)
RevisedSettings ==
  With({{Rule({<<A1, 0>>}, {<<x, v>>}), Rule({<<A1, 0>>, <<B, 0>>}, {<<x, w>>})},
        {Rule({<<A2, 0>>}, {<<x, v>>}), Rule({<<A2, 0>>, <<A1, 0>>}, {<<x, w>>})}}, Unlimited)
=============================================================================
