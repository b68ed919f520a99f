------------------------------- MODULE MCCover -------------------------------
(***************************************************************************)
(* Instances of Cover: three components, of which B has two faults, and    *)
(* two things to observe.                                                  *)
(***************************************************************************)
EXTENDS Cover

CONSTANTS A, B, C, x, y, v

MCAssumption == {A, B, C}
MCAssignment == {<<A, 0>>, <<A, 1>>, <<B, 0>>, <<B, 1>>, <<B, 2>>, <<C, 0>>, <<C, 1>>}
MCvariable == [a \in MCAssignment |-> a[1]]
MCdefault == [u \in MCAssumption |-> <<u, 0>>]
MCweight == [a \in MCAssignment |-> IF a = <<B, 2>> THEN 3
                                    ELSE IF a = <<C, 1>> THEN 2 ELSE a[2]]

Rule(nogood, given) == [nogood |-> nogood, given |-> given]

(* With all of them nothing explains what is observed, once both are. *)
Pool ==
  { Rule({<<A, 0>>}, {<<x, v>>}),
    Rule({<<A, 0>>, <<B, 0>>}, {<<x, v>>}),
    Rule({<<B, 0>>, <<C, 0>>}, {<<y, v>>}),
    Rule({<<A, 1>>, <<C, 0>>}, {}),
    Rule({<<A, 1>>, <<B, 1>>}, {<<y, v>>}),
    Rule({<<B, 1>>}, {<<x, v>>, <<y, v>>}),
    Rule({<<A, 1>>, <<B, 2>>, <<C, 1>>}, {<<y, v>>}),
    Rule({<<C, 1>>, <<B, 0>>}, {<<x, v>>}) }

MCSettings == {[theory |-> t, gamma_limit |-> g] : t \in SUBSET Pool, g \in {0, 2, 4}}

=============================================================================
