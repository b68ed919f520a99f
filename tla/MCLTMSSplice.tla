---------------------------- MODULE MCLTMSSplice ----------------------------
(***************************************************************************)
(* Instances of LTMSSplice: the mode before a transition, the mode now and *)
(* the proposition that takes its place once the time step is past.        *)
(***************************************************************************)
EXTENDS LTMSSplice, TLC

CONSTANTS before, now, past, c1, c2, a1

Pos(p) == <<p, "PTRUE">>
Neg(p) == <<p, "PFALSE">>

(* A transition and its converse, and what gives or refutes a mode. *)
TransitionBodies ==
  { {Neg(before), Pos(now)}, {Neg(now), Pos(before)}, {Pos(before)}, {Neg(now)} }

(* A transition, and what is observed of its outcome or assumed before. *)
ObservedBodies == { {Neg(before), Pos(now)}, {Pos(now)}, {Pos(before)} }

MCSplices == {<<now, past>>}

=============================================================================
