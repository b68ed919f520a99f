----------------------------- MODULE MCTSystem -----------------------------
(***************************************************************************)
(* Constants for TSystem: a valve with a flow sensor, and one command: it  *)
(* opens the valve, or frees it when it is stuck.                          *)
(***************************************************************************)
EXTENDS TSystem

CONSTANTS valve, on, off, stuck, open, flow, still

MCinitial == [x \in {valve} |-> off]

MCinitialOn == [x \in {valve} |-> on]

MCnominal ==
  [x \in {valve} |->
    [k \in {open} |->
      [m \in {on, off, stuck} |-> IF m = stuck THEN off ELSE on]]]

MCfailure == [x \in {valve} |-> <<stuck>>]

MCcost == [x \in {valve} |-> <<2>>]

MCshows == [x \in {valve} |-> [m \in {on, off, stuck} |-> IF m = on THEN flow ELSE still]]

=============================================================================
