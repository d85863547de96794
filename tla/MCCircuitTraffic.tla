-------------------------- MODULE MCCircuitTraffic --------------------------
(***************************************************************************)
(* CircuitTraffic for TLC: two models of one provider, so that the two     *)
(* keys of an attempt do not move together, and enough callers for a       *)
(* straggler beside two probes.                                            *)
(***************************************************************************)
EXTENDS CircuitTraffic, TLC

CONSTANTS m1, m2, p1

TwoModels == {m1, m2}
OneProvider == {p1}
SameProvider == [m \in TwoModels |-> p1]

CallerSymmetry == Permutations(Caller)
=============================================================================
