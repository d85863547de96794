-------------------------- MODULE MCAttemptLedger --------------------------
(***************************************************************************)
(* AttemptLedger for TLC: two requests of one session.                     *)
(***************************************************************************)
EXTENDS AttemptLedger, TLC

RequestSymmetry == Permutations(Request)
=============================================================================
