----------------------------- MODULE MCSession -----------------------------
(***************************************************************************)
(* Session for TLC: the actors of a run are interchangeable, and so are    *)
(* the fingerprints.                                                       *)
(***************************************************************************)
EXTENDS Session, TLC

SessionSymmetry == Permutations(Actor) \cup Permutations(Fingerprint)
=============================================================================
