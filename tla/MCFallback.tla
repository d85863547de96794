----------------------------- MODULE MCFallback -----------------------------
(***************************************************************************)
(* Fallback for TLC: two requests share the two models of one provider,    *)
(* one of them weaker.                                                     *)
(***************************************************************************)
EXTENDS Fallback

CONSTANTS ma, mb, p

TwoModels == {ma, mb}
OneProvider == {p}
Providers == [m \in Model |-> p]
Tiers == [m \in Model |-> IF m = mb THEN 1 ELSE 2]
=============================================================================
