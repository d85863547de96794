---------------------------- MODULE SafeFallback ----------------------------
(***************************************************************************)
(* What the gateway promises about one request and the models that may     *)
(* answer it (docs/session-resilience.md, "Safe fallback invariant"): it   *)
(* is sent to one model after another, to each at most once and to no more *)
(* than MaxAttempts of them, until the output of the latest is shown to    *)
(* the client; from then on no other model is asked and nothing is shown   *)
(* twice.                                                                  *)
(***************************************************************************)
EXTENDS Integers, Sequences

CONSTANTS Request, Model, MaxAttempts

VARIABLES
    phase,   \* "idle", "choosing" or "committed"
    tried,   \* the models the request was sent to, in order
    shown    \* the models whose output the client has seen

safeVars == <<phase, tried, shown>>

Init ==
    /\ phase = [r \in Request |-> "idle"]
    /\ tried = [r \in Request |-> <<>>]
    /\ shown = [r \in Request |-> {}]

Arrive(r) ==
    /\ phase[r] = "idle"
    /\ phase' = [phase EXCEPT ![r] = "choosing"]
    /\ UNCHANGED <<tried, shown>>

Try(r, model) ==
    /\ phase[r] = "choosing"
    /\ Len(tried[r]) < MaxAttempts
    /\ \A i \in 1 .. Len(tried[r]) : tried[r][i] # model
    /\ tried' = [tried EXCEPT ![r] = Append(@, model)]
    /\ UNCHANGED <<phase, shown>>

Commit(r) ==
    /\ phase[r] = "choosing"
    /\ tried[r] # <<>>
    /\ phase' = [phase EXCEPT ![r] = "committed"]
    /\ shown' = [shown EXCEPT ![r] = {tried[r][Len(tried[r])]}]
    /\ UNCHANGED tried

End(r) ==
    /\ phase[r] \in {"choosing", "committed"}
    /\ phase' = [phase EXCEPT ![r] = "idle"]
    /\ tried' = [tried EXCEPT ![r] = <<>>]
    /\ shown' = [shown EXCEPT ![r] = {}]

Next ==
    \E r \in Request :
        \/ Arrive(r)
        \/ \E model \in Model : Try(r, model)
        \/ Commit(r)
        \/ End(r)

Spec == Init /\ [][Next]_safeVars
=============================================================================
