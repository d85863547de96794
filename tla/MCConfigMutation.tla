-------------------------- MODULE MCConfigMutation --------------------------
EXTENDS ConfigMutation, TLC

CONSTANTS p0, p1, p2, m0, m1, m2

MCProvider == {p0, p1, p2}

MCModel == {m0, m1, m2}

MCOwner == [m \in MCModel |-> CASE m = m0 -> p0 [] m = m1 -> p1 [] OTHER -> p2]

(* p0 is the fake provider of the configuration that init writes. *)
MCDefault ==
    [mode |-> "balanced", model |-> m0, baseline |-> m0, calibrated |-> {},
     enabled |-> [p \in {p0} |-> TRUE], refers |-> {}, tidy |-> TRUE]

Hand ==
    [MCDefault EXCEPT !.model = m1, !.baseline = NoModel, !.tidy = FALSE,
                      !.enabled = [p \in {p1, p2} |-> TRUE]]

(* The file is gone, written by hand, with a reference or without, back to *)
(* the initial content, or not acceptable to the schema.                   *)
MCEdited ==
    {Missing, MCDefault, Hand, [Hand EXCEPT !.refers = {p1}], [Hand EXCEPT !.enabled[p1] = FALSE]}

MCJob ==
    {[kind |-> "init"], [kind |-> "undo"],
     [kind |-> "use-model", model |-> m2],
     [kind |-> "set-baseline", model |-> m2],
     [kind |-> "add-provider", provider |-> p2, enabled |-> TRUE, refers |-> FALSE],
     [kind |-> "add-provider", provider |-> p2, enabled |-> FALSE, refers |-> TRUE],
     [kind |-> "remove-provider", provider |-> p2],
     [kind |-> "set-mode", mode |-> "eco"],
     [kind |-> "set-enabled", provider |-> p1, enabled |-> FALSE],
     [kind |-> "set-calibration", models |-> {m2}],
     [kind |-> "login", provider |-> p1],
     [kind |-> "login", provider |-> p2]}

Symmetry == Permutations(Command)
=============================================================================
