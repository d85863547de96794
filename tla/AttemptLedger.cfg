SPECIFICATION Spec
CONSTANTS
    Request = {r1, r2}
    MaxAttempts = 2
    MaxTokens = 1
    StoreOutcome = {"ok", "rolled_back", "ack_lost"}
    MayCrash = TRUE
SYMMETRY RequestSymmetry
INVARIANTS
    EventIffTerminal
    RequestFollowsAttempt
    FallbackFollowsFailure
    RecordedUnlessLost
PROPERTIES
    TerminalIsFinal
\* Every request comes to an end.
CHECK_DEADLOCK FALSE
