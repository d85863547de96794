SPECIFICATION Spec
CONSTANTS
    MaxRetries = 2
    MaxEvents = 4
INVARIANTS
    TruthfulEnding
PROPERTIES
    QuietAfterAbort
    EveryCallEnds
