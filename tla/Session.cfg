SPECIFICATION Spec
CONSTANTS
    Actor = {a1, a2}
    Fingerprint = {f1, f2}
    NoFingerprint = NoFingerprint
    MaxLevel = 2
    Failures = 2
    Successes = 1
    Cooldown = 1
    Ttl = 1
SYMMETRY SessionSymmetry
INVARIANTS
    AutomaticHasVerdict
PROPERTIES
    LevelFallsByPolicy
    EscalationConsumesEvidence
