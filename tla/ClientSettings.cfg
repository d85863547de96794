CONSTANTS
    Client = {claude, openai}
    Claude = claude
    Own = {own1, own2}
    Routed = {balanced, eco}
    Nothing = Nothing
    Missing = Missing
    MaxEdits = 1
SPECIFICATION Spec
INVARIANTS
    BaselineIsOriginal
    ForgottenIsRestored
    StatusTruthful
