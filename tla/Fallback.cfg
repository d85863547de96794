SPECIFICATION FairSpec
CONSTANTS
    ma = ma
    mb = mb
    p = p
    Model <- TwoModels
    Provider <- OneProvider
    ProviderOf <- Providers
    Tier <- Tiers
    Request = {r1, r2}
    NoModel = NoModel
    FallbackEnabled = TRUE
    AllowWeaker = TRUE
    MaxAttempts = 2
    MaxDuration = 1
    FailureThreshold = 1
    OpenDuration = 1
    HalfOpenSuccessThreshold = 1
PROPERTIES
    ImplementsTraffic
    ImplementsSafeFallback
    EveryRequestEnds
