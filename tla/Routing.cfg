SPECIFICATION RoutingSpec
CONSTANTS
    a = a
    b = b
    c = c
    p = p
    q = q
    NoModel = NoModel
    Model <- MCModel
    ProviderOf <- MCProviderOf
    Rank <- MCRank
    Offers <- MCOffers
    Request <- MCRequest
    Policy <- MCPolicy
    Penalty = 8
    Threshold = 6
    MaxEscalation = 2
    PriorSize = 20
    MaxChanges = 2
INVARIANT RaisedPriceNeverWins
PROPERTY Settles
