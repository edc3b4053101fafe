\* Two operators, who may decline.
SPECIFICATION DispatchSpec
CONSTANTS
    a = a
    b = b
    c = c
    Operators = {a, c}
    Reach <- MCReach
    BatchSize = 1
    MaxRounds = 2
    OfferTime = 2
    CollectTime = 1
    SelectTime = 1
    MaxOffers = 4
    MaxExpands = 0
    MaxManual = 0
    MaxCrashes = 0
    None = None
INVARIANT
    NothingIsStranded
CHECK_DEADLOCK FALSE
