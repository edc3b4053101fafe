\* Two operators near by, one further off; one Expand, no restart.
SPECIFICATION DispatchSpec
CONSTANTS
    a = a
    b = b
    c = c
    Operators = {a, b, c}
    Reach <- MCReach
    BatchSize = 2
    MaxRounds = 3
    OfferTime = 2
    CollectTime = 1
    SelectTime = 1
    MaxOffers = 4
    MaxExpands = 1
    MaxManual = 0
    MaxCrashes = 0
    None = None
INVARIANTS
    
    OnlyDeclinesStrand
PROPERTIES
    DeadlineNeverLater
    BiddingClosesOnce
CHECK_DEADLOCK FALSE
