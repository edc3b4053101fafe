\* Two operators; one manual offer, one restart.
SPECIFICATION FairDispatchSpec
CONSTANTS
    a = a
    b = b
    c = c
    Operators = {a, c}
    Reach <- MCReach
    BatchSize = 1
    MaxRounds = 2
    OfferTime = 2
    CollectTime = 1
    SelectTime = 1
    MaxOffers = 4
    MaxExpands = 0
    MaxManual = 1
    MaxCrashes = 1
    None = None
PROPERTIES
    ClosedBiddingTakesNoQuote
    CollectionEnds
    ShortlistIsDecided
    OffersEnd
CHECK_DEADLOCK FALSE
