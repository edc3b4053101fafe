\* Three rows, one request, two types: enough for an attempt, its retry and a
\* late duplicate in one slot while the other slot is used as well.
SPECIFICATION Spec
CONSTANTS
    PaymentIds = {p1, p2, p3}
    PaymentTypes = {"DEPOSIT", "PAYOUT"}
    Requests = {r1}
    BlockReasons = {b1}
    NoReason = NoReason
    NoRequest = NoRequest
    NoType = NoType
    VerifyAttemptCap = 1
SYMMETRY RowSymmetry
INVARIANTS
    OneInFlight
PROPERTIES
    HistoryIsFinal
    ImplementsCanonical
