\* Two administrators, each settling or refunding, at once beside one reconciler, one crash.
SPECIFICATION SettlementSpec
SYMMETRY AdminSymmetry
CONSTANTS
    PaymentIds = {1, 2}
    PaymentTypes = {"REFUND", "PAYOUT"}
    Requests = {r1}
    Request = r1
    BlockReasons = {"NEEDS_CUSTOMER_DETAILS", "NO_BANK_DETAILS"}
    NoReason = NoReason
    NoRequest = NoRequest
    NoType = NoType
    VerifyAttemptCap = 0
    Admins = {a1, a2}
    Checkers = {v1}
    Percents = {0, 50, 100}
    DepositAmount = 6
    ServiceFee = 3
    TotalAmount = 20
    NoDecision = NoDecision
    UnreadableAnswers = FALSE
    MaxRefunds = 2
    MaxCrashes = 1
INVARIANTS
    OneRefundPerAttempt
    RefundBooksMatch
    SettlementConserves
    LegsFollowDecision
    BothLegsRun
CHECK_DEADLOCK FALSE
