\* Two administrators retry the same failed payout.
SPECIFICATION PayoutSpec
CONSTANTS
    PaymentIds = {1, 2, 3}
    PaymentTypes = {"PAYOUT"}
    Requests = {r1}
    Job = r1
    BlockReasons = {"NO_BANK_DETAILS", "INSUFFICIENT_BALANCE", "AWAITING_OTP", "PAYSTACK_VALIDATION"}
    NoReason = NoReason
    NoRequest = NoRequest
    NoType = NoType
    VerifyAttemptCap = 1
    Callers = {c1, c2}
    Checkers = {v1}
    MaxCrashes = 0
INVARIANTS
    PaidAtMostOnce
CHECK_DEADLOCK FALSE
