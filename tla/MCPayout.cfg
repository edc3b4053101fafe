\* One caller at a time beside one reconciler, two attempts, one crash, any webhook lost.
SPECIFICATION LivePayoutSpec
CONSTANTS
    PaymentIds = {1, 2}
    PaymentTypes = {"PAYOUT"}
    Requests = {r1}
    Job = r1
    BlockReasons = {"NO_BANK_DETAILS", "INSUFFICIENT_BALANCE", "AWAITING_OTP", "PAYSTACK_VALIDATION"}
    NoReason = NoReason
    NoRequest = NoRequest
    NoType = NoType
    VerifyAttemptCap = 0
    Callers = {c1}
    Checkers = {v1}
    MaxCrashes = 1
INVARIANTS
    OneLiveTransfer
    BooksMatchMoney
    PendingNeverLeft
    ToldOnce
PROPERTIES
    DecidedTransferIsLearnt
CHECK_DEADLOCK FALSE
