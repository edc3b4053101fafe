\* A handler, a webhook delivery and a reconciler; two collections, one crash.
SPECIFICATION CollectionSpec
CONSTANTS
    PaymentIds = {1, 2}
    PaymentTypes = {"DEPOSIT", "BALANCE"}
    Requests = {r1}
    Job = r1
    BlockReasons = {"AWAITING_OTP"}
    NoReason = NoReason
    NoRequest = NoRequest
    NoType = NoType
    VerifyAttemptCap = 0
    Handlers = {h1}
    Hooks = {k1}
    Checkers = {v1}
    SlowPosts = FALSE
    MaxCrashes = 1
INVARIANTS
    MoneyHasARow
    SuccessIsPaid
    
    SettledOnce
CHECK_DEADLOCK FALSE
