\* The reconciler alone must finish what lost webhooks and a crash leave behind.
SPECIFICATION LiveCollectionSpec
CONSTANTS
    PaymentIds = {1}
    PaymentTypes = {"DEPOSIT", "BALANCE"}
    Requests = {r1}
    Job = r1
    BlockReasons = {"AWAITING_OTP"}
    NoReason = NoReason
    NoRequest = NoRequest
    NoType = NoType
    VerifyAttemptCap = 0
    Handlers = {h1}
    Hooks = {k1}
    Checkers = {v1}
    SlowPosts = FALSE
    MaxCrashes = 1
PROPERTIES
    PaymentIsLearnt
    LostLinkIsGivenUp
    PaidDepositMovesOn
CHECK_DEADLOCK FALSE
