\* Two deliveries of the customer's messages, one administrator, one webhook; any of them may die.
SPECIFICATION CompletionSpec
SYMMETRY DeliverySymmetry
CONSTANTS
    PaymentIds = {1, 2}
    PaymentTypes = {"BALANCE"}
    Requests = {r1}
    Job = r1
    BlockReasons = {"AWAITING_OTP"}
    NoReason = NoReason
    NoRequest = NoRequest
    NoType = NoType
    NoAmount = NoAmount
    VerifyAttemptCap = 0
    Handlers = {h1, h2}
    Admins = {a1}
    Hooks = {k1}
    Percents = {20}
    Quote = 5
    DepositAmount = 6
    ServiceFee = 3
    MaxRaises = 2
INVARIANTS
    PayoutIsCovered
    LinksCoverTheBalance
    DisputeRaisedOnce
CHECK_DEADLOCK FALSE
