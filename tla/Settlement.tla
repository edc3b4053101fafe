----------------------------- MODULE Settlement -----------------------------
(***************************************************************************)
(* The deposit of a request that was cancelled after it was paid: the      *)
(* whole of it refunded (refundDeposit), or split between the customer and *)
(* the operator who had been sent (resolveCancellationSettlement); how     *)
(* PaymentVerifyCheck and the refund webhooks recover REFUND rows; and     *)
(* Paystack's refunds, which carry no reference of ours, only a note.      *)
(*                                                                         *)
(* As in Payout, every statement and every HTTP call is a step, and a      *)
(* process may die between any two.  The payout leg is Payout.tla's        *)
(* subject: here a PAYOUT row appears, is submitted and settles.           *)
(***************************************************************************)
EXTENDS PaymentLedger, Sequences, FiniteSetsExt, Folds

CONSTANTS
    Request,            \* the cancelled request, its deposit SUCCEEDED
    Admins,             \* concurrent runs of refundDeposit and
                        \* resolveCancellationSettlement
    Checkers,           \* instances running PaymentVerifyCheck
    Percents,           \* the customerRefundPercent administrators ask for
    DepositAmount,      \* kobo captured
    ServiceFee,         \* serviceFeeAmount, of the whole quote
    TotalAmount,        \* quote plus fee
    NoDecision,         \* cancellationSettledAt NULL
    UnreadableAnswers,  \* Paystack may answer a refund it made with a body
                        \* that cannot be parsed and a status below 500
    MaxRefunds,         \* bound on the refunds Paystack holds
    MaxCrashes          \* bound on the processes that die

ASSUME RefundTypes ==
    Request \in Requests /\ {"REFUND", "PAYOUT"} \subseteq PaymentTypes
ASSUME RefundReasons == {"NEEDS_CUSTOMER_DETAILS", "NO_BANK_DETAILS"} \subseteq BlockReasons
ASSUME ProcessAssumption == Admins \cap Checkers = {}
ASSUME PercentAssumption == Percents \subseteq 0..100 /\ NoDecision \notin 0..100
ASSUME AmountAssumption ==
    /\ DepositAmount \in Nat /\ ServiceFee \in Nat /\ TotalAmount \in Nat
    /\ ServiceFee <= TotalAmount
ASSUME RowOrder == PaymentIds \subseteq Nat \ {0}
ASSUME BoundAssumption ==
    MaxRefunds \in Nat /\ MaxCrashes \in Nat /\ UnreadableAnswers \in BOOLEAN

VARIABLES
    amount,       \* the amount of each Payment row
    cancelled,    \* the request's status is CANCELLED
    settlement,   \* cancellationSettlementPercent, NoDecision until claimed
    legsRun,      \* history: the legs the settlement has got to
    proc,         \* where each process is, and its locals
    refunds,      \* Paystack: the refunds it holds, in the order made
    inTransit,    \* rows whose POST outlived its caller's patience
    crashes

settlementVars == <<payments, amount, cancelled, settlement, legsRun, proc,
                    refunds, inTransit, crashes>>

Procs == Admins \cup Checkers

RefundRows == RowsOf(Request, "REFUND")
PayRows    == RowsOf(Request, "PAYOUT")
Fresh(p)   == ~Exists(p) /\ \A q \in PaymentIds : q < p => Exists(q)

-----------------------------------------------------------------------------
(* computeCancellationSettlement.  Rounded(a, b) is Math.round(a / b): the *)
(* quotient's floor after half is added.                                   *)
Rounded(a, b) == (2 * a + b) \div (2 * b)

FeeKeptOut(deposit, fee, total) ==
    IF total > 0 THEN Rounded(deposit * fee, total) ELSE 0

RefundShare(splittable, percent) == Rounded(splittable * percent, 100)

PayoutRoundedToo(splittable, percent) ==                        \* mutant
    Rounded(splittable * (100 - percent), 100)

PayoutShare(splittable, percent) == splittable - RefundShare(splittable, percent)

Splittable == DepositAmount - FeeKeptOut(DepositAmount, ServiceFee, TotalAmount)

-----------------------------------------------------------------------------
(* derive-payment-state: a payment that still might land, or already has.  *)
ActiveOrSucceeded == InFlight \cup {"SUCCEEDED"}

RefundHandled == \E p \in RefundRows : StatusOf(p) \in ActiveOrSucceeded

(* deriveRefundStatus is ELIGIBLE or FAILED: the deposit is paid, nothing  *)
(* has been paid out or may yet be, and no refund is made or under way.    *)
RefundEligible ==
    /\ cancelled
    /\ ~RefundHandled
    /\ \A p \in PayRows : StatusOf(p) \notin ActiveOrSucceeded

EligibleWhoeverSettled == cancelled /\ ~RefundHandled           \* mutant

(* deriveCancellationSettlementEligibility, the operator being assigned.   *)
SettlementEligible == cancelled /\ settlement = NoDecision /\ ~RefundHandled

-----------------------------------------------------------------------------
(* `percent` is what a settlement was asked for, NoDecision in             *)
(* refundDeposit, which has none.                                          *)
Idle == [pc |-> "idle", row |-> 0, percent |-> NoDecision, answer |-> "none"]

Settles(w) == proc[w].percent # NoDecision

Goto(w, step) == proc' = [proc EXCEPT ![w].pc = step]
Stop(w)       == proc' = [proc EXCEPT ![w] = Idle]

SettlementInit ==
    /\ Init
    /\ amount = [p \in PaymentIds |-> 0]
    /\ cancelled = TRUE
    /\ settlement = NoDecision
    /\ legsRun = {}
    /\ proc = [w \in Procs |-> Idle]
    /\ refunds = << >>
    /\ inTransit = {}
    /\ crashes = 0

(* updateStatus and cancel write whatever status they are told.            *)
SetStatus ==
    /\ cancelled' \in BOOLEAN
    /\ UNCHANGED <<payments, amount, settlement, legsRun, proc, refunds,
                   inTransit, crashes>>

(* refundDeposit's read: a courtesy, the in-flight index is the guard.     *)
RefundDeposit(a) ==
    /\ proc[a].pc = "idle"
    /\ RefundEligible
    /\ Goto(a, "insert")
    /\ UNCHANGED <<payments, amount, cancelled, settlement, legsRun, refunds,
                   inTransit, crashes>>

(* resolveCancellationSettlement's read.                                   *)
ResolveSettlement(s, percent) ==
    /\ proc[s].pc = "idle"
    /\ SettlementEligible
    /\ proc' = [proc EXCEPT ![s].pc = "decide", ![s].percent = percent]
    /\ UNCHANGED <<payments, amount, cancelled, settlement, legsRun, refunds,
                   inTransit, crashes>>

(* After the refund leg, however it went: the payout leg if there is one.  *)
(* refundDeposit, with nothing else to protect, throws.                    *)
StopAfterRefund(w) == Stop(w)                                   \* mutant

AfterRefund(w) ==
    IF Settles(w) /\ PayoutShare(Splittable, proc[w].percent) > 0
      THEN Goto(w, "payout")
      ELSE Stop(w)

(* claimOnce: one UPDATE, its WHERE the eligibility again.                 *)
ClaimSettlement(s) ==
    /\ proc[s].pc = "decide"
    /\ \/ /\ SettlementEligible
          /\ settlement' = proc[s].percent
          /\ IF RefundShare(Splittable, proc[s].percent) > 0
               THEN Goto(s, "insert")
               ELSE AfterRefund(s)
       \/ ~SettlementEligible /\ Stop(s) /\ UNCHANGED settlement
    /\ UNCHANGED <<payments, amount, cancelled, legsRun, refunds, inTransit,
                   crashes>>

-----------------------------------------------------------------------------
(* submitDepositRefund.                                                    *)
RefundAmount(w) ==
    IF Settles(w) THEN RefundShare(Splittable, proc[w].percent)
                      ELSE DepositAmount

(* create, or P2002: a refund is already in progress.                      *)
InsertRefund(w) ==
    /\ proc[w].pc = "insert"
    /\ legsRun' = IF Settles(w) THEN legsRun \cup {"refund"} ELSE legsRun
    /\ \/ \E p \in PaymentIds :
             /\ Fresh(p)
             /\ Create(p, Request, "REFUND")
             /\ amount' = [amount EXCEPT ![p] = RefundAmount(w)]
             /\ proc' = [proc EXCEPT ![w].pc = "submit", ![w].row = p]
       \/ /\ ~InFlightIndexAllows(Request, "REFUND")
          /\ AfterRefund(w)
          /\ UNCHANGED <<payments, amount>>
    /\ UNCHANGED <<cancelled, settlement, refunds, inTransit, crashes>>

SubmitRefund(w) ==
    /\ proc[w].pc = "submit"
    /\ \/ ClaimForSubmission(proc[w].row) /\ Goto(w, "post")
       \/ /\ StatusOf(proc[w].row) # "PENDING"
          /\ AfterRefund(w)
          /\ UNCHANGED payments
    /\ UNCHANGED <<amount, cancelled, settlement, legsRun, refunds, inTransit,
                   crashes>>

-----------------------------------------------------------------------------
(* Paystack.  Every POST /refund it accepts is another refund: there is no *)
(* reference of ours it could recognise.                                   *)
RefundStatuses == {"pending", "needs-attention", "processed", "failed"}

MakeRefund(p, status) ==
    /\ Len(refunds) < MaxRefunds
    /\ status # "failed"
    /\ refunds' = Append(refunds, [note |-> p, status |-> status])

(* refundTransaction, and its answer: a refund, a refusal, or none that    *)
(* can be read.  A POST that timed out may still be on its way.            *)
PostRefund(w) ==
    LET p == proc[w].row
        Answer(a) == proc' = [proc EXCEPT ![w].pc = "apply", ![w].answer = a]
    IN
    /\ proc[w].pc = "post"
    /\ \/ \E s \in RefundStatuses :
             /\ MakeRefund(p, s)
             /\ \/ Answer(s) \/ Answer("ambiguous")
                \/ UnreadableAnswers /\ Answer("rejected")
             /\ UNCHANGED inTransit
       \/ Answer("rejected") /\ UNCHANGED <<refunds, inTransit>>
       \/ /\ Answer("ambiguous")
          /\ inTransit' \in {inTransit, inTransit \cup {p}}
          /\ UNCHANGED refunds
    /\ UNCHANGED <<payments, amount, cancelled, settlement, legsRun, crashes>>

LateArrival(p) ==
    /\ p \in inTransit
    /\ inTransit' = inTransit \ {p}
    /\ \/ \E s \in RefundStatuses : MakeRefund(p, s)
       \/ UNCHANGED refunds
    /\ UNCHANGED <<payments, amount, cancelled, settlement, legsRun, proc, crashes>>

RefundProgresses(i, status) ==
    /\ i \in DOMAIN refunds
    /\ refunds[i].status \in {"pending", "needs-attention"}
    /\ status # refunds[i].status
    /\ refunds' = [refunds EXCEPT ![i].status = status]
    /\ UNCHANGED <<payments, amount, cancelled, settlement, legsRun, proc,
                   inTransit, crashes>>

-----------------------------------------------------------------------------
(* claimTerminal with what mapRefundStatus makes of a settled refund.      *)
SettleRow(p, status) ==
    \/ status = "processed" /\ ClaimTerminal(p, "SUCCEEDED")
    \/ status = "processed" /\ RecordDuplicateSuccess(p)
    \/ status = "failed" /\ ClaimTerminal(p, "FAILED")
    \/ ~Claimable(p) /\ UNCHANGED payments

IfSubmitted(p, Statement) ==
    \/ Statement
    \/ StatusOf(p) # "SUBMITTED" /\ UNCHANGED payments

RejectOnAnyDoubt(p, a) ==                                       \* mutant
    \/ a \in {"rejected", "ambiguous"} /\ IfSubmitted(p, RecordRejection(p, NoReason))
    \/ a = "needs-attention" /\ IfSubmitted(p, RecordBlocked(p, "NEEDS_CUSTOMER_DETAILS"))
    \/ a = "failed" /\ SettleRow(p, a)
    \/ a \in {"pending", "processed"} /\ UNCHANGED payments

(* The answer to the POST may fail or block the row, never settle it as    *)
(* SUCCEEDED: `processed` stays SUBMITTED.                                 *)
ClassifyResponse(p, a) ==
    \/ a = "rejected" /\ IfSubmitted(p, RecordRejection(p, NoReason))
    \/ a = "needs-attention" /\ IfSubmitted(p, RecordBlocked(p, "NEEDS_CUSTOMER_DETAILS"))
    \/ a = "failed" /\ SettleRow(p, a)
    \/ a \in {"ambiguous", "pending", "processed"} /\ UNCHANGED payments

ApplyResponse(w) ==
    /\ proc[w].pc = "apply" /\ w \in Admins
    /\ ClassifyResponse(proc[w].row, proc[w].answer)
    /\ AfterRefund(w)
    /\ UNCHANGED <<amount, cancelled, settlement, legsRun, refunds, inTransit,
                   crashes>>

-----------------------------------------------------------------------------
(* createAndProcessPayout, which never throws: an attempt already there is *)
(* left alone, or a row is inserted; or its guards' own calls fail, and no *)
(* row is left at all.                                                     *)
PayoutLeg(s) ==
    /\ proc[s].pc = "payout"
    /\ legsRun' = legsRun \cup {"payout"}
    /\ \/ \E p \in PaymentIds :
             /\ Fresh(p)
             /\ \A q \in PayRows : StatusOf(q) \notin ActiveOrSucceeded
             /\ Create(p, Request, "PAYOUT")
             /\ amount' = [amount EXCEPT
                              ![p] = PayoutShare(Splittable, proc[s].percent)]
       \/ UNCHANGED <<payments, amount>>
    /\ Stop(s)
    /\ UNCHANGED <<cancelled, settlement, refunds, inTransit, crashes>>

(* The rest of a payout's life, by Payout's own processes.                 *)
PayoutMoves(p) ==
    /\ p \in PayRows
    /\ \/ ClaimForSubmission(p)
       \/ \E v \in {"SUCCEEDED", "FAILED"} : ClaimTerminal(p, v)
       \/ RecordBlocked(p, "NO_BANK_DETAILS") \/ Unblock(p)
    /\ UNCHANGED <<amount, cancelled, settlement, legsRun, proc, refunds,
                   inTransit, crashes>>

(* retryPayout of the latest attempt, failed: the same amount again.       *)
RetryPayout(p) ==
    /\ p \in PayRows /\ StatusOf(p) = "FAILED"
    /\ \A q \in PayRows : q <= p /\ StatusOf(q) # "SUCCEEDED"
    /\ \E q \in PaymentIds :
          /\ Fresh(q)
          /\ Create(q, Request, "PAYOUT")
          /\ amount' = [amount EXCEPT ![q] = amount[p]]
    /\ UNCHANGED <<cancelled, settlement, legsRun, proc, refunds, inTransit,
                   crashes>>

-----------------------------------------------------------------------------
(* PaymentVerifyCheck.run, on REFUND rows.                                 *)
PickDueRow(v, p) ==
    /\ proc[v].pc = "idle"
    /\ p \in RefundRows /\ payments[p].verifyDue
    /\ \/ StatusOf(p) = "PENDING" /\ proc' = [proc EXCEPT ![v].pc = "initiate", ![v].row = p]
       \/ StatusOf(p) = "SUBMITTED" /\ proc' = [proc EXCEPT ![v].pc = "verify", ![v].row = p]
    /\ UNCHANGED <<payments, amount, cancelled, settlement, legsRun, refunds,
                   inTransit, crashes>>

(* initiate and initiateRefund: the row was committed and never claimed.   *)
InitiateRefund(v) ==
    /\ proc[v].pc = "initiate"
    /\ \/ ClaimForSubmission(proc[v].row) /\ Goto(v, "post")
       \/ StatusOf(proc[v].row) # "PENDING" /\ Stop(v) /\ UNCHANGED payments
    /\ UNCHANGED <<amount, cancelled, settlement, legsRun, refunds, inTransit,
                   crashes>>

RereadRow(v) ==
    /\ proc[v].pc = "verify"
    /\ IF StatusOf(proc[v].row) = "SUBMITTED" THEN Goto(v, "list") ELSE Stop(v)
    /\ UNCHANGED <<payments, amount, cancelled, settlement, legsRun, refunds,
                   inTransit, crashes>>

RepostWhenNotListed(v) ==                                       \* mutant
    /\ proc[v].pc = "list"
    /\ IF \E i \in DOMAIN refunds : refunds[i].note = proc[v].row
         THEN Goto(v, "backoff") ELSE Goto(v, "post")
    /\ UNCHANGED <<payments, amount, cancelled, settlement, legsRun, refunds,
                   inTransit, crashes>>

(* listRefunds fails, or does not show the refund (yet): wait.  A refund   *)
(* is never submitted again, a second POST would be a second refund.       *)
ListInVain(v) ==
    /\ proc[v].pc = "list"
    /\ Goto(v, "backoff")
    /\ UNCHANGED <<payments, amount, cancelled, settlement, legsRun, refunds,
                   inTransit, crashes>>

ListAnyRefund(v) ==                                             \* mutant
    /\ proc[v].pc = "list"
    /\ \E i \in DOMAIN refunds :
          proc' = [proc EXCEPT ![v].pc = "match", ![v].answer = refunds[i].status]
    /\ UNCHANGED <<payments, amount, cancelled, settlement, legsRun, refunds,
                   inTransit, crashes>>

(* ... or shows one under this row's note: matching by note, not by        *)
(* existence, for a failed attempt may have left a refund behind as well.  *)
ListRefunds(v) ==
    /\ proc[v].pc = "list"
    /\ \E i \in DOMAIN refunds :
          /\ refunds[i].note = proc[v].row
          /\ proc' = [proc EXCEPT ![v].pc = "match", ![v].answer = refunds[i].status]
    /\ UNCHANGED <<payments, amount, cancelled, settlement, legsRun, refunds,
                   inTransit, crashes>>

(* applyRefundResult: here `processed` does settle the row.  A refund      *)
(* still pending is backed off if it was found by listing; the claim of a  *)
(* fresh submission has pushed verifyAfter out already.                    *)
ApplyVerification(v) ==
    LET p == proc[v].row
        a == proc[v].answer
    IN
    /\ proc[v].pc \in {"apply", "match"} /\ v \in Checkers
    /\ \/ /\ a \in {"rejected", "needs-attention"}
          /\ ClassifyResponse(p, a)
          /\ Stop(v)
       \/ a \in {"processed", "failed"} /\ SettleRow(p, a) /\ Stop(v)
       \/ /\ a \in {"ambiguous", "pending"}
          /\ IF proc[v].pc = "match" THEN Goto(v, "backoff") ELSE Stop(v)
          /\ UNCHANGED payments
    /\ UNCHANGED <<amount, cancelled, settlement, legsRun, refunds, inTransit,
                   crashes>>

BackOffRow(v) ==
    /\ proc[v].pc = "backoff"
    /\ BackOff(proc[v].row)
    /\ Stop(v)
    /\ UNCHANGED <<amount, cancelled, settlement, legsRun, refunds, inTransit,
                   crashes>>

(* refund.processed and refund.failed, found by the id recorded from the   *)
(* answer or by the note; lost, repeated and late as webhooks are.         *)
DeliverWebhook(i) ==
    /\ i \in DOMAIN refunds
    /\ refunds[i].status \in {"processed", "failed"}
    /\ SettleRow(refunds[i].note, refunds[i].status)
    /\ UNCHANGED <<amount, cancelled, settlement, legsRun, proc, refunds,
                   inTransit, crashes>>

TimePasses(p) ==
    /\ p \in RefundRows
    /\ VerifyAfterPasses(p)
    /\ UNCHANGED <<amount, cancelled, settlement, legsRun, proc, refunds,
                   inTransit, crashes>>

Crash(w) ==
    /\ proc[w].pc # "idle"
    /\ crashes < MaxCrashes
    /\ crashes' = crashes + 1
    /\ Stop(w)
    /\ UNCHANGED <<payments, amount, cancelled, settlement, legsRun, refunds,
                   inTransit>>

AdminStep(w) ==
    \/ ClaimSettlement(w) \/ InsertRefund(w) \/ SubmitRefund(w)
    \/ PostRefund(w) \/ ApplyResponse(w) \/ PayoutLeg(w)

CheckerStep(v) ==
    \/ InitiateRefund(v) \/ RereadRow(v) \/ ListRefunds(v) \/ ListInVain(v)
    \/ PostRefund(v) \/ ApplyVerification(v) \/ BackOffRow(v)

SettlementNext ==
    \/ SetStatus
    \/ \E w \in Admins : RefundDeposit(w) \/ AdminStep(w)
    \/ \E w \in Admins, percent \in Percents : ResolveSettlement(w, percent)
    \/ \E v \in Checkers : CheckerStep(v)
    \/ \E v \in Checkers, p \in PaymentIds : PickDueRow(v, p)
    \/ \E p \in PaymentIds :
          LateArrival(p) \/ TimePasses(p) \/ PayoutMoves(p) \/ RetryPayout(p)
    \/ \E i \in 1..MaxRefunds :
          \/ DeliverWebhook(i)
          \/ \E s \in RefundStatuses : RefundProgresses(i, s)
    \/ \E w \in Procs : Crash(w)

SettlementSpec == SettlementInit /\ [][SettlementNext]_settlementVars

(* The reconciler's passes go on, a due row is not passed over for ever,   *)
(* time passes verifyAfter, and listRefunds does not fail, or lag behind,  *)
(* every single time.  Nothing is assumed of webhooks or administrators.   *)
RefundFairness ==
    /\ \A v \in Checkers :
          /\ WF_settlementVars(CheckerStep(v))
          /\ SF_settlementVars(ListRefunds(v))
          /\ \A p \in PaymentIds : SF_settlementVars(PickDueRow(v, p))
    /\ \A p \in PaymentIds : WF_settlementVars(TimePasses(p))

LiveSettlementSpec == SettlementSpec /\ RefundFairness

-----------------------------------------------------------------------------
(* The shape of the state.                                                 *)
Steps == {"idle", "decide", "insert", "submit", "post", "apply", "payout",
          "initiate", "verify", "list", "match", "backoff"}
Answers == RefundStatuses \cup {"none", "ambiguous", "rejected"}
Process == [pc : Steps, row : PaymentIds \cup {0}, percent : Percents \cup {NoDecision},
            answer : Answers]

SettlementTypeOK ==
    /\ TypeOK
    /\ amount \in [PaymentIds -> Nat]
    /\ cancelled \in BOOLEAN
    /\ settlement \in Percents \cup {NoDecision}
    /\ legsRun \subseteq {"refund", "payout"}
    /\ proc \in [Procs -> Process]
    /\ refunds \in Seq([note : PaymentIds, status : RefundStatuses])
    /\ inTransit \subseteq PaymentIds
    /\ crashes \in 0..MaxCrashes

(* A refund is asked for once per attempt, ever: whoever claims the row    *)
(* first, however its answer is lost, no process sends it a second time.   *)
Live(i) == refunds[i].status # "failed"

OneRefundPerAttempt ==
    \A i, j \in DOMAIN refunds : refunds[i].note = refunds[j].note => i = j

(* A settled REFUND row says what became of its own refund: none called    *)
(* failed while Paystack may still make it -- deriveRefundStatus would let *)
(* an administrator refund again -- and none called made that was not.     *)
RefundBooksMatch ==
    \A p \in RefundRows :
        /\ StatusOf(p) = "SUCCEEDED" =>
              \E i \in DOMAIN refunds :
                  refunds[i] = [note |-> p, status |-> "processed"]
        /\ StatusOf(p) = "FAILED" =>
              \A i \in DOMAIN refunds : refunds[i].note = p => ~Live(i)

(* Kobo refunded, or still to be, and paid out or still to be.             *)
Refunded == MapThenSumSet(LAMBDA i : amount[refunds[i].note],
                          {i \in DOMAIN refunds : Live(i)})
PaidOut  == MapThenSumSet(LAMBDA p : amount[p],
                          {p \in PayRows : StatusOf(p) \in ActiveOrSucceeded})

(* A refund made by refundDeposit, not by the settlement.                  *)
WholeRefund(p) == p \in RefundRows /\ amount[p] = DepositAmount

(* A settlement shares out exactly what is left of the deposit after the   *)
(* platform's fee, and no kobo more, whatever percentages two              *)
(* administrators submit at once, whichever leg fails or is retried.       *)
SettlementConserves ==
    settlement # NoDecision /\ (\A p \in PaymentIds : ~WholeRefund(p)) =>
        Refunded + PaidOut <= Splittable

(* Every row of the settlement carries its share of the one decision that  *)
(* is on record: two administrators submitting 100 % and 0 % do not each   *)
(* get one leg.                                                            *)
LegsFollowDecision ==
    \A p \in RefundRows \cup PayRows : ~WholeRefund(p) =>
        /\ settlement # NoDecision
        /\ amount[p] = IF p \in RefundRows
                         THEN RefundShare(Splittable, settlement)
                         ELSE PayoutShare(Splittable, settlement)

(* A refund leg that fails does not strand the operator: short of a crash, *)
(* once a decision is on record and nobody is carrying it out, every leg   *)
(* it has was got to.                                                      *)
BothLegsRun ==
    /\ settlement # NoDecision
    /\ crashes = 0
    /\ \A w \in Admins : Settles(w) => proc[w].pc = "decide"
    => /\ RefundShare(Splittable, settlement) > 0 => "refund" \in legsRun
       /\ PayoutShare(Splittable, settlement) > 0 => "payout" \in legsRun

(* A refund whose create answer and webhooks were all lost is still found, *)
(* by its note: once Paystack has decided it, its row is not SUBMITTED for *)
(* ever.                                                                   *)
RefundIsLearnt ==
    \A p \in PaymentIds :
        (/\ p \in RefundRows /\ StatusOf(p) = "SUBMITTED"
         /\ \E i \in DOMAIN refunds :
               refunds[i].note = p /\ refunds[i].status \in {"processed", "failed"})
            ~> StatusOf(p) # "SUBMITTED"

-----------------------------------------------------------------------------
(* What the repository says and the code does not do.                      *)

(* A double-click on a refund is said to be "a safe no-op, not a double    *)
(* refund": of all the refunds Paystack holds for the deposit, at most one *)
(* has moved or may still move money.                                      *)
RefundedOnce == \A i, j \in DOMAIN refunds : Live(i) /\ Live(j) => i = j

(* The claim of a settlement is said to close "the cross-endpoint race     *)
(* with refundDeposit": what goes back to the customer and out to the      *)
(* operator never exceeds the deposit.                                     *)
OnlyTheDepositMoves == Refunded + PaidOut <= DepositAmount
=============================================================================
