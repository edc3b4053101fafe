------------------------------- MODULE Payout -------------------------------
(***************************************************************************)
(* The payout of one completed job: PayoutService (the settlement's        *)
(* automatic attempt and the administrator's Retry), the payout branch of  *)
(* PaymentVerifyCheck, the transfer webhooks, and Paystack as a transfer   *)
(* service keyed by our reference.                                         *)
(*                                                                         *)
(* Every database statement and every HTTP call is a step of its own, so   *)
(* the steps of callers, reconciler instances and webhooks interleave; a   *)
(* process may die between any two of them.  Rows are numbered in the      *)
(* order they are inserted, which is the order createdAt sorts by.         *)
(***************************************************************************)
EXTENDS PaymentLedger

CONSTANTS
    Job,          \* the request being paid out
    Callers,      \* concurrent runs of attemptPayout
    Checkers,     \* instances running PaymentVerifyCheck
    MaxCrashes    \* bound on the number of processes that die

ASSUME JobAssumption == Job \in Requests /\ "PAYOUT" \in PaymentTypes
ASSUME PayoutReasons ==
    {"NO_BANK_DETAILS", "INSUFFICIENT_BALANCE", "AWAITING_OTP",
     "PAYSTACK_VALIDATION"} \subseteq BlockReasons
ASSUME OrderAssumption == PaymentIds \subseteq Nat
ASSUME CrashAssumption == MaxCrashes \in Nat

VARIABLES
    hasRecipient,   \* operator.paystackRecipientCode is set
    settled,        \* the settlement has triggered its payout
    proc,           \* callers and checkers: where each is, and its locals
    transfer,       \* Paystack: the transfer under each row's reference
    inTransit,      \* references whose POST outlived the caller's patience
    events,         \* webhooks Paystack may deliver, any number of times
    notices,        \* "you've been paid" messages sent to the operator
    crashes

payoutVars == <<payments, hasRecipient, settled, proc, transfer, inTransit,
                events, notices, crashes>>

Procs == Callers \cup Checkers

Moved == {"success"}
Dead  == {"failed", "abandoned", "reversed"}
TransferStatuses == {"none", "pending", "otp"} \cup Moved \cup Dead
WebhookEvents == {"success", "failed", "reversed"}

(* PaystackTransferResult, and the transfer verification's not_found.      *)
Answers == (TransferStatuses \ {"none"})
             \cup {"none", "ambiguous", "rejected", "duplicate"}

PayRows == RowsOf(Job, "PAYOUT")
Fresh(p) == ~Exists(p) /\ \A q \in PaymentIds : q < p => Exists(q)

Idle == [pc |-> "idle", row |-> 0, goal |-> "transfer", answer |-> "none"]

Goto(w, step) == proc' = [proc EXCEPT ![w].pc = step]
Stop(w) == proc' = [proc EXCEPT ![w] = Idle]

(* mapTransferStatus, for the statuses that settle a row.                  *)
VerdictOf(status) ==
    CASE status = "success"  -> "SUCCEEDED"
      [] status = "reversed" -> "REVERSED"
      [] status \in {"failed", "abandoned"} -> "FAILED"

-----------------------------------------------------------------------------
(* The ledger statements as the code below calls them: the statement when  *)
(* its WHERE clause matches, nothing otherwise.                            *)
Settle(p, verdict) ==
    \/ ClaimTerminal(p, verdict)
    \/ verdict = "SUCCEEDED" /\ RecordDuplicateSuccess(p)
    \/ ~Claimable(p) /\ UNCHANGED payments

ClaimWins(p, verdict) ==
    Claimable(p) /\ (verdict = "SUCCEEDED" => SucceededIndexAllows(p))

RejectIfSubmitted(p, reason) ==                                 \* mutant
    \/ RecordRejection(p, reason)
    \/ StatusOf(p) # "SUBMITTED" /\ UNCHANGED payments

BlockAnyRow(p, reason) ==                                       \* mutant
    payments' = [payments EXCEPT ![p].status = "BLOCKED", ![p].blockReason = reason]

BlockIfSubmitted(p, reason) ==
    \/ RecordBlocked(p, reason)
    \/ StatusOf(p) # "SUBMITTED" /\ UNCHANGED payments

NotifyLosersToo(p, verdict) ==                                  \* mutant
    \/ verdict = "SUCCEEDED" /\ notices' = notices + 1
    \/ UNCHANGED notices

(* notifyPayoutOutcome follows a won claim to SUCCEEDED; the message may   *)
(* fail, or the process die, in between.                                   *)
Notify(p, verdict) ==
    \/ ClaimWins(p, verdict) /\ verdict = "SUCCEEDED" /\ notices' = notices + 1
    \/ UNCHANGED notices

-----------------------------------------------------------------------------
PayoutInit ==
    /\ Init
    /\ hasRecipient \in BOOLEAN
    /\ settled = FALSE
    /\ proc = [w \in Procs |-> Idle]
    /\ transfer = [p \in PaymentIds |-> "none"]
    /\ inTransit = {}
    /\ events = {}
    /\ notices = 0
    /\ crashes = 0

(* finalizeJobSettlement calls createAndProcessPayout, once per settlement.*)
SettleJob(c) ==
    /\ proc[c].pc = "idle"
    /\ ~settled
    /\ settled' = TRUE
    /\ Goto(c, "guards")
    /\ UNCHANGED <<payments, hasRecipient, transfer, inTransit, events,
                   notices, crashes>>

(* isRetryablePayoutState: the transfer never existed at Paystack.         *)
RetryableWhateverTheBlock(p) == StatusOf(p) \in {"FAILED", "BLOCKED"}   \* mutant

Retryable(p) ==
    \/ StatusOf(p) = "FAILED"
    \/ /\ StatusOf(p) = "BLOCKED"
       /\ payments[p].blockReason \notin {NoReason, "AWAITING_OTP",
                                          "NEEDS_CUSTOMER_DETAILS"}

(* retryPayout: the row is retryable, then is found to be the latest       *)
(* attempt, then none is found to have succeeded.  The last two only ever  *)
(* go from true to false, so both already held when the first was read.    *)
RetryPayout(c, p) ==
    /\ proc[c].pc = "idle"
    /\ p \in PayRows
    /\ Retryable(p)
    /\ \A q \in PayRows : q <= p
    /\ \A q \in PayRows : StatusOf(q) # "SUCCEEDED"
    /\ Goto(c, "guards")
    /\ UNCHANGED <<payments, hasRecipient, settled, transfer, inTransit,
                   events, notices, crashes>>

(* attemptPayout's guards: a recipient on file, then Paystack's balance.   *)
(* A checkBalance that throws ends the attempt: the catch writes only a    *)
(* failureReason on rows that already exist.                               *)
AttemptGuards(c) ==
    /\ proc[c].pc = "guards"
    /\ \/ /\ ~hasRecipient
          /\ proc' = [proc EXCEPT ![c].pc = "find", ![c].goal = "NO_BANK_DETAILS"]
       \/ /\ hasRecipient
          /\ \/ proc' = [proc EXCEPT ![c].pc = "find",
                                     ![c].goal = "INSUFFICIENT_BALANCE"]
             \/ proc' = [proc EXCEPT ![c].pc = "find"]
             \/ Stop(c)
    /\ UNCHANGED <<payments, hasRecipient, settled, transfer, inTransit,
                   events, notices, crashes>>

(* claimPayoutPayment, the read: an unordered findFirst over the statuses  *)
(* that mean "this payout is already somewhere".                           *)
ExistingWithoutSucceeded == {p \in PayRows : StatusOf(p) \in InFlight}   \* mutant

Existing == {p \in PayRows : StatusOf(p) \in InFlight \cup {"SUCCEEDED"}}

FindExisting(c) ==
    /\ proc[c].pc = "find"
    /\ \/ Existing = {} /\ Goto(c, "insert")
       \/ \E p \in Existing :
             \/ /\ StatusOf(p) = "PENDING"
                /\ proc' = [proc EXCEPT ![c].pc = "claim", ![c].row = p]
             \/ /\ StatusOf(p) = "BLOCKED"
                /\ proc' = [proc EXCEPT ![c].pc = "unblock", ![c].row = p]
             \/ StatusOf(p) \in {"SUBMITTED", "SUCCEEDED"} /\ Stop(c)
    /\ UNCHANGED <<payments, hasRecipient, settled, transfer, inTransit,
                   events, notices, crashes>>

(* ... and the write: a new row.  The catch takes any refusal -- by the    *)
(* in-flight index, of a deleted operator -- as somebody else's payout.    *)
InsertPayment(c) ==
    /\ proc[c].pc = "insert"
    /\ \/ \E p \in PaymentIds :
             /\ Fresh(p)
             /\ Create(p, Job, "PAYOUT")
             /\ proc' = [proc EXCEPT ![c].pc = "claim", ![c].row = p]
       \/ Stop(c) /\ UNCHANGED payments
    /\ UNCHANGED <<hasRecipient, settled, transfer, inTransit, events, notices,
                   crashes>>

(* A won claim goes on to Paystack, or to the block it was made for.       *)
AfterClaim(c) == IF proc[c].goal = "transfer" THEN "post" ELSE "block"

ClaimPayout(c) ==
    /\ \/ proc[c].pc = "claim" /\ ClaimForSubmission(proc[c].row) /\ Goto(c, AfterClaim(c))
       \/ proc[c].pc = "unblock" /\ Unblock(proc[c].row) /\ Goto(c, AfterClaim(c))
       \/ /\ \/ proc[c].pc = "claim" /\ StatusOf(proc[c].row) # "PENDING"
             \/ proc[c].pc = "unblock" /\ StatusOf(proc[c].row) # "BLOCKED"
          /\ Stop(c)
          /\ UNCHANGED payments
    /\ UNCHANGED <<hasRecipient, settled, transfer, inTransit, events, notices,
                   crashes>>

(* blockPayment: our own block, on a row that never reached Paystack.      *)
BlockPayment(c) ==
    /\ proc[c].pc = "block"
    /\ BlockIfSubmitted(proc[c].row, proc[c].goal)
    /\ Stop(c)
    /\ UNCHANGED <<hasRecipient, settled, transfer, inTransit, events, notices,
                   crashes>>

-----------------------------------------------------------------------------
(* Paystack.                                                               *)

(* Announce the transfer's new status; nothing announces an abandoned one. *)
Announce(p, status) ==
    events' = IF status \in WebhookEvents THEN events \cup {<<p, status>>} ELSE events

(* Validation passed: a transfer exists under the reference from now on.   *)
AcceptTransfer(p, status) ==
    /\ transfer[p] = "none"
    /\ status \in {"pending", "otp", "success"}
    /\ transfer' = [transfer EXCEPT ![p] = status]
    /\ Announce(p, status)

AcceptDuplicates(p, status) ==                                  \* mutant
    /\ status \in {"pending", "otp", "success"}
    /\ transfer' = [transfer EXCEPT ![p] = status]
    /\ Announce(p, status)

(* initiateTransfer: Paystack answers, or the answer is lost, or the POST  *)
(* is (for now, or for good).  An answer below 500 whose body cannot be    *)
(* parsed reads as a rejection, whatever Paystack did.                     *)
PostTransfer(w) ==
    LET p == proc[w].row
        Answer(a) == proc' = [proc EXCEPT ![w].pc = "apply", ![w].answer = a]
    IN
    /\ proc[w].pc \in {"post", "repost"}
    /\ \/ \E s \in TransferStatuses :
             /\ AcceptTransfer(p, s)
             /\ \E a \in {s, "ambiguous", "rejected"} : Answer(a)
             /\ UNCHANGED inTransit
       \/ /\ \/ Answer("rejected")
             \/ transfer[p] # "none" /\ Answer("duplicate")
          /\ UNCHANGED <<transfer, events, inTransit>>
       \/ /\ Answer("ambiguous")
          /\ inTransit' \in {inTransit, inTransit \cup {p}}
          /\ UNCHANGED <<transfer, events>>
    /\ UNCHANGED <<payments, hasRecipient, settled, notices, crashes>>

(* A POST its caller has given up on reaches Paystack after all.           *)
LateArrival(p) ==
    /\ p \in inTransit
    /\ inTransit' = inTransit \ {p}
    /\ \/ \E s \in TransferStatuses : AcceptTransfer(p, s)
       \/ UNCHANGED <<transfer, events>>
    /\ UNCHANGED <<payments, hasRecipient, settled, proc, notices, crashes>>

TransferProgresses(p, status) ==
    /\ \/ transfer[p] = "pending" /\ status \in {"success", "failed", "reversed"}
       \/ transfer[p] = "otp" /\ status \in {"pending", "abandoned"}
    /\ transfer' = [transfer EXCEPT ![p] = status]
    /\ Announce(p, status)
    /\ UNCHANGED <<payments, hasRecipient, settled, proc, inTransit, notices,
                   crashes>>

-----------------------------------------------------------------------------
(* PayoutService.applyTransferResult: a response never settles a payout as *)
(* SUCCEEDED.                                                              *)
ApplyResponse(c) ==
    LET p == proc[c].row
        a == proc[c].answer
    IN
    /\ proc[c].pc = "apply" /\ c \in Callers
    /\ \/ a = "rejected" /\ BlockIfSubmitted(p, "PAYSTACK_VALIDATION")
       \/ a = "otp" /\ BlockIfSubmitted(p, "AWAITING_OTP")
       \/ a \in Dead /\ Settle(p, VerdictOf(a))
       \/ a \in {"ambiguous", "duplicate", "pending", "success"} /\ UNCHANGED payments
    /\ Stop(c)
    /\ UNCHANGED <<hasRecipient, settled, transfer, inTransit, events, notices,
                   crashes>>

-----------------------------------------------------------------------------
PickOnlyPending(v, p) ==                                        \* mutant
    /\ proc[v].pc = "idle"
    /\ payments[p].verifyDue
    /\ StatusOf(p) = "PENDING"
    /\ proc' = [proc EXCEPT ![v].pc = "initiate", ![v].row = p]
    /\ UNCHANGED <<payments, hasRecipient, settled, transfer, inTransit,
                   events, notices, crashes>>

PickOnlySubmitted(v, p) ==                                      \* mutant
    /\ proc[v].pc = "idle"
    /\ payments[p].verifyDue
    /\ StatusOf(p) = "SUBMITTED"
    /\ proc' = [proc EXCEPT ![v].pc = "verify", ![v].row = p]
    /\ UNCHANGED <<payments, hasRecipient, settled, transfer, inTransit,
                   events, notices, crashes>>

(* PaymentVerifyCheck.run: the rows that are due, with the status they had *)
(* when the query ran.  BLOCKED is deliberately absent.                    *)
PickDueRow(v, p) ==
    /\ proc[v].pc = "idle"
    /\ payments[p].verifyDue
    /\ \/ StatusOf(p) = "PENDING" /\ proc' = [proc EXCEPT ![v].pc = "initiate", ![v].row = p]
       \/ StatusOf(p) = "SUBMITTED" /\ proc' = [proc EXCEPT ![v].pc = "verify", ![v].row = p]
    /\ UNCHANGED <<payments, hasRecipient, settled, transfer, inTransit,
                   events, notices, crashes>>

InitiateUnclaimed(v) ==                                         \* mutant
    /\ proc[v].pc = "initiate"
    /\ IF hasRecipient THEN Goto(v, "post") ELSE Stop(v)
    /\ UNCHANGED <<payments, hasRecipient, settled, transfer, inTransit,
                   events, notices, crashes>>

(* initiate and initiatePayout: the same claim as the normal path; without *)
(* a recipient code it escalates and leaves the row SUBMITTED.             *)
InitiatePayout(v) ==
    /\ proc[v].pc = "initiate"
    /\ \/ /\ ClaimForSubmission(proc[v].row)
          /\ IF hasRecipient THEN Goto(v, "post") ELSE Stop(v)
       \/ /\ StatusOf(proc[v].row) # "PENDING"
          /\ Stop(v)
          /\ UNCHANGED payments
    /\ UNCHANGED <<hasRecipient, settled, transfer, inTransit, events, notices,
                   crashes>>

(* verify: a row a webhook has settled meanwhile is left alone.            *)
RereadRow(v) ==
    /\ proc[v].pc = "verify"
    /\ IF StatusOf(proc[v].row) = "SUBMITTED" THEN Goto(v, "ask") ELSE Stop(v)
    /\ UNCHANGED <<payments, hasRecipient, settled, transfer, inTransit,
                   events, notices, crashes>>

(* A "not found" is never definitive for outbound money: the identical     *)
(* reference is sent again, until MAX_VERIFY_ATTEMPTS, then escalated.     *)
NotFound(v) ==
    /\ proc[v].pc = "ask"
    /\ IF payments[proc[v].row].verifyAttempts < VerifyAttemptCap /\ hasRecipient
         THEN Goto(v, "repost")
         ELSE Goto(v, "backoff")

(* verifyTransfer, answered from the transfer Paystack holds ...           *)
AskPaystack(v) ==
    /\ proc[v].pc = "ask"
    /\ \/ transfer[proc[v].row] = "none" /\ NotFound(v)
       \/ /\ transfer[proc[v].row] # "none"
          /\ proc' = [proc EXCEPT ![v].pc = "apply",
                                  ![v].answer = transfer[proc[v].row]]
    /\ UNCHANGED <<payments, hasRecipient, settled, transfer, inTransit,
                   events, notices, crashes>>

(* ... or not answered, or answered by a read that lags behind.            *)
AskInVain(v) ==
    /\ proc[v].pc = "ask"
    /\ Goto(v, "backoff") \/ NotFound(v)
    /\ UNCHANGED <<payments, hasRecipient, settled, transfer, inTransit,
                   events, notices, crashes>>

(* PaymentVerifyCheck.applyTransferResult: unlike the response to a POST   *)
(* of PayoutService, it may settle the row as SUCCEEDED and then notifies. *)
(* A row that has not reached a stopping point is backed off.              *)
ApplyVerification(v) ==
    LET p == proc[v].row
        a == proc[v].answer
    IN
    /\ proc[v].pc = "apply" /\ v \in Checkers
    /\ \/ /\ a = "rejected" /\ BlockIfSubmitted(p, "PAYSTACK_VALIDATION")
          /\ Stop(v) /\ UNCHANGED notices
       \/ /\ a = "otp" /\ BlockIfSubmitted(p, "AWAITING_OTP")
          /\ Stop(v) /\ UNCHANGED notices
       \/ /\ a \in Moved \cup Dead
          /\ Settle(p, VerdictOf(a))
          /\ Notify(p, VerdictOf(a))
          /\ Stop(v)
       \/ /\ a \in {"ambiguous", "duplicate", "pending"}
          /\ Goto(v, "backoff")
          /\ UNCHANGED <<payments, notices>>
    /\ UNCHANGED <<hasRecipient, settled, transfer, inTransit, events, crashes>>

BackOffRow(v) ==
    /\ proc[v].pc = "backoff"
    /\ BackOff(proc[v].row)
    /\ Stop(v)
    /\ UNCHANGED <<hasRecipient, settled, transfer, inTransit, events, notices,
                   crashes>>

(* handlePaystackWebhook, transfer.*: settle the row the reference names;  *)
(* only the delivery whose claim wins a success notifies the operator.     *)
DeliverWebhook(p, status) ==
    /\ <<p, status>> \in events
    /\ Settle(p, VerdictOf(status))
    /\ Notify(p, VerdictOf(status))
    /\ UNCHANGED <<hasRecipient, settled, proc, transfer, inTransit, events,
                   crashes>>

-----------------------------------------------------------------------------
(* The operator adds bank details; saveBankDetails creates the recipient.  *)
SaveBankDetails ==
    /\ ~hasRecipient
    /\ hasRecipient' = TRUE
    /\ UNCHANGED <<payments, settled, proc, transfer, inTransit, events,
                   notices, crashes>>

TimePasses(p) ==
    /\ VerifyAfterPasses(p)
    /\ UNCHANGED <<hasRecipient, settled, proc, transfer, inTransit, events,
                   notices, crashes>>

(* A process dies between two steps; nothing of its locals survives.       *)
Crash(w) ==
    /\ proc[w].pc # "idle"
    /\ crashes < MaxCrashes
    /\ crashes' = crashes + 1
    /\ Stop(w)
    /\ UNCHANGED <<payments, hasRecipient, settled, transfer, inTransit,
                   events, notices>>

CallerStep(c) ==
    \/ AttemptGuards(c) \/ FindExisting(c) \/ InsertPayment(c)
    \/ ClaimPayout(c) \/ BlockPayment(c) \/ PostTransfer(c) \/ ApplyResponse(c)

CheckerStep(v) ==
    \/ InitiatePayout(v) \/ RereadRow(v) \/ AskPaystack(v) \/ AskInVain(v)
    \/ PostTransfer(v) \/ ApplyVerification(v) \/ BackOffRow(v)

PayoutNext ==
    \/ \E c \in Callers : SettleJob(c) \/ CallerStep(c)
    \/ \E c \in Callers, p \in PaymentIds : RetryPayout(c, p)
    \/ \E v \in Checkers : CheckerStep(v)
    \/ \E v \in Checkers, p \in PaymentIds : PickDueRow(v, p)
    \/ \E p \in PaymentIds : LateArrival(p) \/ TimePasses(p)
    \/ \E p \in PaymentIds, s \in TransferStatuses :
          TransferProgresses(p, s) \/ DeliverWebhook(p, s)
    \/ SaveBankDetails
    \/ \E w \in Procs : Crash(w)

PayoutSpec == PayoutInit /\ [][PayoutNext]_payoutVars

(* The reconciler ticks on every instance for as long as the service runs: *)
(* a pass that has started continues, a due row is not passed over forever *)
(* (100 rows are taken per pass), time passes verifyAfter, and Paystack's  *)
(* verify endpoint does not fail every single time it is asked.  Nothing   *)
(* is assumed of webhooks, of callers or of administrators.                *)
ReconcilerFairness ==
    /\ \A v \in Checkers :
          /\ WF_payoutVars(CheckerStep(v))
          /\ SF_payoutVars(AskPaystack(v))
          /\ \A p \in PaymentIds : SF_payoutVars(PickDueRow(v, p))
    /\ \A p \in PaymentIds : WF_payoutVars(TimePasses(p))

LivePayoutSpec == PayoutSpec /\ ReconcilerFairness

-----------------------------------------------------------------------------
(* The shape of the state.                                                 *)
Steps == {"idle", "guards", "find", "insert", "claim", "unblock", "block", "post",
          "repost", "apply", "initiate", "verify", "ask", "backoff"}
Goals == {"transfer", "NO_BANK_DETAILS", "INSUFFICIENT_BALANCE"}
Process == [pc : Steps, row : PaymentIds \cup {0}, goal : Goals, answer : Answers]

PayoutTypeOK ==
    /\ TypeOK
    /\ hasRecipient \in BOOLEAN /\ settled \in BOOLEAN
    /\ proc \in [Procs -> Process]
    /\ transfer \in [PaymentIds -> TransferStatuses]
    /\ inTransit \subseteq PaymentIds
    /\ events \subseteq PaymentIds \X WebhookEvents
    /\ notices \in Nat /\ crashes \in 0..MaxCrashes

(* The operator is never paid twice, nor can be: of all the transfers made *)
(* for a job, over lost answers, resubmissions, crashes and retries, at    *)
(* most one has moved or may still move money.                             *)
Movable(p) == transfer[p] \in {"pending", "otp"} \cup Moved

OneLiveTransfer ==
    \A p, q \in PaymentIds : Movable(p) /\ Movable(q) => p = q

(* What a settled row says is what happened to its transfer: nothing is    *)
(* called failed that may still move, nothing paid that was not.           *)
BooksMatchMoney ==
    \A p \in PaymentIds :
        /\ StatusOf(p) \in {"SUCCEEDED", "DUPLICATE_SUCCEEDED"} => transfer[p] \in Moved
        /\ StatusOf(p) \in {"FAILED", "REVERSED"} => transfer[p] \in Dead

(* PENDING provably never left: no transfer, no POST under way and nobody  *)
(* about to make one.  This is what lets the reconciler initiate such a    *)
(* row without asking Paystack about it first.                             *)
PendingNeverLeft ==
    \A p \in PaymentIds : StatusOf(p) = "PENDING" =>
        /\ transfer[p] = "none"
        /\ p \notin inTransit
        /\ \A w \in Procs :
              proc[w].row = p => proc[w].pc \notin {"post", "repost", "apply"}

(* However many webhooks and verifications report a success, the operator  *)
(* is told once, and only of money recorded as paid.                       *)
ToldOnce ==
    /\ notices <= 1
    /\ notices = 1 => \E p \in PayRows : StatusOf(p) = "SUCCEEDED"

(* Callers, passes and webhooks change the Payment table only as the       *)
(* ledger allows, so what is proved of PaymentLedger holds here.           *)
LedgerDiscipline == Spec

(* The stuck payout: once Paystack has decided a transfer, its row does    *)
(* not stay SUBMITTED, even if every webhook is lost.                      *)
DecidedTransferIsLearnt ==
    \A p \in PaymentIds :
        (StatusOf(p) = "SUBMITTED" /\ transfer[p] \in Moved \cup Dead)
            ~> StatusOf(p) # "SUBMITTED"

(* A row whose process died between the INSERT and the claim is picked up. *)
PendingIsChased ==
    \A p \in PaymentIds : StatusOf(p) = "PENDING" ~> StatusOf(p) # "PENDING"

-----------------------------------------------------------------------------
(* What the repository says and the code does not do.                      *)

(* payout.service.ts says the lookup of claimPayoutPayment is "the real    *)
(* guard" against two administrators retrying at once.                     *)
PaidAtMostOnce == Cardinality({p \in PaymentIds : transfer[p] \in Moved}) <= 1

=============================================================================
