----------------------------- MODULE Collection -----------------------------
(***************************************************************************)
(* Collecting a request's deposit and balance: the handlers that open a    *)
(* collection and send its checkout link, the collection branch of         *)
(* PaymentVerifyCheck, the charge webhooks, DepositExpiryCheck and         *)
(* DepositReminderCheck, what PaymentEventsService does with a settled     *)
(* payment, and Paystack as a checkout keyed by our reference.             *)
(*                                                                         *)
(* Every committed statement (or transaction) and every HTTP call is a     *)
(* step of its own; a process may die between any two.  OPERATOR_ASSIGNED  *)
(* stands for the statuses an operator works a job in: OPERATOR_ASSIGNED,  *)
(* IN_PROGRESS, ARRIVED.                                                   *)
(***************************************************************************)
EXTENDS PaymentLedger

CONSTANTS
    Job,          \* the request being paid for
    Handlers,     \* concurrent message handlers and administrator requests
    Hooks,        \* concurrent webhook deliveries
    Checkers,     \* instances running PaymentVerifyCheck
    SlowPosts,    \* may a POST be under way for longer than
                  \* INITIAL_VERIFY_DELAY_MS?
    MaxCrashes    \* bound on the number of processes that die

ASSUME JobAssumption == Job \in Requests /\ {"DEPOSIT", "BALANCE"} \subseteq PaymentTypes
ASSUME OrderAssumption == PaymentIds \subseteq Nat \ {0}
ASSUME SlowAssumption == SlowPosts \in BOOLEAN
ASSUME CrashAssumption == MaxCrashes \in Nat

VARIABLES
    request,     \* the RescueRequest row
    offer,       \* status of the assigned operator's DispatchOffer
    proc,        \* where each process is, and its locals
    charge,      \* Paystack: the transaction under each row's reference
    inTransit,   \* references whose POST outlived its caller
    links,       \* checkout links the customer holds
    events,      \* charge.success webhooks, each delivered any number of times
    settlements, \* times finalizeJobSettlement reached the payout
    crashes

collectionVars == <<payments, request, offer, proc, charge, inTransit, links,
                    events, settlements, crashes>>

Procs == Handlers \cup Hooks \cup Checkers

RequestStatuses == {"DISPATCHING", "WAITING_FOR_DEPOSIT", "OPERATOR_ASSIGNED",
                    "COMPLETED", "CANCELLED"}
OfferStatuses == {"QUOTED", "SELECTED_PENDING_PAYMENT", "ACCEPTED", "TIMED_OUT",
                  "NOT_SELECTED"}
ChargeStatuses == {"none", "open", "paid", "failed"}

Fresh(p) == ~Exists(p) /\ \A q \in PaymentIds : q < p => Exists(q)
Succeeded(t) == \E p \in RowsOf(Job, t) : StatusOf(p) = "SUCCEEDED"

Idle == [pc |-> "idle", row |-> 0, answer |-> "none", noUrl |-> FALSE]
Goto(w, step) == proc' = [proc EXCEPT ![w].pc = step]
Stop(w) == proc' = [proc EXCEPT ![w] = Idle]
At(w, step) == proc[w].pc = step

(* The half of the state a step of the payment side leaves alone, and the  *)
(* half a step of the request side does.                                   *)
requestVars  == <<request, offer, settlements, crashes>>
paystackVars == <<charge, inTransit, links, events>>

-----------------------------------------------------------------------------
CollectionInit ==
    /\ Init
    /\ request \in [status : {"DISPATCHING"}, overdue : {FALSE}, url : {0},
                    balanceDue : BOOLEAN]
    /\ offer = "QUOTED"
    /\ proc = [w \in Procs |-> Idle]
    /\ charge = [p \in PaymentIds |-> "none"]
    /\ inTransit = {} /\ links = {} /\ events = {}
    /\ settlements = 0 /\ crashes = 0

(* The transaction both paths to a deposit commit: the request waits for   *)
(* it behind a fresh deadline, the operator's offer is held, and the row   *)
(* is there.  A refusal by the in-flight index rolls all of it back.       *)
OpenDeposit(h) ==
    /\ request' = [request EXCEPT !.status = "WAITING_FOR_DEPOSIT", !.overdue = FALSE]
    /\ offer' = "SELECTED_PENDING_PAYMENT"
    /\ \E p \in PaymentIds :
          /\ Fresh(p)
          /\ Create(p, Job, "DEPOSIT")
          /\ proc' = [proc EXCEPT ![h].pc = "claim", ![h].row = p]
    /\ UNCHANGED <<paystackVars, settlements, crashes>>

(* handleQuoteSelected: the customer picks one of the quotes.              *)
SelectQuote(h) ==
    /\ At(h, "idle")
    /\ request.status = "DISPATCHING"
    /\ OpenDeposit(h)

(* assignOperator: an administrator assigns an operator to any request     *)
(* that has not ended.                                                     *)
AssignOperator(h) ==
    /\ At(h, "idle")
    /\ request.status \notin {"COMPLETED", "CANCELLED"}
    /\ OpenDeposit(h)

(* The claim that precedes the HTTP call: a handler's own, or initiate's   *)
(* for a row whose handler died.  The loser does nothing at all.           *)
Claim(w) ==
    /\ At(w, "claim")
    /\ \/ ClaimForSubmission(proc[w].row) /\ Goto(w, "post")
       \/ /\ StatusOf(proc[w].row) # "PENDING"
          /\ Stop(w)
          /\ UNCHANGED payments
    /\ UNCHANGED <<requestVars, paystackVars>>

(* initializePayment.  An answer below 500 whose body cannot be parsed     *)
(* reads as a rejection, whatever Paystack did.                            *)
PostInitialize(w) ==
    LET p == proc[w].row
        Answer(a) == proc' = [proc EXCEPT ![w].pc = "apply", ![w].answer = a]
    IN
    /\ At(w, "post")
    /\ \/ /\ charge[p] = "none"
          /\ charge' = [charge EXCEPT ![p] = "open"]
          /\ \E a \in {"ok", "ambiguous", "rejected"} : Answer(a)
          /\ UNCHANGED inTransit
       \/ Answer("rejected") /\ UNCHANGED <<charge, inTransit>>
       \/ /\ Answer("ambiguous")
          /\ inTransit' \in {inTransit, inTransit \cup {p}}
          /\ UNCHANGED charge
    /\ UNCHANGED <<payments, requestVars, links, events>>

(* ... and what its caller does with the answer: an inconclusive one       *)
(* leaves the row SUBMITTED, with no link.                                 *)
RequeueRejected(w) ==                                           \* mutant
    /\ At(w, "apply")
    /\ payments' = [payments EXCEPT ![proc[w].row].status = "PENDING"]
    /\ Stop(w)
    /\ UNCHANGED <<requestVars, paystackVars>>

ApplyInitialize(w) ==
    LET p == proc[w].row IN
    /\ At(w, "apply")
    /\ \/ /\ proc[w].answer = "ambiguous"
          /\ Stop(w)
          /\ UNCHANGED payments
       \/ /\ proc[w].answer = "rejected"
          /\ \/ RecordRejection(p, NoReason)
             \/ StatusOf(p) # "SUBMITTED" /\ UNCHANGED payments
          /\ Stop(w)
       \/ /\ proc[w].answer = "ok"
          /\ StoreCheckoutUrl(p)
          /\ Goto(w, "stored")
    /\ UNCHANGED <<requestVars, paystackVars>>

(* A deposit's link is kept on the request too, for the reminders ...      *)
KeepDepositUrl(w) ==
    /\ At(w, "stored")
    /\ request' = IF payments[proc[w].row].type = "DEPOSIT"
                    THEN [request EXCEPT !.url = proc[w].row] ELSE request
    /\ Goto(w, "send")
    /\ UNCHANGED <<payments, offer, settlements, crashes, paystackVars>>

(* ... and goes out in a message, which may fail.                          *)
SendLink(w) ==
    /\ At(w, "send")
    /\ links' \in {links, links \cup {proc[w].row}}
    /\ Stop(w)
    /\ UNCHANGED <<payments, requestVars, charge, inTransit, events>>

-----------------------------------------------------------------------------
(* Paystack and the customer.                                              *)
LateArrival(p) ==
    /\ p \in inTransit
    /\ inTransit' = inTransit \ {p}
    /\ charge' = IF charge[p] = "none" THEN [charge EXCEPT ![p] = "open"] ELSE charge
    /\ UNCHANGED <<payments, requestVars, proc, links, events>>

(* Only the holder of a link can pay.                                      *)
CustomerPays(p) ==
    /\ p \in links
    /\ charge[p] = "open"
    /\ charge' = [charge EXCEPT ![p] = "paid"]
    /\ events' = events \cup {p}
    /\ UNCHANGED <<payments, requestVars, proc, inTransit, links>>

ChargeFails(p) ==
    /\ p \in links
    /\ charge[p] = "open"
    /\ charge' = [charge EXCEPT ![p] = "failed"]
    /\ UNCHANGED <<payments, requestVars, proc, inTransit, links, events>>

-----------------------------------------------------------------------------
(* A success is claimed; only the caller whose claim wins goes on to the   *)
(* business side effects.                                                  *)
Confirming(p) == IF payments[p].type = "DEPOSIT" THEN "confirmDeposit" ELSE "finalize"

ConfirmWhoeverAsks(w, p) ==                                     \* mutant
    /\ \/ ClaimTerminal(p, "SUCCEEDED")
       \/ RecordDuplicateSuccess(p)
       \/ ~Claimable(p) /\ UNCHANGED payments
    /\ proc' = [proc EXCEPT ![w] = [Idle EXCEPT !.pc = Confirming(p), !.row = p]]

SettleSuccess(w, p) ==
    \/ /\ ClaimTerminal(p, "SUCCEEDED")
       /\ proc' = [proc EXCEPT ![w] = [Idle EXCEPT !.pc = Confirming(p), !.row = p]]
    \/ RecordDuplicateSuccess(p) /\ Stop(w)
    \/ ~Claimable(p) /\ Stop(w) /\ UNCHANGED payments

(* handlePaystackWebhook, charge.success; settle swallows every error, and *)
(* then the delivery has had no effect.                                    *)
DeliverCharge(k, p) ==
    /\ At(k, "idle")
    /\ p \in events
    /\ SettleSuccess(k, p)
    /\ UNCHANGED <<requestVars, paystackVars>>

(* confirmDeposit reads the request's status.  On a CANCELLED request a    *)
(* late deposit is only announced; elsewhere it is reported.               *)
ConfirmDeposit(w) ==
    /\ At(w, "confirmDeposit")
    /\ IF request.status = "WAITING_FOR_DEPOSIT" THEN Goto(w, "assign") ELSE Stop(w)
    /\ UNCHANGED <<payments, requestVars, paystackVars>>

(* ... and then writes it, with no condition on what it read.              *)
MarkAssigned(w) ==
    /\ At(w, "assign")
    /\ request' = [request EXCEPT !.status = "OPERATOR_ASSIGNED"]
    /\ Goto(w, "activate")
    /\ UNCHANGED <<payments, offer, settlements, crashes, paystackVars>>

(* activateAssignedJob: the offer is awarded only now.                     *)
ActivateAssignedJob(w) ==
    /\ At(w, "activate")
    /\ offer' = IF offer = "SELECTED_PENDING_PAYMENT" THEN "ACCEPTED" ELSE offer
    /\ Stop(w)
    /\ UNCHANGED <<payments, request, settlements, crashes, paystackVars>>

(* finalizeJobSettlement, reached from confirmBalance and from a job whose *)
(* deposit covered everything.                                             *)
FinalizeJobSettlement(w) ==
    /\ At(w, "finalize")
    /\ request' = [request EXCEPT !.status = "COMPLETED"]
    /\ Goto(w, "payOperator")
    /\ UNCHANGED <<payments, offer, settlements, crashes, paystackVars>>

(* createAndProcessPayout -- unless one of the messages and session writes *)
(* before it throws, which ends the settlement there.                      *)
PayOperator(w) ==
    /\ At(w, "payOperator")
    /\ settlements' \in {settlements, settlements + 1}
    /\ Stop(w)
    /\ UNCHANGED <<payments, request, offer, crashes, paystackVars>>

-----------------------------------------------------------------------------
(* PaymentVerifyCheck.run: the rows that are due, with the status they had *)
(* when the query ran.                                                     *)
PickOnlyPending(v, p) ==                                        \* mutant
    /\ At(v, "idle")
    /\ payments[p].verifyDue
    /\ StatusOf(p) = "PENDING"
    /\ proc' = [proc EXCEPT ![v].pc = "claim", ![v].row = p]
    /\ UNCHANGED <<payments, requestVars, paystackVars>>

PickDueRow(v, p) ==
    /\ At(v, "idle")
    /\ payments[p].verifyDue
    /\ \/ StatusOf(p) = "PENDING" /\ proc' = [proc EXCEPT ![v].pc = "claim", ![v].row = p]
       \/ StatusOf(p) = "SUBMITTED" /\ proc' = [proc EXCEPT ![v].pc = "verify", ![v].row = p]
    /\ UNCHANGED <<payments, requestVars, paystackVars>>

(* verify reads the row again; whether a link was ever stored is decided   *)
(* on this copy.                                                           *)
RereadRow(v) ==
    /\ At(v, "verify")
    /\ IF StatusOf(proc[v].row) = "SUBMITTED"
         THEN proc' = [proc EXCEPT ![v].pc = "ask",
                                   ![v].noUrl = ~payments[proc[v].row].checkoutUrl]
         ELSE Stop(v)
    /\ UNCHANGED <<payments, requestVars, paystackVars>>

(* verifyTransaction, answered from the transaction Paystack holds ...     *)
AskAnythingFinal(v) ==                                          \* mutant
    /\ At(v, "ask")
    /\ Goto(v, IF charge[proc[v].row] \in {"paid", "failed"} THEN "succeed" ELSE "wait")
    /\ UNCHANGED <<payments, requestVars, paystackVars>>

AskPaystack(v) ==
    LET c == charge[proc[v].row]
        verdict == CASE c = "none"   -> "fail"
                     [] c = "failed" -> "fail"
                     [] c = "paid"   -> "succeed"
                     [] c = "open"   -> IF proc[v].noUrl THEN "fail" ELSE "wait"
    IN
    /\ At(v, "ask")
    /\ Goto(v, verdict)
    /\ UNCHANGED <<payments, requestVars, paystackVars>>

(* ... or not answered, or with a rejection nobody expected.               *)
AskInVain(v) ==
    /\ At(v, "ask")
    /\ Goto(v, "backoff")
    /\ UNCHANGED <<payments, requestVars, paystackVars>>

(* The verdict of an unpayable transaction: failing inbound money is safe  *)
(* as long as nobody holds a link to it.                                   *)
FailOpenCharges(v) ==                                           \* mutant
    /\ \/ At(v, "fail") \/ At(v, "wait")
    /\ \/ ClaimTerminal(proc[v].row, "FAILED")
       \/ ~Claimable(proc[v].row) /\ UNCHANGED payments
    /\ Stop(v)
    /\ UNCHANGED <<requestVars, paystackVars>>

WaitForLostLink(v) ==                                           \* mutant
    /\ At(v, "fail")
    /\ IF charge[proc[v].row] = "open"
         THEN Goto(v, "backoff") /\ UNCHANGED payments
         ELSE /\ \/ ClaimTerminal(proc[v].row, "FAILED")
                 \/ ~Claimable(proc[v].row) /\ UNCHANGED payments
              /\ Stop(v)
    /\ UNCHANGED <<requestVars, paystackVars>>

ConfirmWhateverSettles(v) ==                                    \* mutant
    /\ At(v, "fail")
    /\ \/ ClaimTerminal(proc[v].row, "FAILED") /\ Goto(v, Confirming(proc[v].row))
       \/ ~Claimable(proc[v].row) /\ Stop(v) /\ UNCHANGED payments
    /\ UNCHANGED <<requestVars, paystackVars>>

FailCollection(v) ==
    /\ At(v, "fail")
    /\ \/ ClaimTerminal(proc[v].row, "FAILED")
       \/ ~Claimable(proc[v].row) /\ UNCHANGED payments
    /\ Stop(v)
    /\ UNCHANGED <<requestVars, paystackVars>>

SettleVerified(v) ==
    /\ At(v, "succeed")
    /\ SettleSuccess(v, proc[v].row)
    /\ UNCHANGED <<requestVars, paystackVars>>

(* An unpaid transaction is polled for ever.  A balance's link is sent     *)
(* again while the request stands; a deposit's is left to the reminders.   *)
ResendBalanceLink(v) ==
    LET p == proc[v].row IN
    /\ At(v, "wait")
    /\ links' \in {links} \cup
          (IF payments[p].type = "BALANCE" /\ request.status # "CANCELLED"
             THEN {links \cup {p}} ELSE {})
    /\ Goto(v, "backoff")
    /\ UNCHANGED <<payments, requestVars, charge, inTransit, events>>

BackOffRow(v) ==
    /\ At(v, "backoff")
    /\ BackOff(proc[v].row)
    /\ Stop(v)
    /\ UNCHANGED <<requestVars, paystackVars>>

-----------------------------------------------------------------------------
(* DepositReminderCheck.send: the link the request carries, once more.     *)
RemindDeposit ==
    /\ request.status = "WAITING_FOR_DEPOSIT" /\ ~request.overdue
    /\ request.url # 0
    /\ links' = links \cup {request.url}
    /\ UNCHANGED <<payments, requestVars, proc, charge, inTransit, events>>

(* DepositExpiryCheck.expire: the claim and what must agree with it commit *)
(* together.                                                               *)
ExpireUnlessPaid ==                                             \* mutant
    /\ request.status = "WAITING_FOR_DEPOSIT" /\ request.overdue
    /\ ~Succeeded("DEPOSIT")
    /\ request' = [request EXCEPT !.status = "CANCELLED"]
    /\ offer' = IF offer = "SELECTED_PENDING_PAYMENT" THEN "TIMED_OUT" ELSE offer
    /\ UNCHANGED <<payments, proc, settlements, crashes, paystackVars>>

ExpireDeposit ==
    /\ request.status = "WAITING_FOR_DEPOSIT" /\ request.overdue
    /\ request' = [request EXCEPT !.status = "CANCELLED"]
    /\ offer' = IF offer = "SELECTED_PENDING_PAYMENT" THEN "TIMED_OUT" ELSE offer
    /\ UNCHANGED <<payments, proc, settlements, crashes, paystackVars>>

DeadlinePasses ==
    /\ request.status = "WAITING_FOR_DEPOSIT" /\ ~request.overdue
    /\ request' = [request EXCEPT !.overdue = TRUE]
    /\ UNCHANGED <<payments, offer, proc, settlements, crashes, paystackVars>>

(* Cancelling, by whoever: the status and the offers not yet taken up.     *)
CancelRequest ==
    /\ request' = [request EXCEPT !.status = "CANCELLED"]
    /\ offer' = IF offer = "QUOTED" THEN "NOT_SELECTED" ELSE offer

(* The customer's CANCEL reads the status, turns away the ones in          *)
(* BLOCKED_FROM_SELF_CANCEL, and then writes with no condition.            *)
AskToCancel(h) ==
    /\ At(h, "idle")
    /\ request.status # "OPERATOR_ASSIGNED"
    /\ Goto(h, "cancel")
    /\ UNCHANGED <<payments, requestVars, paystackVars>>

SelfCancel(h) ==
    /\ At(h, "cancel")
    /\ CancelRequest
    /\ Stop(h)
    /\ UNCHANGED <<payments, settlements, crashes, paystackVars>>

(* RescueRequestAdminService.cancel: no guard at all.                      *)
AdminCancel ==
    /\ request.status # "CANCELLED"
    /\ CancelRequest
    /\ UNCHANGED <<payments, proc, settlements, crashes, paystackVars>>

(* CONFIRM: checkRequestStillOpen, then markJobCompleted, which reads      *)
(* whether the balance is paid, writes the status and asks for the rest.   *)
ConfirmCompletion(h) ==
    /\ At(h, "idle")
    /\ request.status = "OPERATOR_ASSIGNED"
    /\ Goto(h, "complete")
    /\ UNCHANGED <<payments, requestVars, paystackVars>>

ReadForCompletion(h) ==
    /\ At(h, "complete")
    /\ Goto(h, IF Succeeded("BALANCE") THEN "close" ELSE "closeAndBill")
    /\ UNCHANGED <<payments, requestVars, paystackVars>>

MarkJobCompleted(h) ==
    /\ \/ At(h, "close") /\ Stop(h)
       \/ At(h, "closeAndBill") /\ Goto(h, "bill")
    /\ request' = [request EXCEPT !.status = "COMPLETED"]
    /\ UNCHANGED <<payments, offer, settlements, crashes, paystackVars>>

(* sendBalancePaymentLink: nothing to collect settles the job at once; a   *)
(* balance in flight is left to a human.                                   *)
BillBalance(h) ==
    /\ At(h, "bill")
    /\ \/ ~request.balanceDue /\ Goto(h, "finalize") /\ UNCHANGED payments
       \/ /\ request.balanceDue
          /\ \E p \in PaymentIds :
                /\ Fresh(p)
                /\ Create(p, Job, "BALANCE")
                /\ proc' = [proc EXCEPT ![h].pc = "claim", ![h].row = p]
       \/ /\ request.balanceDue
          /\ ~InFlightIndexAllows(Job, "BALANCE")
          /\ Stop(h)
          /\ UNCHANGED payments
    /\ UNCHANGED <<requestVars, paystackVars>>

-----------------------------------------------------------------------------
(* Time passes verifyAfter; the first delay is meant to outlast the POST   *)
(* and the storing of its link.                                            *)
TimePasses(p) ==
    /\ VerifyAfterPasses(p)
    /\ SlowPosts \/ \A w \in Procs :
                       proc[w].row = p => proc[w].pc \notin {"post", "apply"}
    /\ UNCHANGED <<requestVars, proc, paystackVars>>

Crash(w) ==
    /\ ~At(w, "idle")
    /\ crashes < MaxCrashes
    /\ crashes' = crashes + 1
    /\ Stop(w)
    /\ UNCHANGED <<payments, request, offer, settlements, paystackVars>>

(* A collection opened by w, from the claim to the link.                   *)
OpeningStep(w) ==
    Claim(w) \/ PostInitialize(w) \/ ApplyInitialize(w) \/ KeepDepositUrl(w) \/ SendLink(w)

(* The side effects of a success whose claim w won.                        *)
ConfirmingStep(w) ==
    \/ ConfirmDeposit(w) \/ MarkAssigned(w) \/ ActivateAssignedJob(w)
    \/ FinalizeJobSettlement(w) \/ PayOperator(w)

CompletionStep(h) == ReadForCompletion(h) \/ MarkJobCompleted(h) \/ BillBalance(h)

VerifyStep(v) ==
    \/ RereadRow(v) \/ AskPaystack(v) \/ AskInVain(v) \/ FailCollection(v)
    \/ SettleVerified(v) \/ ResendBalanceLink(v) \/ BackOffRow(v)

CollectionNext ==
    \/ \E h \in Handlers :
          \/ SelectQuote(h) \/ AssignOperator(h)
          \/ AskToCancel(h) \/ SelfCancel(h)
          \/ ConfirmCompletion(h) \/ CompletionStep(h)
    \/ \E w \in Procs : OpeningStep(w) \/ ConfirmingStep(w) \/ Crash(w)
    \/ \E v \in Checkers : VerifyStep(v)
    \/ \E v \in Checkers, p \in PaymentIds : PickDueRow(v, p)
    \/ \E k \in Hooks, p \in PaymentIds : DeliverCharge(k, p)
    \/ \E p \in PaymentIds :
          LateArrival(p) \/ CustomerPays(p) \/ ChargeFails(p) \/ TimePasses(p)
    \/ RemindDeposit \/ ExpireDeposit \/ DeadlinePasses \/ AdminCancel

CollectionSpec == CollectionInit /\ [][CollectionNext]_collectionVars

(* The reconciler ticks for as long as the service runs: a pass that has   *)
(* started continues, a due row is not passed over for ever, time passes,  *)
(* Paystack's verify endpoint does not fail every time, the expiry check   *)
(* runs, and a POST comes to an end for whoever made it.  Nothing else is  *)
(* assumed of handlers, nothing of webhooks or the customer.               *)
CollectionFairness ==
    /\ \A v \in Checkers :
          /\ WF_collectionVars(VerifyStep(v) \/ OpeningStep(v) \/ ConfirmingStep(v))
          /\ SF_collectionVars(AskPaystack(v))
          /\ \A p \in PaymentIds : SF_collectionVars(PickDueRow(v, p))
    /\ \A w \in Procs : WF_collectionVars(PostInitialize(w) \/ ApplyInitialize(w))
    /\ \A p \in PaymentIds : WF_collectionVars(TimePasses(p))
    /\ WF_collectionVars(DeadlinePasses)
    /\ WF_collectionVars(ExpireDeposit)

LiveCollectionSpec == CollectionSpec /\ CollectionFairness

-----------------------------------------------------------------------------
(* The shape of the state.                                                 *)
Steps == {"idle", "claim", "post", "apply", "stored", "send", "confirmDeposit",
          "assign", "activate", "finalize", "payOperator", "verify", "ask", "fail",
          "succeed", "wait", "backoff", "cancel", "complete", "close",
          "closeAndBill", "bill"}
Process == [pc : Steps, row : PaymentIds \cup {0},
            answer : {"none", "ok", "ambiguous", "rejected"}, noUrl : BOOLEAN]

CollectionTypeOK ==
    /\ TypeOK
    /\ request \in [status : RequestStatuses, overdue : BOOLEAN,
                    url : PaymentIds \cup {0}, balanceDue : BOOLEAN]
    /\ offer \in OfferStatuses
    /\ proc \in [Procs -> Process]
    /\ charge \in [PaymentIds -> ChargeStatuses]
    /\ inTransit \subseteq PaymentIds
    /\ links \subseteq PaymentIds
    /\ events \subseteq PaymentIds
    /\ settlements \in Nat /\ crashes \in 0..MaxCrashes

(* No money against a dead row: a link the customer can still pay belongs  *)
(* to a row that can still record it, and what has been paid is recorded   *)
(* or still recordable -- over lost answers, late POSTs and crashes, as    *)
(* long as no POST outlasts the first verification delay.                  *)
MoneyHasARow ==
    \A p \in PaymentIds :
        /\ p \in links /\ charge[p] = "open" => StatusOf(p) = "SUBMITTED"
        /\ charge[p] = "paid" =>
               StatusOf(p) \in {"SUBMITTED", "SUCCEEDED", "DUPLICATE_SUCCEEDED"}

(* No row is called paid that was not.                                     *)
SuccessIsPaid ==
    \A p \in PaymentIds :
        StatusOf(p) \in {"SUCCEEDED", "DUPLICATE_SUCCEEDED"} => charge[p] = "paid"

(* No operator is sent out, and no job closed, on an unpaid deposit.       *)
OnTheJobIsPaid ==
    request.status \in {"OPERATOR_ASSIGNED", "COMPLETED"} => Succeeded("DEPOSIT")

(* Where there is a balance to collect, the payout is triggered once and   *)
(* only once that balance is paid, however many webhooks, verifications    *)
(* and balance rows report a success.                                      *)
SettledOnce ==
    request.balanceDue => settlements <= 1 /\ (settlements = 1 => Succeeded("BALANCE"))

(* Handlers, passes and webhooks change the Payment table only as the      *)
(* ledger allows, so what is proved of PaymentLedger holds here.           *)
CollectionLedgerDiscipline == Spec

(* Money that arrived is learnt of even if every webhook is lost.          *)
PaymentIsLearnt ==
    \A p \in PaymentIds :
        charge[p] = "paid" ~> StatusOf(p) \in {"SUCCEEDED", "DUPLICATE_SUCCEEDED"}

(* The unpayable collection: a row whose link was lost is given up instead *)
(* of being polled for ever, so that the slot is free again.               *)
LostLinkIsGivenUp ==
    \A p \in PaymentIds :
        (StatusOf(p) \in {"PENDING", "SUBMITTED"} /\ ~payments[p].checkoutUrl)
            ~> (StatusOf(p) \in Terminal \/ payments[p].checkoutUrl)

(* A paid deposit does not leave its request waiting for a deposit, even   *)
(* if the process that claimed it dies before confirming: the expiry check *)
(* then cancels the request, which makes the deposit refundable.           *)
PaidDepositMovesOn ==
    Succeeded("DEPOSIT") ~> request.status # "WAITING_FOR_DEPOSIT"

-----------------------------------------------------------------------------
(* What the repository says and the code does not do.                      *)

(* payment.constants.ts calls INITIAL_VERIFY_DELAY_MS load bearing, for    *)
(* otherwise an instance could "fail a payment that is about to succeed".  *)
(* It bounds nothing: no timeout is set on the POST.                       *)
NothingPaidIsWrittenOff ==
    \A p \in PaymentIds : charge[p] = "paid" => StatusOf(p) # "FAILED"

(* The deposit-window design makes the write of a confirmed deposit a      *)
(* conditional claim on WAITING_FOR_DEPOSIT, so that a deposit cannot      *)
(* bring back a request that was cancelled meanwhile.                      *)
CancelledForGood ==
    [][request.status = "CANCELLED" => request'.status # "OPERATOR_ASSIGNED"]_collectionVars

=============================================================================
