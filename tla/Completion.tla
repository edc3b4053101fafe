----------------------------- MODULE Completion -----------------------------
(***************************************************************************)
(* The end of one job, from the operator's DONE to his payout: the         *)
(* customer's CONFIRM or DISPUTE (WhatsAppCustomerFlowService), a dispute  *)
(* raised and resolved (DisputeService), the balance link, its payment and *)
(* finalizeJobSettlement (PaymentEventsService), and an administrator's    *)
(* cancel and updateStatus.                                                *)
(*                                                                         *)
(* A process is one handler run; between two of its statements any other   *)
(* may run, and it may die.  What happens to a collection once its link is *)
(* out is Collection.tla's subject and to a payout Payout.tla's: here a    *)
(* link is paid or not, and a payout is asked for or not.                  *)
(***************************************************************************)
EXTENDS PaymentLedger, Integers

CONSTANTS
    Job,             \* the request, its operator assigned and ARRIVED
    Handlers,        \* concurrent deliveries of the customer's messages
    Admins,          \* concurrent administrators
    Hooks,           \* concurrent deliveries of charge.success
    Percents,        \* balanceAdjustmentPercent administrators ask for
    Quote,           \* balanceAmount as quoted, in kobo
    DepositAmount,
    ServiceFee,
    NoAmount,        \* an amount column that is NULL
    MaxRaises        \* bound on the disputes raised

ASSUME BalanceType == Job \in Requests /\ "BALANCE" \in PaymentTypes
ASSUME CompletionAmounts ==
    /\ Quote \in Nat /\ DepositAmount \in Nat /\ ServiceFee \in Nat
    /\ NoAmount \notin Int
ASSUME AdjustmentRange == Percents \subseteq 1..100
ASSUME RaisesBound == MaxRaises \in Nat
ASSUME FiniteHandlers == IsFiniteSet(Handlers)

VARIABLES
    amount,       \* the amount of each Payment row
    status,       \* RescueRequest.status
    dispute,      \* disputed and disputeResolvedAt
    balance,      \* balanceAmount
    original,     \* disputeOriginalBalanceAmount
    session,      \* the customer's session, as far as this job goes
    payout,       \* the amount createAndProcessPayout was asked for
    proc,         \* where each process is, and its locals
    paid,         \* Paystack: the rows the customer has paid
    raises,       \* history: disputes raised
    resolutions,  \* ... resolved
    staffTold     \* ... and announced to staff

jobVars     == <<status, dispute, balance, original, session, payout>>
historyVars == <<raises, resolutions, staffTold>>
completionVars == <<payments, amount, jobVars, proc, paid, historyVars>>

Procs == Handlers \cup Admins \cup Hooks
Balances == RowsOf(Job, "BALANCE")
BalancePaid == \E p \in Balances : StatusOf(p) = "SUCCEEDED"
Ended == status \in {"COMPLETED", "CANCELLED"}

Idle == [pc |-> "idle", row |-> 0, percent |-> 0, amount |-> 0, paidSeen |-> FALSE]

Goto(w, step) == proc' = [proc EXCEPT ![w].pc = step]
Stop(w)       == proc' = [proc EXCEPT ![w] = Idle]

(* A handler that returns from markJobCompleted still has its session to   *)
(* reset; an administrator's or a webhook's run is over.                   *)
Return(w) ==
    proc' = [proc EXCEPT ![w] = IF w \in Handlers THEN [Idle EXCEPT !.pc = "reset"]
                                                   ELSE Idle]

AdjustedByAmount(a, percent) == a - percent                     \* mutant

(* Math.round(amount * percent / 100).                                     *)
Adjusted(a, percent) == (2 * a * percent + 100) \div 200

CompletionInit ==
    /\ Init
    /\ amount = [p \in PaymentIds |-> 0]
    /\ status = "ARRIVED" /\ dispute = "none"
    /\ balance = Quote /\ original = NoAmount
    /\ session = "asked"
    /\ payout = NoAmount
    /\ proc = [w \in Procs |-> Idle]
    /\ paid = {}
    /\ raises = 0 /\ resolutions = 0 /\ staffTold = 0

-----------------------------------------------------------------------------
(* The customer's replies.  Each is answered by checkRequestStillOpen's    *)
(* self-heal if the job has ended.                                         *)
ReplyTo(h, next) ==
    /\ proc[h].pc = "idle" /\ session = "asked"
    /\ \/ Ended /\ session' = "idle" /\ UNCHANGED proc
       \/ ~Ended /\ Goto(h, next) /\ UNCHANGED session
    /\ UNCHANGED <<payments, amount, status, dispute, balance, original, payout,
                   paid, historyVars>>

Confirm(h) == ReplyTo(h, "mark")
Dispute(h) == raises < MaxRaises /\ ReplyTo(h, "raise")

(* The statement of what happened: back to CONFIRM or DISPUTE.             *)
GiveReason ==
    /\ session = "reason" /\ session' = "asked"
    /\ UNCHANGED <<payments, amount, status, dispute, balance, original, payout,
                   proc, paid, historyVars>>

(* handleOperatorJobDone again: after his own side of a dispute the        *)
(* operator may send DONE a second time.                                   *)
OperatorDone ==
    /\ ~Ended /\ session \notin {"gone", "asked"}
    /\ session' = "asked"
    /\ UNCHANGED <<payments, amount, status, dispute, balance, original, payout,
                   proc, paid, historyVars>>

-----------------------------------------------------------------------------
(* raiseDispute: one transaction under the customer's row lock, whatever   *)
(* the status is by then.                                                  *)
OpenDispute == dispute' = "open" /\ status' = "IN_DISPUTE" /\ raises' = raises + 1

RaiseAgain(h) ==                                                \* mutant
    /\ proc[h].pc = "raise" /\ raises < MaxRaises
    /\ OpenDispute
    /\ Goto(h, "tell")
    /\ UNCHANGED <<payments, amount, balance, original, session, payout, paid,
                   resolutions, staffTold>>

RaiseAtQuote(h) ==                                              \* mutant
    /\ proc[h].pc = "raise"
    /\ dispute # "open" /\ raises < MaxRaises
    /\ OpenDispute
    /\ balance' = Quote
    /\ Goto(h, "tell")
    /\ UNCHANGED <<payments, amount, original, session, payout, paid,
                   resolutions, staffTold>>

RaiseDispute(h) ==
    /\ proc[h].pc = "raise"
    /\ \/ /\ dispute = "open"
          /\ Stop(h)
          /\ UNCHANGED <<dispute, status, raises>>
       \/ /\ dispute # "open" /\ raises < MaxRaises
          /\ OpenDispute
          /\ Goto(h, "tell")
    /\ UNCHANGED <<payments, amount, balance, original, session, payout, paid,
                   resolutions, staffTold>>

(* The customer's answer and session, and then the staff alert; any of the *)
(* first two that throws ends the run before the third.                    *)
TellStaff(h) ==
    /\ proc[h].pc = "tell"
    /\ \/ /\ session # "gone"
          /\ session' = "reason"
          /\ staffTold' = staffTold + 1
       \/ UNCHANGED <<session, staffTold>>
    /\ Stop(h)
    /\ UNCHANGED <<payments, amount, status, dispute, balance, original, payout,
                   paid, raises, resolutions>>

(* resolveDispute's read ...                                               *)
ResolveDispute(a, percent) ==
    /\ proc[a].pc = "idle"
    /\ dispute = "open"
    /\ proc' = [proc EXCEPT ![a].pc = "paidCheck", ![a].percent = percent,
                            ![a].amount = balance]
    /\ UNCHANGED <<payments, amount, jobVars, paid, historyVars>>

(* ... its look at whether the balance has been paid already ...           *)
PaidCheck(a) ==
    /\ proc[a].pc = "paidCheck"
    /\ IF BalancePaid THEN Stop(a) ELSE Goto(a, "settle")
    /\ UNCHANGED <<payments, amount, jobVars, paid, historyVars>>

(* ... and its write, which looks at neither again.                        *)
SettleDispute(a) ==
    LET settled == Adjusted(proc[a].amount, proc[a].percent) IN
    /\ proc[a].pc = "settle"
    /\ dispute' = "resolved"
    /\ original' = proc[a].amount
    /\ balance' = settled
    /\ resolutions' = resolutions + 1
    /\ proc' = [proc EXCEPT ![a].pc = "link", ![a].amount = settled,
                            ![a].percent = 0]
    /\ UNCHANGED <<payments, amount, status, session, payout, paid, raises,
                   staffTold>>

-----------------------------------------------------------------------------
(* updateStatus writes first and asks markJobCompleted afterwards.         *)
UpdateStatus(a, s) ==
    /\ proc[a].pc = "idle"
    /\ status' = s
    /\ IF s = "COMPLETED" THEN Goto(a, "mark") ELSE UNCHANGED proc
    /\ UNCHANGED <<payments, amount, dispute, balance, original, session, payout,
                   paid, historyVars>>

(* cancel also deletes the customer's session.                             *)
Cancel ==
    /\ status' = "CANCELLED" /\ session' = "gone"
    /\ UNCHANGED <<payments, amount, dispute, balance, original, payout, proc,
                   paid, historyVars>>

(* markJobCompleted: refuses a job that was ever disputed ...              *)
MarkRead(w) ==
    /\ proc[w].pc = "mark"
    /\ \/ dispute # "none" /\ Stop(w)
       \/ /\ dispute = "none"
          /\ proc' = [proc EXCEPT ![w].pc = "complete", ![w].amount = balance,
                                  ![w].paidSeen = BalancePaid]
    /\ UNCHANGED <<payments, amount, jobVars, paid, historyVars>>

(* ... and completes it as it was read.                                    *)
MarkWrite(w) ==
    /\ proc[w].pc = "complete"
    /\ status' = "COMPLETED"
    /\ \/ proc[w].paidSeen /\ Return(w)
       \/ ~proc[w].paidSeen /\ Goto(w, "link")
    /\ UNCHANGED <<payments, amount, dispute, balance, original, session, payout,
                   paid, historyVars>>

-----------------------------------------------------------------------------
(* sendBalancePaymentLink: nothing to collect finalizes at once; a row     *)
(* already in flight leaves its old link as it is.                         *)
InsertBalance(w) ==
    /\ proc[w].pc = "link"
    /\ \/ /\ proc[w].amount = 0
          /\ Goto(w, "finalize")
          /\ UNCHANGED <<payments, amount>>
       \/ /\ proc[w].amount # 0
          /\ \E p \in PaymentIds :
                /\ Create(p, Job, "BALANCE")
                /\ amount' = [amount EXCEPT ![p] = proc[w].amount]
                /\ proc' = [proc EXCEPT ![w].pc = "submit", ![w].row = p]
       \/ /\ proc[w].amount # 0
          /\ ~InFlightIndexAllows(Job, "BALANCE")
          /\ Return(w)
          /\ UNCHANGED <<payments, amount>>
    /\ UNCHANGED <<jobVars, paid, historyVars>>

SubmitBalance(w) ==
    /\ proc[w].pc = "submit"
    /\ \/ ClaimForSubmission(proc[w].row) /\ Goto(w, "post")
       \/ StatusOf(proc[w].row) # "PENDING" /\ Return(w) /\ UNCHANGED payments
    /\ UNCHANGED <<amount, jobVars, paid, historyVars>>

(* initializePayment: a link, an answer that settles nothing, a refusal.   *)
PostBalance(w) ==
    /\ proc[w].pc = "post"
    /\ \/ StoreCheckoutUrl(proc[w].row)
       \/ UNCHANGED payments
       \/ RecordRejection(proc[w].row, NoReason)
    /\ Return(w)
    /\ UNCHANGED <<amount, jobVars, paid, historyVars>>

(* CONFIRM's end: the session is left alone if it is asked for a rating.   *)
ResetSession(h) ==
    /\ proc[h].pc = "reset"
    /\ session' = IF session = "rating" THEN session ELSE "idle"
    /\ Stop(h)
    /\ UNCHANGED <<payments, amount, status, dispute, balance, original, payout,
                   paid, historyVars>>

-----------------------------------------------------------------------------
(* The balance row's own life, of which Collection.tla has the steps.      *)
RecoverLink(p) ==
    /\ p \in Balances /\ StatusOf(p) = "PENDING"
    /\ payments' = [payments EXCEPT ![p].status = "SUBMITTED",
                                    ![p].verifyDue = FALSE, ![p].checkoutUrl = TRUE]
    /\ UNCHANGED <<amount, jobVars, proc, paid, historyVars>>

CustomerPays(p) ==
    /\ p \in Balances \ paid
    /\ payments[p].checkoutUrl /\ Claimable(p)
    /\ paid' = paid \cup {p}
    /\ UNCHANGED <<payments, amount, jobVars, proc, historyVars>>

LinkGoesStale(p) ==
    /\ p \in Balances \ paid
    /\ ClaimTerminal(p, "FAILED")
    /\ UNCHANGED <<amount, jobVars, proc, paid, historyVars>>

(* handleChargeSuccess and the verification: the claim that wins settles   *)
(* the job; a second success is quarantined and settles nothing.           *)
SettleBalance(k, p) ==
    /\ proc[k].pc = "idle" /\ p \in paid
    /\ \/ ClaimTerminal(p, "SUCCEEDED") /\ Goto(k, "finalize")
       \/ RecordDuplicateSuccess(p) /\ UNCHANGED proc
    /\ UNCHANGED <<amount, jobVars, paid, historyVars>>

(* finalizeJobSettlement reads the job ...                                 *)
FinalizeRead(w) ==
    /\ proc[w].pc = "finalize"
    /\ proc' = [proc EXCEPT ![w].pc = "finish", ![w].amount = balance]
    /\ UNCHANGED <<payments, amount, jobVars, paid, historyVars>>

(* ... completes it, without a condition ...                               *)
FinalizeWrite(w) ==
    /\ proc[w].pc = "finish"
    /\ status' = "COMPLETED"
    /\ Goto(w, "notify")
    /\ UNCHANGED <<payments, amount, dispute, balance, original, session, payout,
                   paid, historyVars>>

(* ... tells both parties, which a failed send or a deleted session cuts   *)
(* short ...                                                               *)
Notify(w) ==
    /\ proc[w].pc = "notify"
    /\ \/ session # "gone" /\ session' = "rating" /\ Goto(w, "pay")
       \/ Stop(w) /\ UNCHANGED session
    /\ UNCHANGED <<payments, amount, status, dispute, balance, original, payout,
                   paid, historyVars>>

(* ... and asks for the operator's share; createAndProcessPayout leaves an *)
(* attempt that is already there alone.                                    *)
OperatorShareAtQuote(collected) == DepositAmount + Quote - ServiceFee   \* mutant

OperatorShare(collected) == DepositAmount + collected - ServiceFee

AskPayout(w) ==
    LET share == OperatorShare(proc[w].amount) IN
    /\ proc[w].pc = "pay"
    /\ payout' = IF payout = NoAmount /\ share > 0 THEN share ELSE payout
    /\ Return(w)
    /\ UNCHANGED <<payments, amount, status, dispute, balance, original, session,
                   paid, historyVars>>

(* A process may die wherever it is: nothing it left undone is resumed.    *)
Crash(w) ==
    /\ proc[w].pc # "idle"
    /\ Stop(w)
    /\ UNCHANGED <<payments, amount, jobVars, paid, historyVars>>

CompletionNext ==
    \/ \E h \in Handlers : Confirm(h) \/ Dispute(h) \/ RaiseDispute(h)
                           \/ TellStaff(h) \/ ResetSession(h)
    \/ GiveReason \/ OperatorDone \/ Cancel
    \/ \E a \in Admins : PaidCheck(a) \/ SettleDispute(a)
    \/ \E a \in Admins, percent \in Percents : ResolveDispute(a, percent)
    \/ \E a \in Admins, s \in {"ARRIVED", "COMPLETED", "CANCELLED"} : UpdateStatus(a, s)
    \/ \E w \in Procs : \/ MarkRead(w) \/ MarkWrite(w) \/ InsertBalance(w)
                        \/ SubmitBalance(w) \/ PostBalance(w)
                        \/ FinalizeRead(w) \/ FinalizeWrite(w) \/ Notify(w)
                        \/ AskPayout(w) \/ Crash(w)
    \/ \E p \in PaymentIds : RecoverLink(p) \/ CustomerPays(p) \/ LinkGoesStale(p)
    \/ \E k \in Hooks, p \in PaymentIds : SettleBalance(k, p)

CompletionSpec == CompletionInit /\ [][CompletionNext]_completionVars

-----------------------------------------------------------------------------
(* The shape of the state.                                                 *)
Steps == {"idle", "mark", "complete", "link", "submit", "post", "reset", "raise",
          "tell", "paidCheck", "settle", "finalize", "finish", "notify", "pay"}
Process == [pc : Steps, row : PaymentIds \cup {0}, percent : 0..100,
            amount : Nat, paidSeen : BOOLEAN]

CompletionTypeOK ==
    /\ TypeOK
    /\ amount \in [PaymentIds -> Nat]
    /\ status \in {"ARRIVED", "IN_DISPUTE", "COMPLETED", "CANCELLED"}
    /\ dispute \in {"none", "open", "resolved"}
    /\ balance \in Nat
    /\ original \in Nat \cup {NoAmount}
    /\ session \in {"asked", "reason", "idle", "rating", "gone"}
    /\ payout \in Int \cup {NoAmount}
    /\ proc \in [Procs -> Process]
    /\ paid \subseteq PaymentIds
    /\ raises \in Nat /\ resolutions \in Nat /\ staffTold \in Nat

(* The operator is never asked to be paid more than the job brought in:    *)
(* the deposit and one balance the customer has really paid -- or the      *)
(* deposit alone -- less the platform's fee.  Holds however CONFIRM, the   *)
(* links, their payment and one administrator's resolutions and reopenings *)
(* interleave, because a resolution only ever lowers the balance.          *)
PayoutIsCovered ==
    payout # NoAmount =>
        \/ payout <= DepositAmount - ServiceFee
        \/ \E p \in Balances :
              StatusOf(p) = "SUCCEEDED" /\ payout <= DepositAmount + amount[p] - ServiceFee

(* A link that can still be paid never asks for less than the job's        *)
(* balance: what the customer owes is not lost on the way to the link.     *)
LinksCoverTheBalance ==
    \A p \in Balances : StatusOf(p) \in InFlight => amount[p] >= balance

(* A DISPUTE delivered twice, or sent while one is open, opens one dispute *)
(* and alerts staff once: no more raises than closings allow, and no more  *)
(* alerts than raises.                                                     *)
DisputeRaisedOnce ==
    /\ raises <= resolutions + 1
    /\ staffTold <= raises

-----------------------------------------------------------------------------
(* What the repository says and the code does not do.                      *)

(* resolveDispute snapshots the balance "so quoted vs. actually charged is *)
(* never lost".  A dispute reopened and resolved again snapshots the       *)
(* settled figure over it.                                                 *)
QuoteIsNeverLost == original # NoAmount => original = Quote

(* Once a request has ever been disputed, "status only becomes COMPLETED   *)
(* once that's actually paid".                                             *)
DisputedIsCompletedByPayment ==
    dispute # "none" /\ status = "COMPLETED" => BalancePaid \/ balance = 0
=============================================================================
