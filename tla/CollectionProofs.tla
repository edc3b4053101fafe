-------------------------- MODULE CollectionProofs --------------------------
(***************************************************************************)
(* Theorems about Collection, for every number of handlers, deliveries,    *)
(* reconciler instances, rows and crashes, and however slow a POST is.     *)
(*                                                                         *)
(* A process that acts on a row holds one (Control); so every step is a    *)
(* statement of the ledger or leaves the table alone, and what is proved   *)
(* of PaymentLedger carries over.  On that rest the two invariants that    *)
(* say what a deposit is for: a success is money that arrived, and nobody  *)
(* works, or has worked, on an unpaid deposit.                             *)
(***************************************************************************)
EXTENDS Collection, PaymentLedgerProofs

(* The steps at which a process acts on the row it holds.                  *)
OnARow == {"claim", "post", "apply", "stored", "send", "verify", "ask", "fail",
           "succeed", "wait", "backoff"}

Placed(x) == x \in Process /\ (x.pc \in OnARow => x.row \in PaymentIds)

Located ==
    /\ proc \in [Procs -> Process]
    /\ \A w \in Procs : Placed(proc[w])

(* The request and its operator's offer.                                   *)
RequestOK ==
    /\ request \in [status : RequestStatuses, overdue : BOOLEAN,
                    url : PaymentIds \cup {0}, balanceDue : BOOLEAN]
    /\ offer \in OfferStatuses
    /\ settlements \in Nat /\ crashes \in 0..MaxCrashes

(* Paystack, and the links that went out.                                  *)
PaystackOK ==
    /\ charge \in [PaymentIds -> ChargeStatuses]
    /\ inTransit \subseteq PaymentIds
    /\ links \subseteq PaymentIds
    /\ events \subseteq PaymentIds

Control == Located /\ RequestOK /\ PaystackOK

(* A step that changes one process, to one that is placed.                 *)
LEMMA OneProcess ==
    ASSUME Located, NEW w \in Procs, NEW x, Placed(x),
           proc' = [proc EXCEPT ![w] = x]
    PROVE  Located'
  BY DEF Located, Placed

LEMMA IdlePlaced == Placed(Idle)
  BY DEF Placed, Idle, Process, Steps, OnARow

(* The ways in which the code below moves a process.                       *)
LEMMA GotoPlaced ==
    ASSUME Located, NEW w \in Procs, NEW step \in Steps, Goto(w, step),
           step \in OnARow => proc[w].pc \in OnARow
    PROVE  Located'
<1> DEFINE x == [proc[w] EXCEPT !.pc = step]
<1>1. Placed(proc[w]) /\ proc[w] \in Process
  BY DEF Located
<1>2. x \in Process /\ x.pc = step /\ x.row = proc[w].row
  BY <1>1 DEF Process
<1>3. proc' = [proc EXCEPT ![w] = x]
  BY DEF Goto, Located
<1> HIDE DEF x
<1>4. Placed(x)
  BY <1>1, <1>2 DEF Placed
<1> QED BY <1>3, <1>4, OneProcess

LEMMA StopPlaced ==
    ASSUME Located, NEW w \in Procs, Stop(w)
    PROVE  Located'
  BY IdlePlaced, OneProcess DEF Stop

LEMMA TakePlaced ==
    ASSUME Located, NEW w \in Procs, NEW step \in Steps, NEW p \in PaymentIds,
           proc' = [proc EXCEPT ![w].pc = step, ![w].row = p]
    PROVE  Located'
<1> DEFINE x == [proc[w] EXCEPT !.pc = step, !.row = p]
<1>1. proc[w] \in Process
  BY DEF Located
<1>2. x \in Process /\ x.pc = step /\ x.row = p
  BY <1>1 DEF Process
<1>3. proc' = [proc EXCEPT ![w] = x]
  BY DEF Located
<1> HIDE DEF x
<1>4. Placed(x)
  BY <1>2 DEF Placed
<1> QED BY <1>3, <1>4, OneProcess

LEMMA AnswerPlaced ==
    ASSUME Located, NEW w \in Procs, NEW a \in {"ok", "ambiguous", "rejected"},
           proc[w].pc \in OnARow,
           proc' = [proc EXCEPT ![w].pc = "apply", ![w].answer = a]
    PROVE  Located'
<1> DEFINE x == [proc[w] EXCEPT !.pc = "apply", !.answer = a]
<1>1. Placed(proc[w]) /\ proc[w] \in Process
  BY DEF Located
<1>2. x \in Process /\ x.pc = "apply" /\ x.row = proc[w].row
  BY <1>1 DEF Process, Steps
<1>3. proc' = [proc EXCEPT ![w] = x]
  BY DEF Located
<1> HIDE DEF x
<1>4. Placed(x)
  BY <1>1, <1>2 DEF Placed
<1> QED BY <1>3, <1>4, OneProcess

LEMMA CopyPlaced ==
    ASSUME Located, NEW w \in Procs, NEW b \in BOOLEAN,
           proc[w].pc \in OnARow,
           proc' = [proc EXCEPT ![w].pc = "ask", ![w].noUrl = b]
    PROVE  Located'
<1> DEFINE x == [proc[w] EXCEPT !.pc = "ask", !.noUrl = b]
<1>1. Placed(proc[w]) /\ proc[w] \in Process
  BY DEF Located
<1>2. x \in Process /\ x.pc = "ask" /\ x.row = proc[w].row
  BY <1>1 DEF Process, Steps
<1>3. proc' = [proc EXCEPT ![w] = x]
  BY DEF Located
<1> HIDE DEF x
<1>4. Placed(x)
  BY <1>1, <1>2 DEF Placed
<1> QED BY <1>3, <1>4, OneProcess

LEMMA SettlePlaced ==
    ASSUME Located, NEW w \in Procs, NEW p \in PaymentIds, SettleSuccess(w, p)
    PROVE  Located'
<1> DEFINE x == [Idle EXCEPT !.pc = Confirming(p), !.row = p]
<1>1. Placed(x)
  BY DEF Placed, Idle, Confirming, Process, Steps, OnARow
<1>2. proc' = [proc EXCEPT ![w] = x] \/ Stop(w)
  BY DEF SettleSuccess
<1> HIDE DEF x
<1> QED BY <1>1, <1>2, OneProcess, StopPlaced

LEMMA InitControl == CollectionInit => Control
<1> SUFFICES ASSUME CollectionInit PROVE Control
  OBVIOUS
<1>1. Located
  BY IdlePlaced DEF CollectionInit, Located, Placed
<1>2. request \in [status : RequestStatuses, overdue : BOOLEAN,
                  url : PaymentIds \cup {0}, balanceDue : BOOLEAN]
  BY DEF CollectionInit, RequestStatuses
<1>3. offer \in OfferStatuses /\ settlements \in Nat
  BY DEF CollectionInit, OfferStatuses
<1>4. crashes \in 0..MaxCrashes
  BY CrashAssumption DEF CollectionInit
<1>5. PaystackOK
  BY DEF CollectionInit, PaystackOK, ChargeStatuses
<1> QED BY <1>1, <1>2, <1>3, <1>4, <1>5 DEF Control, RequestOK

(* The fields of the request that the code below writes.                   *)
LEMMA StatusWritten ==
    ASSUME RequestOK, NEW s \in RequestStatuses,
           \/ request' = [request EXCEPT !.status = s]
           \/ request' = [request EXCEPT !.status = s, !.overdue = FALSE]
    PROVE  request' \in [status : RequestStatuses, overdue : BOOLEAN,
                         url : PaymentIds \cup {0}, balanceDue : BOOLEAN]
  BY DEF RequestOK

(* Opening a collection.                                                   *)
LEMMA OpeningControl ==
    ASSUME Control, NEW w \in Procs, OpeningStep(w)
    PROVE  Control'
<1> Located /\ RequestOK /\ PaystackOK /\ Placed(proc[w])
  BY DEF Control, Located
<1>1. CASE Claim(w)
  <2>1. Located'
    BY <1>1, GotoPlaced, StopPlaced DEF Claim, At, Steps, OnARow
  <2> QED BY <1>1, <2>1
          DEF Claim, Control, RequestOK, PaystackOK, requestVars, paystackVars
<1>2. CASE PostInitialize(w)
  <2> DEFINE p == proc[w].row
  <2>1. p \in PaymentIds /\ proc[w].pc \in OnARow
    BY <1>2 DEF PostInitialize, At, Placed, OnARow
  <2>2. \E a \in {"ok", "ambiguous", "rejected"} :
           proc' = [proc EXCEPT ![w].pc = "apply", ![w].answer = a]
    BY <1>2 DEF PostInitialize
  <2>3. Located'
    BY <2>1, <2>2, AnswerPlaced
  <2>4. charge' \in [PaymentIds -> ChargeStatuses] /\ inTransit' \subseteq PaymentIds
    BY <1>2, <2>1 DEF PostInitialize, PaystackOK, ChargeStatuses
  <2> QED BY <1>2, <2>3, <2>4
          DEF PostInitialize, Control, RequestOK, PaystackOK, requestVars
<1>3. CASE ApplyInitialize(w)
  <2>1. Located'
    BY <1>3, GotoPlaced, StopPlaced DEF ApplyInitialize, At, Steps, OnARow
  <2> QED BY <1>3, <2>1
          DEF ApplyInitialize, Control, RequestOK, PaystackOK, requestVars, paystackVars
<1>4. CASE KeepDepositUrl(w)
  <2>1. Located'
    BY <1>4, GotoPlaced DEF KeepDepositUrl, At, Steps, OnARow
  <2>2. proc[w].row \in PaymentIds
    BY <1>4 DEF KeepDepositUrl, At, Placed, OnARow
  <2>3. RequestOK'
    BY <1>4, <2>2 DEF KeepDepositUrl, RequestOK
  <2> QED BY <1>4, <2>1, <2>3 DEF KeepDepositUrl, Control, PaystackOK, paystackVars
<1>5. CASE SendLink(w)
  <2>1. Located'
    BY <1>5, StopPlaced DEF SendLink
  <2>2. proc[w].row \in PaymentIds
    BY <1>5 DEF SendLink, At, Placed, OnARow
  <2> QED BY <1>5, <2>1, <2>2 DEF SendLink, Control, RequestOK, PaystackOK, requestVars
<1> QED BY <1>1, <1>2, <1>3, <1>4, <1>5 DEF OpeningStep

(* Confirming what was collected.                                          *)
LEMMA ConfirmingControl ==
    ASSUME Control, NEW w \in Procs, ConfirmingStep(w)
    PROVE  Control'
<1> Located /\ RequestOK /\ PaystackOK
  BY DEF Control
<1>1. CASE ConfirmDeposit(w)
  <2>1. Located'
    BY <1>1, GotoPlaced, StopPlaced DEF ConfirmDeposit, Steps, OnARow
  <2> QED BY <1>1, <2>1
          DEF ConfirmDeposit, Control, RequestOK, PaystackOK, requestVars, paystackVars
<1>2. CASE MarkAssigned(w)
  <2>1. Located'
    BY <1>2, GotoPlaced DEF MarkAssigned, Steps, OnARow
  <2>2. RequestOK'
    BY <1>2, StatusWritten DEF MarkAssigned, RequestOK, RequestStatuses
  <2> QED BY <1>2, <2>1, <2>2 DEF MarkAssigned, Control, PaystackOK, paystackVars
<1>3. CASE ActivateAssignedJob(w)
  <2>1. Located'
    BY <1>3, StopPlaced DEF ActivateAssignedJob
  <2> QED BY <1>3, <2>1
          DEF ActivateAssignedJob, Control, RequestOK, OfferStatuses, PaystackOK, paystackVars
<1>4. CASE FinalizeJobSettlement(w)
  <2>1. Located'
    BY <1>4, GotoPlaced DEF FinalizeJobSettlement, Steps, OnARow
  <2>2. RequestOK'
    BY <1>4, StatusWritten DEF FinalizeJobSettlement, RequestOK, RequestStatuses
  <2> QED BY <1>4, <2>1, <2>2 DEF FinalizeJobSettlement, Control, PaystackOK, paystackVars
<1>5. CASE PayOperator(w)
  <2>1. Located'
    BY <1>5, StopPlaced DEF PayOperator
  <2> QED BY <1>5, <2>1 DEF PayOperator, Control, RequestOK, PaystackOK, paystackVars
<1> QED BY <1>1, <1>2, <1>3, <1>4, <1>5 DEF ConfirmingStep

(* Message handlers and administrators.                                    *)
LEMMA HandlerControl ==
    ASSUME Control, NEW h \in Handlers,
           \/ SelectQuote(h) \/ AssignOperator(h) \/ AskToCancel(h) \/ SelfCancel(h)
           \/ ConfirmCompletion(h) \/ CompletionStep(h)
    PROVE  Control'
<1> h \in Procs
  BY DEF Procs
<1> Located /\ RequestOK /\ PaystackOK
  BY DEF Control
<1>1. ASSUME OpenDeposit(h) PROVE Control'
  <2>1. Located'
    BY <1>1, TakePlaced DEF OpenDeposit, Steps
  <2>2. RequestOK'
    BY <1>1, StatusWritten DEF OpenDeposit, RequestOK, RequestStatuses, OfferStatuses
  <2> QED BY <1>1, <2>1, <2>2 DEF OpenDeposit, Control, PaystackOK, paystackVars
<1>2. CASE AskToCancel(h)
  <2>1. Located'
    BY <1>2, GotoPlaced DEF AskToCancel, Steps, OnARow
  <2> QED BY <1>2, <2>1
          DEF AskToCancel, Control, RequestOK, PaystackOK, requestVars, paystackVars
<1>3. CASE SelfCancel(h)
  <2>1. Located'
    BY <1>3, StopPlaced DEF SelfCancel
  <2>2. RequestOK'
    BY <1>3, StatusWritten
       DEF SelfCancel, CancelRequest, RequestOK, RequestStatuses, OfferStatuses
  <2> QED BY <1>3, <2>1, <2>2 DEF SelfCancel, Control, PaystackOK, paystackVars
<1>4. CASE ConfirmCompletion(h)
  <2>1. Located'
    BY <1>4, GotoPlaced DEF ConfirmCompletion, Steps, OnARow
  <2> QED BY <1>4, <2>1
          DEF ConfirmCompletion, Control, RequestOK, PaystackOK, requestVars, paystackVars
<1>5. CASE ReadForCompletion(h)
  <2>1. Goto(h, "close") \/ Goto(h, "closeAndBill")
    BY <1>5 DEF ReadForCompletion
  <2>2. Located'
    BY <2>1, GotoPlaced DEF Steps, OnARow
  <2> QED BY <1>5, <2>2
          DEF ReadForCompletion, Control, RequestOK, PaystackOK, requestVars, paystackVars
<1>6. CASE MarkJobCompleted(h)
  <2>1. Located'
    BY <1>6, GotoPlaced, StopPlaced DEF MarkJobCompleted, Steps, OnARow
  <2>2. RequestOK'
    BY <1>6, StatusWritten DEF MarkJobCompleted, RequestOK, RequestStatuses
  <2> QED BY <1>6, <2>1, <2>2 DEF MarkJobCompleted, Control, PaystackOK, paystackVars
<1>7. CASE BillBalance(h)
  <2>1. Located'
    BY <1>7, GotoPlaced, StopPlaced, TakePlaced DEF BillBalance, Steps, OnARow
  <2> QED BY <1>7, <2>1
          DEF BillBalance, Control, RequestOK, PaystackOK, requestVars, paystackVars
<1> QED BY <1>1, <1>2, <1>3, <1>4, <1>5, <1>6, <1>7
        DEF SelectQuote, AssignOperator, CompletionStep

(* The reconciler and the webhooks.                                        *)
LEMMA VerifyControl ==
    ASSUME Control, NEW v \in Procs,
           \/ VerifyStep(v)
           \/ \E p \in PaymentIds : PickDueRow(v, p) \/ DeliverCharge(v, p)
    PROVE  Control'
<1> Located /\ RequestOK /\ PaystackOK /\ Placed(proc[v])
  BY DEF Control, Located
<1>1. ASSUME NEW p \in PaymentIds, PickDueRow(v, p) PROVE Control'
  <2>1. Located'
    BY <1>1, TakePlaced DEF PickDueRow, Steps
  <2> QED BY <1>1, <2>1
          DEF PickDueRow, Control, RequestOK, PaystackOK, requestVars, paystackVars
<1>2. ASSUME NEW p \in PaymentIds, DeliverCharge(v, p) PROVE Control'
  <2>1. Located'
    BY <1>2, SettlePlaced DEF DeliverCharge
  <2> QED BY <1>2, <2>1
          DEF DeliverCharge, Control, RequestOK, PaystackOK, requestVars, paystackVars
<1>3. CASE RereadRow(v)
  <2>1. proc[v].pc \in OnARow
    BY <1>3 DEF RereadRow, At, OnARow
  <2> DEFINE b == ~payments[proc[v].row].checkoutUrl
  <2>2. b \in BOOLEAN
    OBVIOUS
  <2>3. proc' = [proc EXCEPT ![v].pc = "ask", ![v].noUrl = b] \/ Stop(v)
    BY <1>3 DEF RereadRow
  <2> HIDE DEF b
  <2>4. Located'
    BY <2>1, <2>2, <2>3, CopyPlaced, StopPlaced
  <2> QED BY <1>3, <2>4
          DEF RereadRow, Control, RequestOK, PaystackOK, requestVars, paystackVars
<1>4. CASE AskPaystack(v)
  <2>1. proc[v].pc \in OnARow /\ proc[v].row \in PaymentIds
    BY <1>4 DEF AskPaystack, At, OnARow, Placed
  <2>2. charge[proc[v].row] \in ChargeStatuses
    BY <2>1 DEF PaystackOK
  <2>3. Goto(v, "fail") \/ Goto(v, "succeed") \/ Goto(v, "wait")
    BY <1>4, <2>2 DEF AskPaystack, ChargeStatuses
  <2>4. Located'
    BY <2>1, <2>3, GotoPlaced DEF Steps
  <2> QED BY <1>4, <2>4
          DEF AskPaystack, Control, RequestOK, PaystackOK, requestVars, paystackVars
<1>5. CASE AskInVain(v)
  <2>1. Located'
    BY <1>5, GotoPlaced DEF AskInVain, At, Steps, OnARow
  <2> QED BY <1>5, <2>1
          DEF AskInVain, Control, RequestOK, PaystackOK, requestVars, paystackVars
<1>6. CASE FailCollection(v)
  <2>1. Located'
    BY <1>6, StopPlaced DEF FailCollection
  <2> QED BY <1>6, <2>1
          DEF FailCollection, Control, RequestOK, PaystackOK, requestVars, paystackVars
<1>7. CASE SettleVerified(v)
  <2>1. proc[v].row \in PaymentIds
    BY <1>7 DEF SettleVerified, At, OnARow, Placed
  <2>2. Located'
    BY <1>7, <2>1, SettlePlaced DEF SettleVerified
  <2> QED BY <1>7, <2>2
          DEF SettleVerified, Control, RequestOK, PaystackOK, requestVars, paystackVars
<1>8. CASE ResendBalanceLink(v)
  <2>1. Located'
    BY <1>8, GotoPlaced DEF ResendBalanceLink, At, Steps, OnARow
  <2>2. proc[v].row \in PaymentIds
    BY <1>8 DEF ResendBalanceLink, At, OnARow, Placed
  <2>3. links' \subseteq PaymentIds
    BY <1>8, <2>2 DEF ResendBalanceLink, PaystackOK
  <2> QED BY <1>8, <2>1, <2>3
          DEF ResendBalanceLink, Control, RequestOK, PaystackOK, requestVars
<1>9. CASE BackOffRow(v)
  <2>1. Located'
    BY <1>9, StopPlaced DEF BackOffRow
  <2> QED BY <1>9, <2>1
          DEF BackOffRow, Control, RequestOK, PaystackOK, requestVars, paystackVars
<1> QED BY <1>1, <1>2, <1>3, <1>4, <1>5, <1>6, <1>7, <1>8, <1>9 DEF VerifyStep

(* Paystack, the customer, time, the remaining checks and crashes.         *)
LEMMA OutsideControl ==
    ASSUME Control,
           \/ \E p \in PaymentIds :
                 LateArrival(p) \/ CustomerPays(p) \/ ChargeFails(p) \/ TimePasses(p)
           \/ RemindDeposit \/ ExpireDeposit \/ DeadlinePasses \/ AdminCancel
           \/ \E w \in Procs : Crash(w)
    PROVE  Control'
<1> Located /\ RequestOK /\ PaystackOK
  BY DEF Control
<1>1. ASSUME NEW p \in PaymentIds, LateArrival(p) \/ CustomerPays(p) \/ ChargeFails(p)
      PROVE  Control'
  <2>1. PaystackOK'
    BY <1>1 DEF LateArrival, CustomerPays, ChargeFails, PaystackOK, ChargeStatuses
  <2> QED BY <1>1, <2>1 DEF LateArrival, CustomerPays, ChargeFails, Control,
                            Located, RequestOK, requestVars
<1>2. ASSUME NEW p \in PaymentIds, TimePasses(p) PROVE Control'
  BY <1>2 DEF TimePasses, Control, Located, RequestOK, PaystackOK,
              requestVars, paystackVars
<1>3. CASE RemindDeposit
  <2>1. links' \subseteq PaymentIds
    BY <1>3 DEF RemindDeposit, RequestOK, PaystackOK
  <2> QED BY <1>3, <2>1 DEF RemindDeposit, Control, Located, RequestOK, PaystackOK,
                            requestVars
<1>4. CASE ExpireDeposit
  <2>1. RequestOK'
    BY <1>4, StatusWritten DEF ExpireDeposit, RequestOK, RequestStatuses, OfferStatuses
  <2> QED BY <1>4, <2>1 DEF ExpireDeposit, Control, Located, PaystackOK, paystackVars
<1>5. CASE DeadlinePasses
  <2>1. RequestOK'
    BY <1>5 DEF DeadlinePasses, RequestOK
  <2> QED BY <1>5, <2>1 DEF DeadlinePasses, Control, Located, PaystackOK, paystackVars
<1>6. CASE AdminCancel
  <2>1. RequestOK'
    BY <1>6, StatusWritten
       DEF AdminCancel, CancelRequest, RequestOK, RequestStatuses, OfferStatuses
  <2> QED BY <1>6, <2>1 DEF AdminCancel, Control, Located, PaystackOK, paystackVars
<1>7. ASSUME NEW w \in Procs, Crash(w) PROVE Control'
  <2>1. Located'
    BY <1>7, StopPlaced DEF Crash
  <2>2. crashes' \in 0..MaxCrashes
    BY <1>7, CrashAssumption DEF Crash, RequestOK
  <2> QED BY <1>7, <2>1, <2>2 DEF Crash, Control, RequestOK, PaystackOK, paystackVars
<1> QED BY <1>1, <1>2, <1>3, <1>4, <1>5, <1>6, <1>7

LEMMA StepControl == Control /\ [CollectionNext]_collectionVars => Control'
<1> SUFFICES ASSUME Control, [CollectionNext]_collectionVars PROVE Control'
  OBVIOUS
<1>1. CASE UNCHANGED collectionVars
  BY <1>1 DEF collectionVars, Control, Located, RequestOK, PaystackOK
<1>2. Handlers \subseteq Procs /\ Hooks \subseteq Procs /\ Checkers \subseteq Procs
  BY DEF Procs
<1>3. CASE CollectionNext
  BY <1>2, <1>3, HandlerControl, OpeningControl, ConfirmingControl, VerifyControl,
     OutsideControl DEF CollectionNext
<1> QED BY <1>1, <1>3

LEMMA ControlInvariant == CollectionSpec => []Control
  BY InitControl, StepControl, PTL DEF CollectionSpec

-----------------------------------------------------------------------------
(* What handlers, passes and webhooks do to the table.                     *)
LEMMA OpenIsLedger ==
    ASSUME NEW p \in PaymentIds, NEW t \in {"DEPOSIT", "BALANCE"}, Create(p, Job, t)
    PROVE  Next
  BY JobAssumption DEF Next, LedgerStep

LEMMA SuccessIsLedger ==
    ASSUME NEW w, NEW p \in PaymentIds, SettleSuccess(w, p)
    PROVE  Next \/ UNCHANGED payments
  BY DEF SettleSuccess, Next, LedgerStep, Verdicts

LEMMA StepLedger == Control /\ [CollectionNext]_collectionVars => [Next]_ledgerVars
<1> SUFFICES ASSUME Control, [CollectionNext]_collectionVars
             PROVE  Next \/ UNCHANGED payments
  BY DEF ledgerVars
<1> Located
  BY DEF Control
<1>0. ASSUME NEW w \in Procs, proc[w].pc \in OnARow PROVE proc[w].row \in PaymentIds
  BY <1>0 DEF Located, Placed
<1>1. ASSUME NEW w \in Procs, OpeningStep(w) PROVE Next \/ UNCHANGED payments
  <2> DEFINE p == proc[w].row
  <2>1. CASE Claim(w)
    BY <1>0, <2>1 DEF Claim, At, OnARow, Next, LedgerStep
  <2>2. CASE ApplyInitialize(w)
    BY <1>0, <2>2 DEF ApplyInitialize, At, OnARow, Next, LedgerStep
  <2>3. CASE PostInitialize(w) \/ KeepDepositUrl(w) \/ SendLink(w)
    BY <2>3 DEF PostInitialize, KeepDepositUrl, SendLink
  <2> QED BY <1>1, <2>1, <2>2, <2>3 DEF OpeningStep
<1>2. ASSUME NEW w \in Procs, ConfirmingStep(w) PROVE UNCHANGED payments
  BY <1>2 DEF ConfirmingStep, ConfirmDeposit, MarkAssigned, ActivateAssignedJob,
              FinalizeJobSettlement, PayOperator
<1>3. ASSUME NEW h \in Handlers,
             \/ SelectQuote(h) \/ AssignOperator(h) \/ AskToCancel(h) \/ SelfCancel(h)
             \/ ConfirmCompletion(h) \/ CompletionStep(h)
      PROVE  Next \/ UNCHANGED payments
  BY <1>3, OpenIsLedger
     DEF SelectQuote, AssignOperator, OpenDeposit, AskToCancel, SelfCancel,
         ConfirmCompletion, CompletionStep, ReadForCompletion, MarkJobCompleted,
         BillBalance
<1>4. ASSUME NEW v \in Checkers, VerifyStep(v) PROVE Next \/ UNCHANGED payments
  <2> v \in Procs
    BY DEF Procs
  <2>1. CASE FailCollection(v)
    BY <1>0, <2>1 DEF FailCollection, At, OnARow, Next, LedgerStep, Verdicts
  <2>2. CASE SettleVerified(v)
    BY <1>0, <2>2, SuccessIsLedger DEF SettleVerified, At, OnARow
  <2>3. CASE BackOffRow(v)
    BY <1>0, <2>3 DEF BackOffRow, At, OnARow, Next, LedgerStep
  <2>4. CASE RereadRow(v) \/ AskPaystack(v) \/ AskInVain(v) \/ ResendBalanceLink(v)
    BY <2>4 DEF RereadRow, AskPaystack, AskInVain, ResendBalanceLink
  <2> QED BY <1>4, <2>1, <2>2, <2>3, <2>4 DEF VerifyStep
<1>5. ASSUME NEW v, NEW p \in PaymentIds, PickDueRow(v, p) \/ DeliverCharge(v, p)
      PROVE  Next \/ UNCHANGED payments
  BY <1>5, SuccessIsLedger DEF PickDueRow, DeliverCharge
<1>6. ASSUME NEW p \in PaymentIds,
             LateArrival(p) \/ CustomerPays(p) \/ ChargeFails(p) \/ TimePasses(p)
      PROVE  Next \/ UNCHANGED payments
  BY <1>6 DEF LateArrival, CustomerPays, ChargeFails, TimePasses, Next, LedgerStep
<1>7. CASE \/ RemindDeposit \/ ExpireDeposit \/ DeadlinePasses \/ AdminCancel
           \/ \E w \in Procs : Crash(w)
  BY <1>7 DEF RemindDeposit, ExpireDeposit, DeadlinePasses, AdminCancel, Crash
<1>8. CASE UNCHANGED collectionVars
  BY <1>8 DEF collectionVars
<1> QED BY <1>1, <1>2, <1>3, <1>4, <1>5, <1>6, <1>7, <1>8 DEF CollectionNext

(* Handlers, reconciler passes, webhooks and crashes change the Payment    *)
(* table by the statements of PaymentLedgerService, in the conditions      *)
(* those statements check.                                                 *)
THEOREM CollectionFollowsLedger == CollectionSpec => CollectionLedgerDiscipline
<1>1. CollectionInit => Init
  BY DEF CollectionInit
<1> QED BY <1>1, StepLedger, ControlInvariant, PTL
        DEF CollectionSpec, CollectionLedgerDiscipline, Spec

(* The state of a collection always has its shape; in particular a process *)
(* that acts on a row holds one.                                           *)
THEOREM CollectionTypeCorrect == CollectionSpec => []CollectionTypeOK
<1>1. TypeOK /\ Control => CollectionTypeOK
  BY DEF CollectionTypeOK, Control, Located, RequestOK, PaystackOK
<1> QED BY <1>1, CollectionFollowsLedger, TypeCorrect, ControlInvariant, PTL
        DEF CollectionLedgerDiscipline

-----------------------------------------------------------------------------
(* A success is money that arrived, and work starts on a paid deposit.     *)
Won == {"SUCCEEDED", "DUPLICATE_SUCCEEDED"}

(* Whoever is about to record a success has seen it at Paystack, in a      *)
(* webhook or an answer.                                                   *)
Witnessed ==
    /\ SuccessIsPaid
    /\ \A p \in events : charge[p] = "paid"
    /\ \A w \in Procs : proc[w].pc = "succeed" => charge[proc[w].row] = "paid"

(* The steps a process reaches only once the deposit has succeeded.        *)
PastDeposit == {"confirmDeposit", "assign", "activate", "finalize", "payOperator",
                "complete", "close", "closeAndBill", "bill"}

(* The rows are the job's deposits and balances; and every sign that the   *)
(* job has gone beyond its deposit is one that the deposit succeeded.      *)
DepositFirst ==
    /\ \A p \in PaymentIds : Exists(p) =>
          payments[p].request = Job /\ payments[p].type \in {"DEPOSIT", "BALANCE"}
    /\ \/ request.status \in {"OPERATOR_ASSIGNED", "COMPLETED"}
       \/ \E p \in PaymentIds : Exists(p) /\ payments[p].type = "BALANCE"
       \/ \E w \in Procs : proc[w].pc \in PastDeposit
       => Succeeded("DEPOSIT")

CInv == Control /\ IInv /\ Witnessed /\ DepositFirst

(* A statement that neither inserts a row nor records a success.           *)
Quiet ==
    \A q \in PaymentIds :
        /\ Exists(q)' => Exists(q)
        /\ StatusOf(q)' \in Won => StatusOf(q) \in Won
        /\ payments'[q].request = payments[q].request
        /\ payments'[q].type = payments[q].type

LEMMA QuietStatements ==
    ASSUME TypeOK, NEW p \in PaymentIds,
           \/ ClaimForSubmission(p) \/ RecordRejection(p, NoReason)
           \/ ClaimTerminal(p, "FAILED") \/ BackOff(p) \/ StoreCheckoutUrl(p)
           \/ VerifyAfterPasses(p) \/ UNCHANGED payments
    PROVE  Quiet
<1> SUFFICES ASSUME NEW q \in PaymentIds
             PROVE  /\ payments'[q].status # "ABSENT" => payments[q].status # "ABSENT"
                    /\ payments'[q].status \in Won => payments[q].status \in Won
                    /\ payments'[q].request = payments[q].request
                    /\ payments'[q].type = payments[q].type
  BY DEF Quiet, Exists, StatusOf
<1>1. payments[p] \in Row /\ payments[q] \in Row
  BY DEF TypeOK
<1>2. CASE ClaimForSubmission(p)
  BY <1>1, <1>2 DEF ClaimForSubmission, TypeOK, Row, StatusOf, Won
<1>3. CASE RecordRejection(p, NoReason)
  BY <1>1, <1>3 DEF RecordRejection, TypeOK, Row, StatusOf, Won
<1>4. CASE ClaimTerminal(p, "FAILED")
  BY <1>1, <1>4 DEF ClaimTerminal, Claimable, TypeOK, Row, StatusOf, Won
<1>5. CASE BackOff(p) \/ StoreCheckoutUrl(p) \/ VerifyAfterPasses(p)
  BY <1>1, <1>5 DEF BackOff, StoreCheckoutUrl, VerifyAfterPasses, TypeOK, Row
<1>6. CASE UNCHANGED payments
  BY <1>6
<1> QED BY <1>2, <1>3, <1>4, <1>5, <1>6

(* The other statements of a collection: an INSERT, and a success.         *)
LEMMA CreateEffect ==
    ASSUME TypeOK, NEW p \in PaymentIds, NEW t, Create(p, Job, t),
           NEW q \in PaymentIds
    PROVE  IF q = p
             THEN /\ StatusOf(q)' \notin Won
                  /\ payments'[q].request = Job /\ payments'[q].type = t
             ELSE payments'[q] = payments[q]
  BY DEF Create, NewRow, TypeOK, StatusOf, Won

LEMMA SuccessEffect ==
    ASSUME TypeOK, NEW w, NEW p \in PaymentIds, SettleSuccess(w, p),
           NEW q \in PaymentIds
    PROVE  /\ Exists(q)' => Exists(q)
           /\ payments'[q].request = payments[q].request
           /\ payments'[q].type = payments[q].type
           /\ q # p => payments'[q] = payments[q]
<1>1. payments[p] \in Row /\ payments[q] \in Row
  BY DEF TypeOK
<1>2. CASE UNCHANGED payments
  BY <1>2 DEF Exists, StatusOf
<1>3. CASE ClaimTerminal(p, "SUCCEEDED")
  BY <1>1, <1>3 DEF ClaimTerminal, Claimable, TypeOK, Row, Exists, StatusOf
<1>4. CASE RecordDuplicateSuccess(p)
  BY <1>1, <1>4 DEF RecordDuplicateSuccess, Claimable, TypeOK, Row, Exists, StatusOf
<1> QED BY <1>2, <1>3, <1>4 DEF SettleSuccess

(* What a success that is recorded rests on.                               *)
Records(w, p) ==
    /\ SettleSuccess(w, p)
    /\ p \in events \/ (proc[w].pc = "succeed" /\ p = proc[w].row)
    /\ UNCHANGED <<requestVars, paystackVars>>

(* What a step of a collection may do to the table.                        *)
LEMMA TableStep ==
    ASSUME Control, TypeOK, CollectionNext
    PROVE  \/ Quiet
           \/ \E h \in Handlers : OpenDeposit(h) \/ BillBalance(h)
           \/ \E w \in Procs, p \in PaymentIds : Records(w, p)
<1> Located
  BY DEF Control
<1>0. ASSUME NEW w \in Procs, proc[w].pc \in OnARow PROVE proc[w].row \in PaymentIds
  BY <1>0 DEF Located, Placed
<1>a. ASSUME UNCHANGED payments PROVE Quiet
  BY <1>a DEF Quiet, Exists, StatusOf
<1>1. ASSUME NEW w \in Procs, OpeningStep(w) PROVE Quiet
  <2>1. CASE Claim(w)
    BY <1>0, <1>a, <2>1, QuietStatements DEF Claim, At, OnARow
  <2>2. CASE ApplyInitialize(w)
    BY <1>0, <1>a, <2>2, QuietStatements DEF ApplyInitialize, At, OnARow
  <2>3. CASE PostInitialize(w) \/ KeepDepositUrl(w) \/ SendLink(w)
    BY <1>a, <2>3 DEF PostInitialize, KeepDepositUrl, SendLink
  <2> QED BY <1>1, <2>1, <2>2, <2>3 DEF OpeningStep
<1>2. ASSUME NEW w \in Procs, ConfirmingStep(w) PROVE Quiet
  BY <1>2, <1>a DEF ConfirmingStep, ConfirmDeposit, MarkAssigned,
              ActivateAssignedJob, FinalizeJobSettlement, PayOperator
<1>3. ASSUME NEW h \in Handlers, SelectQuote(h) \/ AssignOperator(h)
      PROVE  OpenDeposit(h)
  BY <1>3 DEF SelectQuote, AssignOperator
<1>4. ASSUME NEW h \in Handlers,
             \/ AskToCancel(h) \/ SelfCancel(h) \/ ConfirmCompletion(h)
             \/ CompletionStep(h)
      PROVE  Quiet \/ BillBalance(h)
  BY <1>4, <1>a DEF AskToCancel, SelfCancel, ConfirmCompletion, CompletionStep,
                    ReadForCompletion, MarkJobCompleted
<1>5. ASSUME NEW v \in Checkers, VerifyStep(v)
      PROVE  Quiet \/ \E w \in Procs, p \in PaymentIds : Records(w, p)
  <2> v \in Procs
    BY DEF Procs
  <2>1. CASE FailCollection(v)
    BY <1>0, <1>a, <2>1, QuietStatements DEF FailCollection, At, OnARow
  <2>2. CASE SettleVerified(v)
    BY <1>0, <2>2 DEF SettleVerified, Records, At, OnARow
  <2>3. CASE BackOffRow(v)
    BY <1>0, <2>3, QuietStatements DEF BackOffRow, At, OnARow
  <2>4. CASE RereadRow(v) \/ AskPaystack(v) \/ AskInVain(v) \/ ResendBalanceLink(v)
    BY <1>a, <2>4 DEF RereadRow, AskPaystack, AskInVain, ResendBalanceLink
  <2> QED BY <1>5, <2>1, <2>2, <2>3, <2>4 DEF VerifyStep
<1>6. ASSUME NEW k \in Hooks, NEW p \in PaymentIds, DeliverCharge(k, p)
      PROVE  \E w \in Procs : Records(w, p)
  BY <1>6 DEF DeliverCharge, Records, Procs
<1>7. ASSUME NEW v, NEW p, PickDueRow(v, p) PROVE Quiet
  BY <1>7, <1>a DEF PickDueRow
<1>8. ASSUME NEW p \in PaymentIds,
             LateArrival(p) \/ CustomerPays(p) \/ ChargeFails(p) \/ TimePasses(p)
      PROVE  Quiet
  BY <1>8, <1>a, QuietStatements DEF LateArrival, CustomerPays, ChargeFails, TimePasses
<1>9. CASE \/ RemindDeposit \/ ExpireDeposit \/ DeadlinePasses \/ AdminCancel
           \/ \E w \in Procs : Crash(w)
  BY <1>9, <1>a DEF RemindDeposit, ExpireDeposit, DeadlinePasses, AdminCancel, Crash
<1> QED BY <1>1, <1>2, <1>3, <1>4, <1>5, <1>6, <1>7, <1>8, <1>9 DEF CollectionNext

(* ... to what Paystack holds: money that arrived stays, and an event says *)
(* that it did ...                                                         *)
LEMMA MoneyStep ==
    ASSUME Control, CollectionNext, NEW p \in PaymentIds
    PROVE  /\ charge[p] = "paid" => charge'[p] = "paid"
           /\ p \in events' => p \in events \/ charge'[p] = "paid"
<1> charge \in [PaymentIds -> ChargeStatuses]
  BY DEF Control, PaystackOK
<1>1. CASE UNCHANGED paystackVars
  BY <1>1 DEF paystackVars
<1>2. CASE UNCHANGED <<charge, events>>
  BY <1>2
<1>3. ASSUME NEW w \in Procs, PostInitialize(w)
      PROVE  /\ charge[p] = "paid" => charge'[p] = "paid"
             /\ p \in events' => p \in events
  BY <1>3 DEF PostInitialize
<1>4. ASSUME NEW q \in PaymentIds, LateArrival(q) \/ CustomerPays(q) \/ ChargeFails(q)
      PROVE  /\ charge[p] = "paid" => charge'[p] = "paid"
             /\ p \in events' => p \in events \/ charge'[p] = "paid"
  BY <1>4 DEF LateArrival, CustomerPays, ChargeFails
<1>5. ASSUME NEW w \in Procs, OpeningStep(w)
      PROVE  UNCHANGED paystackVars \/ UNCHANGED <<charge, events>> \/ PostInitialize(w)
  BY <1>5 DEF OpeningStep, Claim, ApplyInitialize, KeepDepositUrl, SendLink
<1>6. ASSUME NEW w \in Procs, ConfirmingStep(w) \/ Crash(w)
      PROVE  UNCHANGED paystackVars
  BY <1>6 DEF ConfirmingStep, ConfirmDeposit, MarkAssigned, ActivateAssignedJob,
              FinalizeJobSettlement, PayOperator, Crash
<1>7. ASSUME NEW h \in Handlers,
             \/ SelectQuote(h) \/ AssignOperator(h) \/ AskToCancel(h) \/ SelfCancel(h)
             \/ ConfirmCompletion(h) \/ CompletionStep(h)
      PROVE  UNCHANGED paystackVars
  BY <1>7 DEF SelectQuote, AssignOperator, OpenDeposit, AskToCancel, SelfCancel,
              ConfirmCompletion, CompletionStep, ReadForCompletion, MarkJobCompleted,
              BillBalance
<1>8. ASSUME NEW v \in Checkers, VerifyStep(v)
      PROVE  UNCHANGED paystackVars \/ UNCHANGED <<charge, events>>
  BY <1>8 DEF VerifyStep, RereadRow, AskPaystack, AskInVain, FailCollection,
              SettleVerified, ResendBalanceLink, BackOffRow
<1>9. ASSUME NEW v, NEW q, PickDueRow(v, q) \/ DeliverCharge(v, q)
      PROVE  UNCHANGED paystackVars
  BY <1>9 DEF PickDueRow, DeliverCharge
<1>10. ASSUME NEW q \in PaymentIds, TimePasses(q) PROVE UNCHANGED paystackVars
  BY <1>10 DEF TimePasses
<1>11. CASE RemindDeposit \/ ExpireDeposit \/ DeadlinePasses \/ AdminCancel
  BY <1>1, <1>2, <1>11 DEF RemindDeposit, ExpireDeposit, DeadlinePasses, AdminCancel
<1> QED BY <1>1, <1>2, <1>3, <1>4, <1>5, <1>6, <1>7, <1>8, <1>9, <1>10, <1>11
        DEF CollectionNext

(* ... and to a process: who comes to record a success has just read it at *)
(* Paystack; who gets past the deposit was past it already, has read a     *)
(* status past it, or has just won a success.                              *)
Arrives(u) ==
    \/ proc'[u] = proc[u]
    \/ proc'[u].pc \notin PastDeposit \cup {"succeed"}
    \/ proc'[u].pc \in PastDeposit /\ proc[u].pc \in PastDeposit
    \/ /\ proc'[u].pc = "succeed" /\ proc'[u].row = proc[u].row
       /\ proc[u].row \in PaymentIds /\ charge[proc[u].row] = "paid"
    \/ proc'[u].pc \in PastDeposit /\ request.status = "OPERATOR_ASSIGNED"
    \/ /\ proc'[u].pc \in PastDeposit
       /\ \E p \in PaymentIds : Records(u, p) /\ ClaimTerminal(p, "SUCCEEDED")

LEMMA ArrivesByGoto ==
    ASSUME Located, NEW w \in Procs, NEW step, Goto(w, step), NEW u \in Procs,
           \/ step \notin PastDeposit \cup {"succeed"}
           \/ step \in PastDeposit /\ proc[w].pc \in PastDeposit
           \/ step \in PastDeposit /\ request.status = "OPERATOR_ASSIGNED"
           \/ /\ step = "succeed"
              /\ proc[w].row \in PaymentIds /\ charge[proc[w].row] = "paid"
    PROVE  Arrives(u)
<1>1. proc[w] \in Process /\ proc' = [proc EXCEPT ![w].pc = step]
  BY DEF Located, Goto
<1>2. proc'[w].pc = step /\ proc'[w].row = proc[w].row
  BY <1>1 DEF Process, Located
<1>3. u # w => proc'[u] = proc[u]
  BY <1>1 DEF Located
<1> QED BY <1>2, <1>3 DEF Arrives

LEMMA ArrivesByStop ==
    ASSUME Located, NEW w \in Procs, Stop(w), NEW u \in Procs
    PROVE  Arrives(u)
  BY DEF Located, Stop, Idle, Arrives, PastDeposit

LEMMA ArrivesByTake ==
    ASSUME Located, NEW w \in Procs, NEW u \in Procs,
           NEW step, step \notin PastDeposit \cup {"succeed"},
           \/ \E p : proc' = [proc EXCEPT ![w].pc = step, ![w].row = p]
           \/ \E a : proc' = [proc EXCEPT ![w].pc = step, ![w].answer = a]
           \/ \E b : proc' = [proc EXCEPT ![w].pc = step, ![w].noUrl = b]
    PROVE  Arrives(u)
<1>1. proc[w] \in Process
  BY DEF Located
<1>2. proc'[w].pc = step /\ (u # w => proc'[u] = proc[u])
  BY <1>1 DEF Process, Located
<1> QED BY <1>2 DEF Arrives

LEMMA ArrivesByRecord ==
    ASSUME Located, NEW w \in Procs, NEW p \in PaymentIds, Records(w, p),
           NEW u \in Procs
    PROVE  Arrives(u)
<1>1. CASE Stop(w)
  BY <1>1, ArrivesByStop
<1>2. CASE /\ ClaimTerminal(p, "SUCCEEDED")
           /\ proc' = [proc EXCEPT ![w] = [Idle EXCEPT !.pc = Confirming(p), !.row = p]]
  <2>1. Confirming(p) \in PastDeposit
    BY DEF Confirming, PastDeposit
  <2>2. proc'[w].pc = Confirming(p) /\ (u # w => proc'[u] = proc[u])
    BY <1>2 DEF Idle, Located
  <2> QED BY <1>2, <2>1, <2>2 DEF Arrives
<1> QED BY <1>1, <1>2 DEF Records, SettleSuccess

LEMMA ProcStep ==
    ASSUME Control, CollectionNext, NEW u \in Procs
    PROVE  Arrives(u)
<1> Located /\ PaystackOK
  BY DEF Control
<1>a. ASSUME UNCHANGED proc PROVE Arrives(u)
  BY <1>a DEF Arrives
<1>1. ASSUME NEW w \in Procs, OpeningStep(w) PROVE Arrives(u)
  <2>1. \/ \E step \in {"post", "stored", "send"} : Goto(w, step)
        \/ Stop(w)
        \/ \E a : proc' = [proc EXCEPT ![w].pc = "apply", ![w].answer = a]
    BY <1>1 DEF OpeningStep, Claim, PostInitialize, ApplyInitialize, KeepDepositUrl,
                SendLink
  <2> QED BY <2>1, ArrivesByGoto, ArrivesByStop, ArrivesByTake DEF PastDeposit
<1>2. ASSUME NEW w \in Procs, ConfirmingStep(w) PROVE Arrives(u)
  <2>1. \/ /\ proc[w].pc \in PastDeposit
           /\ \E step \in {"assign", "activate", "payOperator"} : Goto(w, step)
        \/ Stop(w)
    BY <1>2 DEF ConfirmingStep, ConfirmDeposit, MarkAssigned, ActivateAssignedJob,
                FinalizeJobSettlement, PayOperator, At, PastDeposit
  <2> QED BY <2>1, ArrivesByGoto, ArrivesByStop DEF PastDeposit
<1>3. ASSUME NEW w \in Procs, Crash(w) PROVE Arrives(u)
  BY <1>3, ArrivesByStop DEF Crash
<1>4. ASSUME NEW h \in Handlers,
             \/ SelectQuote(h) \/ AssignOperator(h) \/ AskToCancel(h) \/ SelfCancel(h)
             \/ ConfirmCompletion(h) \/ CompletionStep(h)
      PROVE  Arrives(u)
  <2> h \in Procs
    BY DEF Procs
  <2>0. ASSUME \E p : proc' = [proc EXCEPT ![h].pc = "claim", ![h].row = p]
        PROVE  Arrives(u)
    <3>1. "claim" \notin PastDeposit \cup {"succeed"}
      BY DEF PastDeposit
    <3> QED BY <2>0, <3>1, ArrivesByTake
  <2>1. CASE SelectQuote(h) \/ AssignOperator(h)
    BY <2>0, <2>1 DEF SelectQuote, AssignOperator, OpenDeposit
  <2>2. CASE AskToCancel(h) \/ SelfCancel(h)
    BY <2>2, ArrivesByGoto, ArrivesByStop DEF AskToCancel, SelfCancel, PastDeposit
  <2>3. CASE ConfirmCompletion(h)
    BY <2>3, ArrivesByGoto DEF ConfirmCompletion, PastDeposit
  <2>4. CASE CompletionStep(h)
    <3>1. \/ /\ proc[h].pc \in PastDeposit
             /\ \E step \in {"close", "closeAndBill", "bill", "finalize"} : Goto(h, step)
          \/ \E p : proc' = [proc EXCEPT ![h].pc = "claim", ![h].row = p]
          \/ Stop(h)
      BY <2>4 DEF CompletionStep, ReadForCompletion, MarkJobCompleted, BillBalance, At,
                  PastDeposit
    <3>2. {"close", "closeAndBill", "bill", "finalize"} \subseteq PastDeposit
      BY DEF PastDeposit
    <3> QED BY <2>0, <3>1, <3>2, ArrivesByGoto, ArrivesByStop
  <2> QED BY <1>4, <2>1, <2>2, <2>3, <2>4
<1>5. ASSUME NEW v \in Checkers, VerifyStep(v) PROVE Arrives(u)
  <2> v \in Procs
    BY DEF Procs
  <2>0. proc[v].pc \in OnARow => proc[v].row \in PaymentIds
    BY DEF Located, Placed
  <2>1. CASE AskPaystack(v)
    <3>1. proc[v].row \in PaymentIds
      BY <2>0, <2>1 DEF AskPaystack, At, OnARow
    <3>2. charge[proc[v].row] \in ChargeStatuses
      BY <3>1 DEF PaystackOK
    <3>3. \/ Goto(v, "fail") \/ Goto(v, "wait")
          \/ Goto(v, "succeed") /\ charge[proc[v].row] = "paid"
      BY <2>1, <3>2 DEF AskPaystack, ChargeStatuses
    <3> QED BY <3>1, <3>3, ArrivesByGoto DEF PastDeposit
  <2>2. CASE SettleVerified(v)
    <3>1. Records(v, proc[v].row) /\ proc[v].row \in PaymentIds
      BY <2>0, <2>2 DEF SettleVerified, Records, At, OnARow
    <3> QED BY <3>1, ArrivesByRecord
  <2>3. CASE \/ RereadRow(v) \/ AskInVain(v) \/ FailCollection(v)
             \/ ResendBalanceLink(v) \/ BackOffRow(v)
    <3>1. \/ \E b : proc' = [proc EXCEPT ![v].pc = "ask", ![v].noUrl = b]
          \/ Goto(v, "backoff")
          \/ Stop(v)
      BY <2>3 DEF RereadRow, AskInVain, FailCollection, ResendBalanceLink, BackOffRow
    <3> QED BY <3>1, ArrivesByGoto, ArrivesByStop, ArrivesByTake DEF PastDeposit
  <2> QED BY <1>5, <2>1, <2>2, <2>3 DEF VerifyStep
<1>6. ASSUME NEW v \in Checkers, NEW p \in PaymentIds, PickDueRow(v, p)
      PROVE  Arrives(u)
  <2>1. v \in Procs
    BY DEF Procs
  <2>2. \E step \in {"claim", "verify"} :
           proc' = [proc EXCEPT ![v].pc = step, ![v].row = p]
    BY <1>6 DEF PickDueRow
  <2> QED BY <2>1, <2>2, ArrivesByTake DEF PastDeposit
<1>7. ASSUME NEW k \in Hooks, NEW p \in PaymentIds, DeliverCharge(k, p)
      PROVE  Arrives(u)
  BY <1>7, ArrivesByRecord DEF DeliverCharge, Records, Procs
<1>8. ASSUME NEW p \in PaymentIds,
             LateArrival(p) \/ CustomerPays(p) \/ ChargeFails(p) \/ TimePasses(p)
      PROVE  Arrives(u)
  BY <1>8, <1>a DEF LateArrival, CustomerPays, ChargeFails, TimePasses
<1>9. CASE RemindDeposit \/ ExpireDeposit \/ DeadlinePasses \/ AdminCancel
  BY <1>9, <1>a DEF RemindDeposit, ExpireDeposit, DeadlinePasses, AdminCancel
<1> QED BY <1>1, <1>2, <1>3, <1>4, <1>5, <1>6, <1>7, <1>8, <1>9 DEF CollectionNext

(* A status past the deposit is written by a process that is past it.      *)
LEMMA RequestStep ==
    ASSUME Control, CollectionNext,
           request'.status \in {"OPERATOR_ASSIGNED", "COMPLETED"}
    PROVE  \/ request.status \in {"OPERATOR_ASSIGNED", "COMPLETED"}
           \/ \E w \in Procs : proc[w].pc \in PastDeposit
<1> RequestOK
  BY DEF Control
<1>a. ASSUME request' = request PROVE request'.status = request.status
  BY <1>a
<1>1. ASSUME NEW w \in Procs, OpeningStep(w) PROVE request'.status = request.status
  BY <1>1 DEF OpeningStep, Claim, PostInitialize, ApplyInitialize, KeepDepositUrl,
              SendLink, requestVars, RequestOK
<1>2. ASSUME NEW w \in Procs, ConfirmingStep(w)
      PROVE  request' = request \/ proc[w].pc \in PastDeposit
  BY <1>2 DEF ConfirmingStep, ConfirmDeposit, MarkAssigned, ActivateAssignedJob,
              FinalizeJobSettlement, PayOperator, At, PastDeposit, requestVars
<1>3. ASSUME NEW h \in Handlers, SelectQuote(h) \/ AssignOperator(h) \/ SelfCancel(h)
      PROVE  FALSE
  BY <1>3 DEF SelectQuote, AssignOperator, OpenDeposit, SelfCancel, CancelRequest,
              RequestOK
<1>4. ASSUME NEW h \in Handlers,
             AskToCancel(h) \/ ConfirmCompletion(h) \/ CompletionStep(h)
      PROVE  request' = request \/ proc[h].pc \in PastDeposit
  BY <1>4 DEF AskToCancel, ConfirmCompletion, CompletionStep, ReadForCompletion,
              MarkJobCompleted, BillBalance, At, PastDeposit, requestVars
<1>5. ASSUME NEW v, VerifyStep(v) \/ \E p \in PaymentIds : PickDueRow(v, p) \/ DeliverCharge(v, p)
      PROVE  request' = request
  BY <1>5 DEF VerifyStep, RereadRow, AskPaystack, AskInVain, FailCollection,
              SettleVerified, ResendBalanceLink, BackOffRow, PickDueRow, DeliverCharge,
              requestVars
<1>6. ASSUME NEW p \in PaymentIds,
             LateArrival(p) \/ CustomerPays(p) \/ ChargeFails(p) \/ TimePasses(p)
      PROVE  request' = request
  BY <1>6 DEF LateArrival, CustomerPays, ChargeFails, TimePasses, requestVars
<1>7. CASE ExpireDeposit \/ AdminCancel
  BY <1>7 DEF ExpireDeposit, AdminCancel, CancelRequest, RequestOK
<1>8. CASE RemindDeposit \/ DeadlinePasses \/ \E w \in Procs : Crash(w)
  BY <1>8 DEF RemindDeposit, DeadlinePasses, Crash, requestVars, RequestOK
<1>9. Handlers \subseteq Procs
  BY DEF Procs
<1> QED BY <1>a, <1>1, <1>2, <1>3, <1>4, <1>5, <1>6, <1>7, <1>8, <1>9 DEF CollectionNext

(* A success is for good.                                                  *)
LEMMA SucceededStays ==
    ASSUME IInv, [Next]_ledgerVars, NEW t, Succeeded(t)
    PROVE  Succeeded(t)'
<1> PICK q \in RowsOf(Job, t) : StatusOf(q) = "SUCCEEDED"
  BY DEF Succeeded
<1>1. CASE UNCHANGED ledgerVars
  BY <1>1 DEF ledgerVars, Succeeded, RowsOf, Exists, StatusOf
<1>2. CASE Next
  <2>1. PICK p \in PaymentIds : LedgerStep(p)
    BY <1>2 DEF Next
  <2>2. OnlyRow(p) /\ Shape(p)
    BY <2>1, StepShape DEF IInv
  <2>3. q \in PaymentIds
    BY DEF RowsOf
  <2>4. /\ payments'[q].status = "SUCCEEDED"
        /\ payments'[q].request = payments[q].request
        /\ payments'[q].type = payments[q].type
    BY <2>2, <2>3 DEF OnlyRow, Shape, Opens, Keeps, Stays, Moves, Wins, Duplicates,
                      Ends, Exists, StatusOf, InFlight
  <2> QED BY <2>3, <2>4 DEF Succeeded, RowsOf, Exists, StatusOf
<1> QED BY <1>1, <1>2

LEMMA WitnessedStep ==
    ASSUME Control, TypeOK, Witnessed, CollectionNext
    PROVE  Witnessed'
<1>1. \A p \in PaymentIds : charge[p] = "paid" => charge'[p] = "paid"
  BY MoneyStep
<1>2. events' \subseteq PaymentIds /\ events \subseteq PaymentIds
  BY StepControl DEF Control, PaystackOK
<1>3. \A p \in events' : charge'[p] = "paid"
  BY <1>1, <1>2, MoneyStep DEF Witnessed
<1>4. ASSUME NEW q \in PaymentIds, payments'[q].status \in Won
      PROVE  charge'[q] = "paid"
  <2>1. payments[q].status \in Won => charge[q] = "paid"
    BY DEF Witnessed, SuccessIsPaid, StatusOf, Won
  <2>2. CASE Quiet
    BY <1>1, <1>4, <2>1, <2>2 DEF Quiet, StatusOf
  <2>3. ASSUME NEW h \in Handlers, OpenDeposit(h) \/ BillBalance(h)
        PROVE  payments'[q].status \in Won => payments[q].status \in Won
    <3>1. \/ UNCHANGED payments
          \/ \E p \in PaymentIds, t \in {"DEPOSIT", "BALANCE"} : Create(p, Job, t)
      BY <2>3 DEF OpenDeposit, BillBalance
    <3> QED BY <3>1, CreateEffect DEF StatusOf
  <2>4. ASSUME NEW w \in Procs, NEW p \in PaymentIds, Records(w, p)
        PROVE  charge'[q] = "paid"
    <3>1. charge[p] = "paid"
      BY <2>4 DEF Records, Witnessed
    <3>2. q # p => payments'[q] = payments[q]
      BY <2>4, SuccessEffect DEF Records
    <3> QED BY <1>1, <1>4, <2>1, <3>1, <3>2
  <2> QED BY <1>1, <1>4, <2>1, <2>2, <2>3, <2>4, TableStep
<1>5. ASSUME NEW u \in Procs, proc'[u].pc = "succeed"
      PROVE  charge'[proc'[u].row] = "paid"
  <2>1. Arrives(u)
    BY ProcStep
  <2>2. "succeed" \notin PastDeposit
    BY DEF PastDeposit
  <2>3. proc'[u].row = proc[u].row /\ charge[proc[u].row] = "paid"
    BY <1>5, <2>1, <2>2 DEF Arrives, Witnessed
  <2>4. Placed(proc'[u])
    BY StepControl DEF Control, Located
  <2>5. proc'[u].row \in PaymentIds
    BY <1>5, <2>4 DEF Placed, OnARow
  <2> QED BY <1>1, <2>3, <2>5
<1> QED BY <1>3, <1>4, <1>5 DEF Witnessed, SuccessIsPaid, StatusOf, Won

LEMMA DepositFirstStep ==
    ASSUME Control, IInv, DepositFirst, CollectionNext, [Next]_ledgerVars
    PROVE  DepositFirst'
<1>0. TypeOK
  BY DEF IInv
<1>1. Succeeded("DEPOSIT") => Succeeded("DEPOSIT")'
  BY SucceededStays
<1>2. ASSUME NEW q \in PaymentIds, Exists(q)'
      PROVE  /\ payments'[q].request = Job
             /\ payments'[q].type \in {"DEPOSIT", "BALANCE"}
             /\ payments'[q].type = "BALANCE" => Succeeded("DEPOSIT")
  <2>1. ASSUME Exists(q), payments'[q].request = payments[q].request,
               payments'[q].type = payments[q].type
        PROVE  /\ payments'[q].request = Job
               /\ payments'[q].type \in {"DEPOSIT", "BALANCE"}
               /\ payments'[q].type = "BALANCE" => Succeeded("DEPOSIT")
    BY <2>1 DEF DepositFirst
  <2>2. CASE Quiet
    BY <1>2, <2>1, <2>2 DEF Quiet
  <2>3. ASSUME payments'[q] = payments[q]
        PROVE  /\ payments'[q].request = Job
               /\ payments'[q].type \in {"DEPOSIT", "BALANCE"}
               /\ payments'[q].type = "BALANCE" => Succeeded("DEPOSIT")
    BY <1>2, <2>1, <2>3 DEF Exists, StatusOf
  <2>4. ASSUME NEW h \in Handlers, OpenDeposit(h)
        PROVE  \/ payments'[q] = payments[q]
               \/ payments'[q].request = Job /\ payments'[q].type = "DEPOSIT"
    BY <1>0, <2>4, CreateEffect DEF OpenDeposit
  <2>5. ASSUME NEW h \in Handlers, BillBalance(h)
        PROVE  \/ payments'[q] = payments[q]
               \/ /\ payments'[q].request = Job /\ payments'[q].type = "BALANCE"
                  /\ Succeeded("DEPOSIT")
    <3>1. h \in Procs /\ proc[h].pc \in PastDeposit
      BY <2>5 DEF BillBalance, At, PastDeposit, Procs
    <3>2. Succeeded("DEPOSIT")
      BY <3>1 DEF DepositFirst
    <3> QED BY <1>0, <2>5, <3>2, CreateEffect DEF BillBalance
  <2>6. ASSUME NEW w \in Procs, NEW p \in PaymentIds, Records(w, p)
        PROVE  /\ Exists(q) /\ payments'[q].request = payments[q].request
               /\ payments'[q].type = payments[q].type
    BY <1>0, <1>2, <2>6, SuccessEffect DEF Records
  <2> QED BY <1>0, <2>1, <2>2, <2>3, <2>4, <2>5, <2>6, TableStep
<1>3. ASSUME request'.status \in {"OPERATOR_ASSIGNED", "COMPLETED"}
      PROVE  Succeeded("DEPOSIT")
  BY <1>3, RequestStep DEF DepositFirst
<1>4. ASSUME NEW u \in Procs, proc'[u].pc \in PastDeposit
      PROVE  Succeeded("DEPOSIT")'
  <2>1. "succeed" \notin PastDeposit
    BY DEF PastDeposit
  <2>2. CASE proc[u].pc \in PastDeposit \/ request.status = "OPERATOR_ASSIGNED"
    BY <1>1, <2>2 DEF DepositFirst
  <2>3. ASSUME NEW p \in PaymentIds, Records(u, p), ClaimTerminal(p, "SUCCEEDED")
        PROVE  Succeeded("DEPOSIT")'
    <3>1. /\ payments[p] \in Row /\ Exists(p)
      BY <1>0, <2>3 DEF TypeOK, ClaimTerminal, Claimable, Exists
    <3>2. payments[p].request = Job /\ payments[p].type \in {"DEPOSIT", "BALANCE"}
      BY <3>1 DEF DepositFirst
    <3>3. /\ payments'[p].status = "SUCCEEDED"
          /\ payments'[p].request = payments[p].request
          /\ payments'[p].type = payments[p].type
      BY <1>0, <2>3, <3>1 DEF ClaimTerminal, TypeOK, Row
    <3>4. CASE payments[p].type = "DEPOSIT"
      BY <3>2, <3>3, <3>4 DEF Succeeded, RowsOf, Exists, StatusOf
    <3>5. CASE payments[p].type = "BALANCE"
      BY <1>1, <3>1, <3>5 DEF DepositFirst
    <3> QED BY <3>2, <3>4, <3>5
  <2>4. Arrives(u)
    BY ProcStep
  <2> QED BY <1>4, <2>1, <2>2, <2>3, <2>4 DEF Arrives
<1> QED BY <1>1, <1>2, <1>3, <1>4 DEF DepositFirst

LEMMA CInvariant == CollectionSpec => []CInv
<1>1. CollectionInit => Witnessed /\ DepositFirst
  <2> SUFFICES ASSUME CollectionInit PROVE Witnessed /\ DepositFirst
    OBVIOUS
  <2>1. \A p \in PaymentIds : payments[p].status = "ABSENT"
    BY DEF CollectionInit, Init, AbsentRow
  <2>2. \A w \in Procs : proc[w].pc = "idle"
    BY DEF CollectionInit, Idle
  <2>3. Witnessed
    BY <2>1, <2>2 DEF CollectionInit, Witnessed, SuccessIsPaid, StatusOf
  <2>4. request.status = "DISPATCHING"
    BY DEF CollectionInit
  <2>5. DepositFirst
    BY <2>1, <2>2, <2>4 DEF DepositFirst, Exists, StatusOf, PastDeposit
  <2> QED BY <2>3, <2>5
<1>2. Control /\ IInv /\ Witnessed /\ DepositFirst /\ [CollectionNext]_collectionVars
        => (Witnessed /\ DepositFirst)'
  <2>1. CASE UNCHANGED collectionVars
    BY <2>1 DEF collectionVars, Witnessed, SuccessIsPaid, DepositFirst, Succeeded,
                RowsOf, Exists, StatusOf
  <2>2. CASE Control /\ IInv /\ Witnessed /\ DepositFirst /\ CollectionNext
    BY <2>2, StepLedger, WitnessedStep, DepositFirstStep DEF IInv
  <2> QED BY <2>1, <2>2
<1>3. CollectionSpec => []IInv
  BY CollectionFollowsLedger, LedgerInvariant, PTL DEF CollectionLedgerDiscipline
<1> QED BY <1>1, <1>2, <1>3, ControlInvariant, PTL DEF CollectionSpec, CInv

(* No row is called paid, nor a duplicate quarantined for a refund, unless *)
(* the money arrived: whatever webhooks, verifications, crashes and other  *)
(* rows of the job do in between.                                          *)
THEOREM SuccessIsAlwaysPaid == CollectionSpec => []SuccessIsPaid
<1>1. CInv => SuccessIsPaid
  BY DEF CInv, Witnessed
<1> QED BY <1>1, CInvariant, PTL

(* No operator is sent out, and no job closed, on an unpaid deposit, even  *)
(* though the writes of both statuses check nothing.                       *)
THEOREM OnTheJobIsAlwaysPaid == CollectionSpec => []OnTheJobIsPaid
<1>1. CInv => OnTheJobIsPaid
  BY DEF CInv, DepositFirst, OnTheJobIsPaid
<1> QED BY <1>1, CInvariant, PTL

-----------------------------------------------------------------------------
(* Links and rows.  A process that has claimed a row and not yet had its   *)
(* answer stored is posting it: there is one, and nobody verifies the row  *)
(* meanwhile.  So the copy a verification decides on is still true when it *)
(* decides, and a row is only ever failed while it has no link, or once    *)
(* its charge has failed.                                                  *)
Posting(w, p) == proc[w].row = p /\ proc[w].pc \in {"post", "apply"}

Unposted(p) == \A w \in Procs : ~Posting(w, p)

(* ... seen from a process w that holds row p ...                          *)
Opened(w, p) ==
    Posting(w, p) =>
        /\ StatusOf(p) = "SUBMITTED"
        /\ ~payments[p].verifyDue /\ ~payments[p].checkoutUrl
        /\ proc[w].pc = "apply" /\ proc[w].answer = "ok" => charge[p] # "none"
        /\ \A x \in Procs : Posting(x, p) => x = w

Verified(w, p) ==
    proc[w].row = p =>
        /\ proc[w].pc \in {"stored", "send", "wait"} => payments[p].checkoutUrl
        /\ proc[w].pc \in {"verify", "ask", "fail"} => Past(p) /\ Unposted(p)
        /\ proc[w].pc = "ask" => (proc[w].noUrl <=> ~payments[p].checkoutUrl)
        /\ proc[w].pc = "fail" => charge[p] = "failed" \/ ~payments[p].checkoutUrl

(* ... and from the row.                                                   *)
Linked(p) ==
    /\ p \in links \/ request.url = p \/ charge[p] \in {"paid", "failed"}
          => payments[p].checkoutUrl
    /\ payments[p].checkoutUrl =>
          /\ Past(p) /\ charge[p] # "none"
          /\ charge[p] = "failed" \/ StatusOf(p) \in {"SUBMITTED"} \cup Won

LinkInv ==
    /\ \A w \in Procs, p \in PaymentIds : Opened(w, p) /\ Verified(w, p)
    /\ \A p \in PaymentIds : Linked(p)

(* Who is about to settle a job, and where there is a balance: it is paid, *)
(* and by that payment one process, once, got there.                       *)
Settling(w) == proc[w].pc \in {"finalize", "payOperator"}

SettleInv ==
    request.balanceDue =>
        /\ settlements <= 1
        /\ settlements = 1 => Succeeded("BALANCE")
        /\ \A w \in Procs : Settling(w) =>
              /\ settlements = 0 /\ Succeeded("BALANCE")
              /\ \A x \in Procs : Settling(x) => x = w

(* What a step may do to a settlement.                                     *)
Closes(u) ==
    \/ proc'[u] = proc[u]
    \/ proc'[u].pc \notin {"finalize", "payOperator"}
    \/ Settling(u)
    \/ ~request.balanceDue
    \/ /\ \E p \in PaymentIds : ClaimTerminal(p, "SUCCEEDED") /\ payments[p].type # "DEPOSIT"
       /\ \A x \in Procs \ {u} : proc'[x] = proc[x]

Pays ==
    \/ UNCHANGED settlements
    \/ \E w \in Procs : /\ proc[w].pc = "payOperator" /\ proc'[w].pc = "idle"
                        /\ settlements' \in {settlements, settlements + 1}

SettleMove ==
    /\ request'.balanceDue = request.balanceDue
    /\ Pays
    /\ \A u \in Procs : Closes(u)

LEMMA ClosesByGoto ==
    ASSUME Located, NEW w \in Procs, NEW step, Goto(w, step),
           \/ step \notin {"finalize", "payOperator"}
           \/ Settling(w)
           \/ ~request.balanceDue
    PROVE  \A u \in Procs : Closes(u)
<1>1. proc[w] \in Process /\ proc' = [proc EXCEPT ![w].pc = step]
  BY DEF Located, Goto
<1>2. proc'[w].pc = step /\ \A u \in Procs \ {w} : proc'[u] = proc[u]
  BY <1>1 DEF Process, Located
<1> QED BY <1>2 DEF Closes

LEMMA ClosesByStop ==
    ASSUME Located, NEW w \in Procs, Stop(w)
    PROVE  \A u \in Procs : Closes(u)
  BY DEF Located, Stop, Idle, Closes

LEMMA ClosesByTake ==
    ASSUME Located, NEW w \in Procs,
           NEW step, step \notin {"finalize", "payOperator"},
           \/ \E p : proc' = [proc EXCEPT ![w].pc = step, ![w].row = p]
           \/ \E a : proc' = [proc EXCEPT ![w].pc = step, ![w].answer = a]
           \/ \E b : proc' = [proc EXCEPT ![w].pc = step, ![w].noUrl = b]
    PROVE  \A u \in Procs : Closes(u)
<1>1. proc[w] \in Process
  BY DEF Located
<1>2. proc'[w].pc = step /\ \A u \in Procs \ {w} : proc'[u] = proc[u]
  BY <1>1 DEF Process, Located
<1> QED BY <1>2 DEF Closes

LEMMA ClosesBySuccess ==
    ASSUME Located, NEW w \in Procs, NEW p \in PaymentIds, SettleSuccess(w, p)
    PROVE  \A u \in Procs : Closes(u)
<1>1. CASE Stop(w)
  BY <1>1, ClosesByStop
<1>2. CASE /\ ClaimTerminal(p, "SUCCEEDED")
           /\ proc' = [proc EXCEPT ![w] = [Idle EXCEPT !.pc = Confirming(p), !.row = p]]
  <2>1. proc'[w].pc = Confirming(p) /\ \A u \in Procs \ {w} : proc'[u] = proc[u]
    BY <1>2 DEF Idle, Located
  <2>2. payments[p].type = "DEPOSIT" => proc'[w].pc = "confirmDeposit"
    BY <2>1 DEF Confirming
  <2>3. Closes(w)
    BY <1>2, <2>1, <2>2 DEF Closes
  <2> QED BY <2>1, <2>3 DEF Closes
<1> QED BY <1>1, <1>2 DEF SettleSuccess

LEMMA StepSettles == ASSUME Control, CollectionNext PROVE SettleMove
<1> Located /\ RequestOK
  BY DEF Control
<1>a. ASSUME UNCHANGED requestVars, \A u \in Procs : Closes(u) PROVE SettleMove
  BY <1>a DEF SettleMove, Pays, requestVars
<1>b. ASSUME request' = request \/ \E s : request' = [request EXCEPT !.status = s]
      PROVE  request'.balanceDue = request.balanceDue
  BY <1>b DEF RequestOK
<1>1. ASSUME NEW w \in Procs, OpeningStep(w) PROVE SettleMove
  <2>1. \/ \E step \in {"post", "stored", "send"} : Goto(w, step)
        \/ Stop(w)
        \/ \E a : proc' = [proc EXCEPT ![w].pc = "apply", ![w].answer = a]
    BY <1>1 DEF OpeningStep, Claim, PostInitialize, ApplyInitialize, KeepDepositUrl,
                SendLink
  <2>2. \A u \in Procs : Closes(u)
    <3>1. "apply" \notin {"finalize", "payOperator"}
      OBVIOUS
    <3> QED BY <2>1, <3>1, ClosesByGoto, ClosesByStop, ClosesByTake
  <2>3. request'.balanceDue = request.balanceDue /\ UNCHANGED settlements
    BY <1>1 DEF OpeningStep, Claim, PostInitialize, ApplyInitialize, KeepDepositUrl,
                SendLink, requestVars, RequestOK
  <2> QED BY <2>2, <2>3 DEF SettleMove, Pays
<1>2. ASSUME NEW w \in Procs, ConfirmingStep(w) PROVE SettleMove
  <2>1. CASE ConfirmDeposit(w) \/ MarkAssigned(w) \/ ActivateAssignedJob(w)
    <3>1. (\E step \in {"assign", "activate"} : Goto(w, step)) \/ Stop(w)
      BY <2>1 DEF ConfirmDeposit, MarkAssigned, ActivateAssignedJob
    <3>2. \A u \in Procs : Closes(u)
      BY <3>1, ClosesByGoto, ClosesByStop
    <3>3. request'.balanceDue = request.balanceDue /\ UNCHANGED settlements
      BY <2>1 DEF ConfirmDeposit, MarkAssigned, ActivateAssignedJob, requestVars, RequestOK
    <3> QED BY <3>2, <3>3 DEF SettleMove, Pays
  <2>2. CASE FinalizeJobSettlement(w)
    <3>1. Settling(w) /\ Goto(w, "payOperator") /\ UNCHANGED settlements
      BY <2>2 DEF FinalizeJobSettlement, At, Settling
    <3>2. request'.balanceDue = request.balanceDue
      BY <2>2 DEF FinalizeJobSettlement, RequestOK
    <3> QED BY <3>1, <3>2, ClosesByGoto DEF SettleMove, Pays
  <2>3. CASE PayOperator(w)
    <3>1. proc[w].pc = "payOperator" /\ Stop(w) /\ UNCHANGED request
          /\ settlements' \in {settlements, settlements + 1}
      BY <2>3 DEF PayOperator, At
    <3>2. proc'[w].pc = "idle"
      BY <3>1 DEF Stop, Idle, Located
    <3> QED BY <3>1, <3>2, ClosesByStop DEF SettleMove, Pays
  <2> QED BY <1>2, <2>1, <2>2, <2>3 DEF ConfirmingStep
<1>3. ASSUME NEW w \in Procs, Crash(w) PROVE SettleMove
  BY <1>3, ClosesByStop DEF Crash, SettleMove, Pays
<1>4. ASSUME NEW h \in Handlers,
             \/ SelectQuote(h) \/ AssignOperator(h) \/ AskToCancel(h) \/ SelfCancel(h)
             \/ ConfirmCompletion(h) \/ CompletionStep(h)
      PROVE  SettleMove
  <2> h \in Procs
    BY DEF Procs
  <2>1. CASE SelectQuote(h) \/ AssignOperator(h)
    <3>1. \E p : proc' = [proc EXCEPT ![h].pc = "claim", ![h].row = p]
      BY <2>1 DEF SelectQuote, AssignOperator, OpenDeposit
    <3>2. \A u \in Procs : Closes(u)
      <4>1. "claim" \notin {"finalize", "payOperator"}
        OBVIOUS
      <4> QED BY <3>1, <4>1, ClosesByTake
    <3> QED BY <2>1, <3>2 DEF SelectQuote, AssignOperator, OpenDeposit, RequestOK, SettleMove,
                              Pays
  <2>2. CASE AskToCancel(h) \/ SelfCancel(h) \/ ConfirmCompletion(h)
    <3>1. (\E step \in {"cancel", "complete"} : Goto(h, step)) \/ Stop(h)
      BY <2>2 DEF AskToCancel, SelfCancel, ConfirmCompletion
    <3>2. \A u \in Procs : Closes(u)
      BY <3>1, ClosesByGoto, ClosesByStop
    <3>3. request'.balanceDue = request.balanceDue /\ UNCHANGED settlements
      BY <2>2 DEF AskToCancel, SelfCancel, ConfirmCompletion, CancelRequest, requestVars,
                  RequestOK
    <3> QED BY <3>2, <3>3 DEF SettleMove, Pays
  <2>3. CASE ReadForCompletion(h) \/ MarkJobCompleted(h)
    <3>1. (\E step \in {"close", "closeAndBill", "bill"} : Goto(h, step)) \/ Stop(h)
      BY <2>3 DEF ReadForCompletion, MarkJobCompleted
    <3>2. \A u \in Procs : Closes(u)
      BY <3>1, ClosesByGoto, ClosesByStop
    <3>3. request'.balanceDue = request.balanceDue /\ UNCHANGED settlements
      BY <2>3 DEF ReadForCompletion, MarkJobCompleted, requestVars, RequestOK
    <3> QED BY <3>2, <3>3 DEF SettleMove, Pays
  <2>4. CASE BillBalance(h)
    <3>1. \/ ~request.balanceDue /\ Goto(h, "finalize")
          \/ \E p : proc' = [proc EXCEPT ![h].pc = "claim", ![h].row = p]
          \/ Stop(h)
      BY <2>4 DEF BillBalance
    <3>2. \A u \in Procs : Closes(u)
      BY <3>1, ClosesByGoto, ClosesByStop, ClosesByTake
    <3> QED BY <1>a, <2>4, <3>2 DEF BillBalance
  <2> QED BY <1>4, <2>1, <2>2, <2>3, <2>4 DEF CompletionStep
<1>5. ASSUME NEW v \in Checkers, VerifyStep(v) PROVE SettleMove
  <2> v \in Procs
    BY DEF Procs
  <2>0. proc[v].pc \in OnARow => proc[v].row \in PaymentIds
    BY DEF Located, Placed
  <2>1. UNCHANGED requestVars
    BY <1>5 DEF VerifyStep, RereadRow, AskPaystack, AskInVain, FailCollection,
                SettleVerified, ResendBalanceLink, BackOffRow, requestVars
  <2>2. CASE SettleVerified(v)
    <3>1. SettleSuccess(v, proc[v].row) /\ proc[v].row \in PaymentIds
      BY <2>0, <2>2 DEF SettleVerified, At, OnARow
    <3> QED BY <1>a, <2>1, <3>1, ClosesBySuccess
  <2>3. CASE AskPaystack(v)
    <3>1. proc[v].row \in PaymentIds
      BY <2>0, <2>3 DEF AskPaystack, At, OnARow
    <3>2. charge[proc[v].row] \in ChargeStatuses
      BY <3>1 DEF Control, PaystackOK
    <3>3. Goto(v, "fail") \/ Goto(v, "wait") \/ Goto(v, "succeed")
      BY <2>3, <3>2 DEF AskPaystack, ChargeStatuses
    <3>4. \A u \in Procs : Closes(u)
      BY <3>3, ClosesByGoto
    <3> QED BY <1>a, <2>1, <3>4
  <2>4. CASE \/ RereadRow(v) \/ AskInVain(v) \/ FailCollection(v)
             \/ ResendBalanceLink(v) \/ BackOffRow(v)
    <3>1. \/ \E b : proc' = [proc EXCEPT ![v].pc = "ask", ![v].noUrl = b]
          \/ Goto(v, "backoff")
          \/ Stop(v)
      BY <2>4 DEF RereadRow, AskInVain, FailCollection, ResendBalanceLink, BackOffRow
    <3>2. \A u \in Procs : Closes(u)
      BY <3>1, ClosesByGoto, ClosesByStop, ClosesByTake
    <3> QED BY <1>a, <2>1, <3>2
  <2> QED BY <1>5, <2>2, <2>3, <2>4 DEF VerifyStep
<1>6. ASSUME NEW v \in Checkers, NEW p \in PaymentIds, PickDueRow(v, p)
      PROVE  SettleMove
  <2>1. v \in Procs /\ UNCHANGED requestVars
    BY <1>6 DEF Procs, PickDueRow
  <2>2. \E step \in {"claim", "verify"} :
           proc' = [proc EXCEPT ![v].pc = step, ![v].row = p]
    BY <1>6 DEF PickDueRow
  <2>3. \A u \in Procs : Closes(u)
    BY <2>1, <2>2, ClosesByTake
  <2> QED BY <1>a, <2>1, <2>3
<1>7. ASSUME NEW k \in Hooks, NEW p \in PaymentIds, DeliverCharge(k, p)
      PROVE  SettleMove
  BY <1>7, <1>a, ClosesBySuccess DEF DeliverCharge, Procs
<1>8. ASSUME NEW p \in PaymentIds,
             LateArrival(p) \/ CustomerPays(p) \/ ChargeFails(p) \/ TimePasses(p)
      PROVE  SettleMove
  <2>1. UNCHANGED proc /\ UNCHANGED requestVars
    BY <1>8 DEF LateArrival, CustomerPays, ChargeFails, TimePasses, requestVars
  <2> QED BY <1>a, <2>1 DEF Closes
<1>9. CASE RemindDeposit \/ ExpireDeposit \/ DeadlinePasses \/ AdminCancel
  <2>1. UNCHANGED proc /\ UNCHANGED settlements
    BY <1>9 DEF RemindDeposit, ExpireDeposit, DeadlinePasses, AdminCancel, requestVars
  <2>2. request'.balanceDue = request.balanceDue
    BY <1>9 DEF RemindDeposit, ExpireDeposit, DeadlinePasses, AdminCancel, CancelRequest,
                requestVars, RequestOK
  <2> QED BY <2>1, <2>2 DEF SettleMove, Pays, Closes
<1> QED BY <1>1, <1>2, <1>3, <1>4, <1>5, <1>6, <1>7, <1>8, <1>9 DEF CollectionNext

LEMMA SettleKept ==
    ASSUME CInv, SettleInv, SettleMove, [Next]_ledgerVars
    PROVE  SettleInv'
<1> SUFFICES ASSUME request'.balanceDue
             PROVE  /\ settlements' <= 1
                    /\ settlements' = 1 => Succeeded("BALANCE")'
                    /\ \A w \in Procs : Settling(w)' =>
                          /\ settlements' = 0 /\ Succeeded("BALANCE")'
                          /\ \A x \in Procs : Settling(x)' => x = w
  BY DEF SettleInv
<1>1. /\ request.balanceDue /\ settlements \in Nat
      /\ Succeeded("BALANCE") => Succeeded("BALANCE")'
  BY SucceededStays DEF SettleMove, CInv, Control, RequestOK
<1>2. /\ settlements <= 1
      /\ settlements = 1 => Succeeded("BALANCE")
      /\ \A w \in Procs : Settling(w) =>
            /\ settlements = 0 /\ Succeeded("BALANCE")
            /\ \A x \in Procs : Settling(x) => x = w
  BY <1>1 DEF SettleInv
<1>3. ASSUME NEW p \in PaymentIds, ClaimTerminal(p, "SUCCEEDED"), payments[p].type # "DEPOSIT"
      PROVE  ~Succeeded("BALANCE") /\ Succeeded("BALANCE")'
  <2>1. payments[p] \in Row /\ Exists(p) /\ StatusOf(p) # "SUCCEEDED"
    BY <1>3 DEF CInv, IInv, TypeOK, ClaimTerminal, Claimable, Exists
  <2>2. payments[p].request = Job /\ payments[p].type = "BALANCE"
    BY <1>3, <2>1 DEF CInv, DepositFirst
  <2>3. /\ payments'[p].status = "SUCCEEDED" /\ payments'[p].request = Job
        /\ payments'[p].type = "BALANCE"
    BY <1>3, <2>1, <2>2 DEF CInv, IInv, ClaimTerminal, TypeOK, Row
  <2>4. ASSUME NEW q \in RowsOf(Job, "BALANCE"), StatusOf(q) = "SUCCEEDED" PROVE FALSE
    BY <1>3, <2>1, <2>2, <2>4 DEF RowsOf, ClaimTerminal, SucceededIndexAllows, SameSlot
  <2> QED BY <2>3, <2>4 DEF Succeeded, RowsOf, Exists, StatusOf
<1>4. ASSUME NEW w \in Procs, Settling(w)'
      PROVE  \/ Settling(w)
             \/ /\ ~Succeeded("BALANCE") /\ Succeeded("BALANCE")'
                /\ \A x \in Procs \ {w} : proc'[x] = proc[x]
  <2>1. Closes(w) /\ proc'[w].pc \in {"finalize", "payOperator"}
    BY <1>4 DEF SettleMove, Settling
  <2> QED BY <1>1, <1>3, <2>1 DEF Closes, Settling
<1>5. ASSUME NEW w \in Procs, Settling(w)', NEW x \in Procs, Settling(x)'
      PROVE  x = w
  <2>1. CASE Settling(w) /\ Settling(x)
    BY <1>2, <2>1
  <2>2. CASE ~Settling(w)
    BY <1>2, <1>4, <1>5, <2>2 DEF Settling
  <2>3. CASE ~Settling(x)
    BY <1>2, <1>4, <1>5, <2>3 DEF Settling
  <2> QED BY <2>1, <2>2, <2>3
<1>6. CASE UNCHANGED settlements
  <2>1. ASSUME NEW w \in Procs, Settling(w)' PROVE settlements = 0 /\ Succeeded("BALANCE")'
    BY <1>1, <1>2, <1>4, <2>1
  <2> QED BY <1>1, <1>2, <1>5, <1>6, <2>1
<1>7. ASSUME NEW w \in Procs, proc[w].pc = "payOperator", proc'[w].pc = "idle",
             settlements' \in {settlements, settlements + 1}
      PROVE  /\ settlements' <= 1 /\ Succeeded("BALANCE")'
             /\ \A x \in Procs : ~Settling(x)'
  <2>1. Settling(w) /\ settlements = 0 /\ Succeeded("BALANCE")
    BY <1>2, <1>7 DEF Settling
  <2>2. ASSUME NEW x \in Procs, Settling(x)' PROVE FALSE
    BY <1>2, <1>4, <1>7, <2>1, <2>2 DEF Settling
  <2> QED BY <1>1, <1>7, <2>1, <2>2
<1> QED BY <1>5, <1>6, <1>7 DEF SettleMove, Pays

(* The job whose customer owes a balance is settled once, and only once    *)
(* the balance is paid, however many deliveries, verifications and         *)
(* duplicate rows report a success and whatever dies in between.           *)
THEOREM SettledOnlyOnce == CollectionSpec => []SettledOnce
<1>1. CollectionInit => SettleInv
  BY DEF CollectionInit, Idle, SettleInv, Settling
<1>2. CInv /\ SettleInv /\ [CollectionNext]_collectionVars => SettleInv'
  <2>1. CASE UNCHANGED collectionVars
    BY <2>1 DEF collectionVars, SettleInv, Settling, Succeeded, RowsOf, Exists, StatusOf
  <2>2. CASE CInv /\ SettleInv /\ CollectionNext
    BY <2>2, StepLedger, StepSettles, SettleKept DEF CInv
  <2> QED BY <2>1, <2>2
<1>3. SettleInv => SettledOnce
  BY DEF SettleInv, SettledOnce
<1> QED BY <1>1, <1>2, <1>3, CInvariant, PTL DEF CollectionSpec

-----------------------------------------------------------------------------
(* What a step may do to a row, to its charge and to its link ...          *)
RowTurn(p) ==
    \/ payments'[p] = payments[p]
    \/ ~Exists(p) /\ ~payments'[p].checkoutUrl
    \/ /\ StatusOf(p) = "PENDING" /\ payments'[p].status = "SUBMITTED"
       /\ ~payments'[p].verifyDue
       /\ payments'[p].checkoutUrl = payments[p].checkoutUrl
    \/ /\ payments'[p].status = payments[p].status
       /\ payments'[p].checkoutUrl = payments[p].checkoutUrl
       /\ ~payments'[p].verifyDue \/ Unposted(p)'
    \/ /\ payments'[p].status \in Won /\ charge[p] = "paid"
       /\ payments'[p].checkoutUrl = payments[p].checkoutUrl
    \/ /\ payments'[p].status = "FAILED" /\ Unposted(p)'
       /\ payments'[p].checkoutUrl = payments[p].checkoutUrl
       /\ charge[p] = "failed" \/ ~payments[p].checkoutUrl
    \/ /\ StatusOf(p) = "SUBMITTED" /\ payments'[p].status = "SUBMITTED"
       /\ charge[p] # "none" /\ ~Unposted(p) /\ Unposted(p)'

ChargeTurn(p) ==
    /\ \/ charge'[p] = charge[p]
       \/ charge[p] = "none" /\ charge'[p] = "open"
       \/ charge[p] = "open" /\ p \in links /\ charge'[p] \in {"paid", "failed"}
    /\ p \in links' => p \in links \/ payments[p].checkoutUrl
    /\ request'.url = p => request.url = p \/ payments[p].checkoutUrl

(* ... and where a process may come to stand.                              *)
Watched == {"post", "apply", "stored", "send", "wait", "verify", "ask", "fail"}

From(w, step, p) == proc[w].pc = step /\ proc[w].row = p /\ payments'[p] = payments[p]

TurnsTo(w, p) ==
    \/ /\ proc'[w].pc = "post" /\ StatusOf(p) = "PENDING"
       /\ payments'[p].status = "SUBMITTED" /\ ~payments'[p].verifyDue
       /\ \A x \in Procs \ {w} : proc'[x] = proc[x]
    \/ /\ proc'[w].pc = "apply" /\ From(w, "post", p)
       /\ proc'[w].answer = "ok" => charge'[p] # "none"
    \/ proc'[w].pc \in {"stored", "send", "wait"} /\ payments'[p].checkoutUrl
    \/ /\ proc'[w].pc = "verify" /\ StatusOf(p) = "SUBMITTED"
       /\ payments[p].verifyDue
    \/ /\ proc'[w].pc = "ask" /\ From(w, "verify", p)
       /\ proc'[w].noUrl <=> ~payments[p].checkoutUrl
    \/ /\ proc'[w].pc = "fail" /\ From(w, "ask", p)
       /\ charge[p] = "failed" \/ ~payments[p].checkoutUrl

Turn(w) ==
    \/ proc'[w] = proc[w]
    \/ proc'[w].pc \notin Watched
    \/ \A p \in PaymentIds : proc'[w].row = p => TurnsTo(w, p)

LinkMove ==
    /\ \A p \in PaymentIds : RowTurn(p) /\ ChargeTurn(p)
    /\ \A w \in Procs : Turn(w)

LEMMA LinkKept ==
    ASSUME CInv, LinkInv, LinkMove, [Next]_ledgerVars
    PROVE  LinkInv'
<1>1. ASSUME NEW p \in PaymentIds
      PROVE  /\ Past(p) => Past(p)'
             /\ Linked(p) /\ RowTurn(p) /\ ChargeTurn(p)
             /\ payments[p].checkoutUrl => payments'[p].checkoutUrl
             /\ charge[p] # "none" => charge'[p] # "none"
             /\ charge[p] = "failed" => charge'[p] = "failed"
  <2>1. Past(p) => Past(p)'
    BY LedgerKeeps DEF CInv
  <2>2. Linked(p) /\ RowTurn(p) /\ ChargeTurn(p)
    BY DEF LinkInv, LinkMove
  <2>3. charge[p] # "none" => charge'[p] # "none"
    BY <2>2 DEF ChargeTurn
  <2>4. charge[p] = "failed" => charge'[p] = "failed"
    BY <2>2 DEF ChargeTurn
  <2>5. ASSUME payments[p].checkoutUrl PROVE payments'[p].checkoutUrl
    <3>1. Past(p) /\ Exists(p)
      BY <2>2, <2>5 DEF Linked, Past, Exists
    <3>2. ASSUME ~Unposted(p), StatusOf(p) = "SUBMITTED" PROVE FALSE
      <4>1. PICK x \in Procs : Posting(x, p)
        BY <3>2 DEF Unposted
      <4> QED BY <2>5, <4>1 DEF LinkInv, Opened
    <3> QED BY <2>2, <2>5, <3>1, <3>2 DEF RowTurn
  <2> QED BY <2>1, <2>2, <2>3, <2>4, <2>5
<1>2. ASSUME NEW w \in Procs, NEW p \in PaymentIds, Posting(w, p)'
      PROVE  \/ Posting(w, p)
             \/ /\ StatusOf(p) = "PENDING" /\ proc'[w].pc = "post"
                /\ payments'[p].status = "SUBMITTED" /\ ~payments'[p].verifyDue
                /\ \A x \in Procs \ {w} : proc'[x] = proc[x]
  <2>1. Turn(w) /\ proc'[w].row = p /\ proc'[w].pc \in {"post", "apply"}
    BY <1>2 DEF LinkMove, Posting
  <2>2. CASE proc'[w] = proc[w]
    BY <2>1, <2>2 DEF Posting
  <2>3. CASE TurnsTo(w, p)
    BY <2>1, <2>3 DEF TurnsTo, From, Posting
  <2> QED BY <2>1, <2>2, <2>3 DEF Turn, Watched
<1>3. ASSUME NEW p \in PaymentIds, Past(p), Unposted(p)
      PROVE  Unposted(p)'
  BY <1>2, <1>3 DEF Unposted, Past
<1>4. ASSUME NEW w \in Procs, NEW p \in PaymentIds, Posting(w, p)'
      PROVE  Opened(w, p)'
  <2>1. /\ Linked(p) /\ RowTurn(p)
        /\ Opened(w, p) /\ ~Unposted(p)'
    BY <1>1, <1>4 DEF LinkInv, Unposted
  <2>2. CASE Posting(w, p)
    <3>1. /\ StatusOf(p) = "SUBMITTED" /\ ~payments[p].verifyDue /\ ~payments[p].checkoutUrl
          /\ proc[w].pc = "apply" /\ proc[w].answer = "ok" => charge[p] # "none"
          /\ \A x \in Procs : Posting(x, p) => x = w
      BY <2>1, <2>2 DEF Opened
    <3>2. charge[p] # "paid" /\ Exists(p)
      BY <2>1, <3>1 DEF Linked, Exists
    <3>3. /\ payments'[p].status = "SUBMITTED" /\ ~payments'[p].verifyDue
          /\ ~payments'[p].checkoutUrl
      BY <2>1, <3>1, <3>2 DEF RowTurn, StatusOf
    <3>4. ASSUME NEW x \in Procs, Posting(x, p)' PROVE x = w
      BY <1>2, <3>1, <3>4
    <3>5. ASSUME proc'[w].pc = "apply", proc'[w].answer = "ok" PROVE charge'[p] # "none"
      <4>1. Turn(w) /\ proc'[w].row = p
        BY <1>4 DEF LinkMove, Posting
      <4>2. CASE proc'[w] = proc[w]
        BY <1>1, <3>1, <3>5, <4>2
      <4>3. CASE TurnsTo(w, p)
        BY <3>5, <4>3 DEF TurnsTo
      <4> QED BY <3>5, <4>1, <4>2, <4>3 DEF Turn, Watched
    <3> QED BY <3>3, <3>4, <3>5 DEF Opened, StatusOf
  <2>3. CASE ~Posting(w, p)
    <3>1. /\ StatusOf(p) = "PENDING" /\ proc'[w].pc = "post"
          /\ payments'[p].status = "SUBMITTED" /\ ~payments'[p].verifyDue
          /\ \A x \in Procs \ {w} : proc'[x] = proc[x]
      BY <1>2, <1>4, <2>3
    <3>2. ~payments[p].checkoutUrl /\ Exists(p)
      BY <2>1, <3>1 DEF Linked, Past, Exists
    <3>3. ~payments'[p].checkoutUrl
      BY <2>1, <3>1, <3>2 DEF RowTurn, StatusOf, Won
    <3>4. ASSUME NEW x \in Procs \ {w}, Posting(x, p)' PROVE FALSE
      <4>1. Posting(x, p)
        BY <3>1, <3>4 DEF Posting
      <4> QED BY <3>1, <4>1 DEF LinkInv, Opened
    <3> QED BY <3>1, <3>3, <3>4 DEF Opened, StatusOf
  <2> QED BY <2>2, <2>3
<1>5. ASSUME NEW w \in Procs, NEW p \in PaymentIds, proc'[w].row = p
      PROVE  Verified(w, p)'
  <2>1. Turn(w) /\ Verified(w, p) /\ RowTurn(p) /\ Linked(p)
    BY <1>1 DEF LinkMove, LinkInv
  <2>2. ASSUME Past(p), Unposted(p)
        PROVE  payments'[p].checkoutUrl = payments[p].checkoutUrl
    BY <2>1, <2>2 DEF RowTurn, Past, Exists
  <2>3. ASSUME proc'[w].pc \in {"stored", "send", "wait"} PROVE payments'[p].checkoutUrl
    BY <1>1, <1>5, <2>1, <2>3 DEF Turn, TurnsTo, Watched, Verified
  <2>4. ASSUME proc'[w].pc \in {"verify", "ask", "fail"} PROVE Past(p) /\ Unposted(p)
    <3>1. CASE proc'[w] = proc[w]
      BY <1>5, <2>1, <2>4, <3>1 DEF Verified
    <3>2. CASE TurnsTo(w, p)
      <4>1. CASE StatusOf(p) = "SUBMITTED" /\ payments[p].verifyDue
        BY <4>1 DEF LinkInv, Opened, Unposted, Past
      <4>2. CASE proc[w].pc \in {"verify", "ask"} /\ proc[w].row = p
        BY <2>1, <4>2 DEF Verified
      <4> QED BY <2>4, <3>2, <4>1, <4>2 DEF TurnsTo, From
    <3> QED BY <1>5, <2>1, <2>4, <3>1, <3>2 DEF Turn, Watched
  <2>5. ASSUME proc'[w].pc = "ask" PROVE proc'[w].noUrl <=> ~payments'[p].checkoutUrl
    <3>1. CASE proc'[w] = proc[w]
      BY <1>5, <2>1, <2>2, <2>4, <2>5, <3>1 DEF Verified
    <3>2. CASE TurnsTo(w, p)
      BY <2>5, <3>2 DEF TurnsTo, From
    <3> QED BY <1>5, <2>1, <2>5, <3>1, <3>2 DEF Turn, Watched
  <2>6. ASSUME proc'[w].pc = "fail" PROVE charge'[p] = "failed" \/ ~payments'[p].checkoutUrl
    <3>1. charge[p] = "failed" \/ ~payments[p].checkoutUrl
      BY <1>5, <2>1, <2>6 DEF Turn, TurnsTo, Watched, Verified
    <3> QED BY <1>1, <2>2, <2>4, <2>6, <3>1
  <2>7. ASSUME proc'[w].pc \in {"verify", "ask", "fail"} PROVE Past(p)' /\ Unposted(p)'
    BY <1>1, <1>3, <2>4, <2>7
  <2> QED BY <2>3, <2>5, <2>6, <2>7 DEF Verified
<1>6. ASSUME NEW p \in PaymentIds PROVE Linked(p)'
  <2>1. Linked(p) /\ RowTurn(p) /\ ChargeTurn(p)
    BY <1>1
  <2>2. ASSUME p \in links' \/ request'.url = p \/ charge'[p] \in {"paid", "failed"}
        PROVE  payments'[p].checkoutUrl
    <3>1. payments[p].checkoutUrl
      BY <2>1, <2>2 DEF ChargeTurn, Linked
    <3> QED BY <1>1, <3>1
  <2>3. ASSUME payments'[p].checkoutUrl
        PROVE  /\ Past(p)' /\ charge'[p] # "none"
               /\ charge'[p] = "failed" \/ payments'[p].status \in {"SUBMITTED"} \cup Won
    <3>1. CASE payments[p].checkoutUrl
      <4>1. /\ Past(p) /\ charge[p] # "none"
            /\ charge[p] = "failed" \/ StatusOf(p) \in {"SUBMITTED"} \cup Won
        BY <2>1, <3>1 DEF Linked
      <4> QED BY <1>1, <2>1, <3>1, <4>1 DEF RowTurn, Past, Exists, StatusOf
    <3>2. CASE ~payments[p].checkoutUrl
      <4>1. /\ StatusOf(p) = "SUBMITTED" /\ payments'[p].status = "SUBMITTED"
            /\ charge[p] # "none"
        BY <2>1, <2>3, <3>2 DEF RowTurn
      <4> QED BY <1>1, <4>1 DEF Past, StatusOf
    <3> QED BY <3>1, <3>2
  <2> QED BY <2>2, <2>3 DEF Linked, StatusOf
<1>7. \A w \in Procs, p \in PaymentIds : Opened(w, p)' /\ Verified(w, p)'
  <2> SUFFICES ASSUME NEW w \in Procs, NEW p \in PaymentIds
               PROVE  Opened(w, p)' /\ Verified(w, p)'
    OBVIOUS
  <2>1. ~Posting(w, p)' => Opened(w, p)'
    BY DEF Opened
  <2>2. proc'[w].row # p => Verified(w, p)'
    BY DEF Verified
  <2> QED BY <1>4, <1>5, <2>1, <2>2
<1> QED BY <1>6, <1>7 DEF LinkInv

-----------------------------------------------------------------------------
(* The steps are such moves.                                               *)
LEMMA RowsRest == UNCHANGED payments => \A p \in PaymentIds : RowTurn(p)
  BY DEF RowTurn

LEMMA ChargesRest ==
    UNCHANGED <<charge, links>> /\ request'.url = request.url
       => \A p \in PaymentIds : ChargeTurn(p)
  BY DEF ChargeTurn

LEMMA OneTurns ==
    ASSUME NEW w \in Procs, \A x \in Procs \ {w} : proc'[x] = proc[x], Turn(w)
    PROVE  \A x \in Procs : Turn(x)
  BY DEF Turn

LEMMA GotoMoves ==
    ASSUME Located, NEW w \in Procs, NEW step, Goto(w, step)
    PROVE  /\ proc'[w].pc = step /\ proc'[w].row = proc[w].row
           /\ proc'[w].answer = proc[w].answer /\ proc'[w].noUrl = proc[w].noUrl
           /\ \A x \in Procs \ {w} : proc'[x] = proc[x]
<1>1. proc[w] \in Process /\ proc \in [Procs -> Process]
  BY DEF Located
<1> QED BY <1>1 DEF Goto, Process

LEMMA GotoTurns ==
    ASSUME Located, NEW w \in Procs, NEW step, step \notin Watched, Goto(w, step)
    PROVE  \A x \in Procs : Turn(x)
  BY GotoMoves, OneTurns DEF Turn

LEMMA StopMoves ==
    ASSUME Located, NEW w \in Procs, Stop(w)
    PROVE  /\ proc'[w].pc = "idle" /\ \A x \in Procs \ {w} : proc'[x] = proc[x]
           /\ \A x \in Procs : Turn(x)
  BY DEF Located, Stop, Idle, Turn, Watched

LEMMA TakeMoves ==
    ASSUME Located, NEW w \in Procs, NEW step, NEW p,
           proc' = [proc EXCEPT ![w].pc = step, ![w].row = p]
    PROVE  /\ proc'[w].pc = step /\ proc'[w].row = p
           /\ \A x \in Procs \ {w} : proc'[x] = proc[x]
           /\ step \notin Watched => \A x \in Procs : Turn(x)
<1>1. proc[w] \in Process /\ proc \in [Procs -> Process]
  BY DEF Located
<1>2. /\ proc'[w].pc = step /\ proc'[w].row = p
      /\ \A x \in Procs \ {w} : proc'[x] = proc[x]
  BY <1>1 DEF Process
<1> QED BY <1>2, OneTurns DEF Turn

(* Statements on a row: all others rest.                                   *)
LEMMA RowAlone ==
    ASSUME NEW p \in PaymentIds, \A q \in PaymentIds \ {p} : payments'[q] = payments[q],
           RowTurn(p)
    PROVE  \A q \in PaymentIds : RowTurn(q)
  BY DEF RowTurn

LEMMA CreateTurns ==
    ASSUME TypeOK, NEW p \in PaymentIds, NEW t, Create(p, Job, t)
    PROVE  \A q \in PaymentIds : RowTurn(q)
<1>1. ~Exists(p) /\ ~payments'[p].checkoutUrl
      /\ \A q \in PaymentIds \ {p} : payments'[q] = payments[q]
  BY DEF Create, NewRow, TypeOK
<1> QED BY <1>1, RowAlone DEF RowTurn

LEMMA SuccessTurns ==
    ASSUME TypeOK, Located, NEW w \in Procs, NEW p \in PaymentIds, SettleSuccess(w, p),
           charge[p] = "paid"
    PROVE  (\A q \in PaymentIds : RowTurn(q)) /\ \A x \in Procs : Turn(x)
<1>1. payments[p] \in Row
  BY DEF TypeOK
<1>2. \A q \in PaymentIds : RowTurn(q)
  <2>1. CASE ClaimTerminal(p, "SUCCEEDED") \/ RecordDuplicateSuccess(p)
    <3>1. /\ payments'[p].status \in Won
          /\ payments'[p].checkoutUrl = payments[p].checkoutUrl
          /\ \A q \in PaymentIds \ {p} : payments'[q] = payments[q]
      BY <1>1, <2>1 DEF ClaimTerminal, RecordDuplicateSuccess, TypeOK, Row, Won
    <3> QED BY <3>1, RowAlone DEF RowTurn
  <2> QED BY <2>1, RowsRest DEF SettleSuccess
<1>3. \A x \in Procs : Turn(x)
  <2>1. CASE proc' = [proc EXCEPT ![w] = [Idle EXCEPT !.pc = Confirming(p), !.row = p]]
    <3>1. /\ proc'[w].pc = Confirming(p)
          /\ \A x \in Procs \ {w} : proc'[x] = proc[x]
      BY <2>1 DEF Located, Idle
    <3>2. Confirming(p) \notin Watched
      BY DEF Confirming, Watched
    <3> QED BY <3>1, <3>2, OneTurns DEF Turn
  <2> QED BY <2>1, StopMoves DEF SettleSuccess
<1> QED BY <1>2, <1>3

LEMMA DueTurns ==
    ASSUME TypeOK, NEW p \in PaymentIds,
           \/ BackOff(p)
           \/ VerifyAfterPasses(p) /\ Unposted(p)'
    PROVE  \A q \in PaymentIds : RowTurn(q)
<1>1. payments[p] \in Row
  BY DEF TypeOK
<1>2. /\ payments'[p].status = payments[p].status
      /\ payments'[p].checkoutUrl = payments[p].checkoutUrl
      /\ ~payments'[p].verifyDue \/ Unposted(p)'
      /\ \A q \in PaymentIds \ {p} : payments'[q] = payments[q]
  BY <1>1 DEF BackOff, VerifyAfterPasses, TypeOK, Row
<1> QED BY <1>2, RowAlone DEF RowTurn

(* A step that leaves rows and charges alone and stops, or goes where      *)
(* nothing depends on the row.                                             *)
Rests == UNCHANGED <<payments, charge, links>> /\ request'.url = request.url

LEMMA RestMove == Rests /\ (\A x \in Procs : Turn(x)) => LinkMove
  BY RowsRest, ChargesRest DEF Rests, LinkMove

LEMMA HeldRow ==
    ASSUME CInv, LinkInv, NEW w \in Procs, proc[w].pc \in OnARow
    PROVE  /\ proc[w].row \in PaymentIds /\ Linked(proc[w].row)
           /\ Opened(w, proc[w].row) /\ Verified(w, proc[w].row)
<1>1. proc[w].row \in PaymentIds
  BY DEF CInv, Control, Located, Placed
<1> QED BY <1>1 DEF LinkInv

(* From the claim to the link.                                             *)
LEMMA ClaimLinks ==
    ASSUME CInv, LinkInv, NEW w \in Procs, Claim(w)
    PROVE  LinkMove
<1> DEFINE p == proc[w].row
<1>1. Located /\ TypeOK /\ p \in PaymentIds
  BY HeldRow DEF CInv, Control, IInv, Claim, At, OnARow
<1>2. UNCHANGED <<charge, links, request>>
  BY DEF Claim, requestVars, paystackVars
<1>3. CASE Stop(w) /\ UNCHANGED payments
  BY <1>1, <1>2, <1>3, StopMoves, RestMove DEF Rests
<1>4. CASE ClaimForSubmission(p) /\ Goto(w, "post")
  <2>1. payments[p] \in Row
    BY <1>1 DEF TypeOK
  <2>2. /\ StatusOf(p) = "PENDING" /\ payments'[p].status = "SUBMITTED"
        /\ ~payments'[p].verifyDue /\ payments'[p].checkoutUrl = payments[p].checkoutUrl
        /\ \A q \in PaymentIds \ {p} : payments'[q] = payments[q]
    BY <1>1, <1>4, <2>1 DEF ClaimForSubmission, TypeOK, Row
  <2>3. /\ proc'[w].pc = "post" /\ proc'[w].row = p
        /\ \A x \in Procs \ {w} : proc'[x] = proc[x]
    BY <1>1, <1>4, GotoMoves
  <2> HIDE DEF p
  <2>4. Turn(w)
    BY <2>2, <2>3 DEF Turn, TurnsTo
  <2>5. \A q \in PaymentIds : RowTurn(q)
    BY <1>1, <2>2, RowAlone DEF RowTurn
  <2> QED BY <1>2, <2>3, <2>4, <2>5, OneTurns, ChargesRest DEF LinkMove
<1> QED BY <1>3, <1>4 DEF Claim

LEMMA PostLinks ==
    ASSUME CInv, LinkInv, NEW w \in Procs, PostInitialize(w)
    PROVE  LinkMove
<1> DEFINE p == proc[w].row
<1>1. /\ Located /\ p \in PaymentIds /\ proc[w] \in Process /\ proc \in [Procs -> Process]
      /\ charge \in [PaymentIds -> ChargeStatuses] /\ proc[w].pc = "post"
  BY HeldRow DEF CInv, Control, Located, PaystackOK, PostInitialize, At, OnARow
<1>2. UNCHANGED <<links, request, payments>>
  BY DEF PostInitialize, requestVars
<1>3. /\ \A q \in PaymentIds : charge'[q] = charge[q] \/ (charge[q] = "none" /\ charge'[q] = "open")
      /\ \E a : /\ proc' = [proc EXCEPT ![w].pc = "apply", ![w].answer = a]
                /\ a = "ok" => charge'[p] = "open"
  BY <1>1 DEF PostInitialize
<1>4. PICK a : /\ proc' = [proc EXCEPT ![w].pc = "apply", ![w].answer = a]
               /\ a = "ok" => charge'[p] = "open"
  BY <1>3
<1>5. /\ proc'[w].pc = "apply" /\ proc'[w].row = p /\ proc'[w].answer = a
      /\ \A x \in Procs \ {w} : proc'[x] = proc[x]
  BY <1>1, <1>4 DEF Process
<1> HIDE DEF p
<1>6. proc[w].row = p
  BY DEF p
<1>7. Turn(w)
  BY <1>1, <1>2, <1>4, <1>5, <1>6 DEF Turn, TurnsTo, From
<1>8. \A q \in PaymentIds : ChargeTurn(q)
  BY <1>2, <1>3 DEF ChargeTurn
<1> QED BY <1>2, <1>5, <1>7, <1>8, RowsRest, OneTurns DEF LinkMove

LEMMA ApplyLinks ==
    ASSUME CInv, LinkInv, NEW w \in Procs, ApplyInitialize(w),
           NEW p \in PaymentIds, p = proc[w].row
    PROVE  LinkMove
<1>1. Located /\ TypeOK /\ payments[p] \in Row /\ Opened(w, p) /\ Posting(w, p)
  BY DEF CInv, Control, IInv, LinkInv, ApplyInitialize, At, Posting, TypeOK
<1>2. UNCHANGED <<charge, links, request>>
  BY DEF ApplyInitialize, requestVars, paystackVars
<1>3. /\ StatusOf(p) = "SUBMITTED" /\ ~payments[p].checkoutUrl /\ ~Unposted(p)
      /\ proc[w].answer = "ok" => charge[p] # "none"
      /\ \A x \in Procs : Posting(x, p) => x = w
  BY <1>1 DEF Opened, Unposted, ApplyInitialize, At
<1>4. ASSUME proc'[w].pc \notin {"post", "apply"}, \A x \in Procs \ {w} : proc'[x] = proc[x]
      PROVE  Unposted(p)'
  <2> SUFFICES ASSUME NEW x \in Procs, Posting(x, p)'
               PROVE  FALSE
    BY DEF Unposted
  <2> QED BY <1>3, <1>4 DEF Posting
<1>5. CASE Stop(w) /\ UNCHANGED payments
  BY <1>1, <1>2, <1>5, StopMoves, RestMove DEF Rests
<1>6. CASE RecordRejection(p, NoReason) /\ Stop(w)
  <2>1. Unposted(p)'
    BY <1>1, <1>4, <1>6, StopMoves
  <2>2. /\ payments'[p].status = "FAILED" /\ payments'[p].checkoutUrl = payments[p].checkoutUrl
        /\ \A q \in PaymentIds \ {p} : payments'[q] = payments[q]
    BY <1>1, <1>6 DEF RecordRejection, TypeOK, Row
  <2>3. RowTurn(p)
    BY <1>3, <2>1, <2>2 DEF RowTurn
  <2> QED BY <1>1, <1>2, <1>6, <2>2, <2>3, StopMoves, RowAlone, ChargesRest DEF LinkMove
<1>7. CASE proc[w].answer = "ok" /\ StoreCheckoutUrl(p) /\ Goto(w, "stored")
  <2>1. /\ proc'[w].pc = "stored" /\ proc'[w].row = p
        /\ \A x \in Procs \ {w} : proc'[x] = proc[x]
    BY <1>1, <1>7, GotoMoves
  <2>2. Unposted(p)'
    BY <1>4, <2>1
  <2>3. /\ payments'[p].status = "SUBMITTED" /\ payments'[p].checkoutUrl
        /\ \A q \in PaymentIds \ {p} : payments'[q] = payments[q]
    BY <1>1, <1>3, <1>7 DEF StoreCheckoutUrl, TypeOK, Row, StatusOf
  <2>4. RowTurn(p)
    BY <1>3, <1>7, <2>2, <2>3 DEF RowTurn
  <2>5. Turn(w)
    BY <2>1, <2>3 DEF Turn, TurnsTo
  <2> QED BY <1>1, <1>2, <2>1, <2>3, <2>4, <2>5, OneTurns, RowAlone, ChargesRest DEF LinkMove
<1> QED BY <1>5, <1>6, <1>7 DEF ApplyInitialize

LEMMA SendLinks ==
    ASSUME CInv, LinkInv, NEW w \in Procs, KeepDepositUrl(w) \/ SendLink(w)
    PROVE  LinkMove
<1> DEFINE p == proc[w].row
<1>1. /\ Located /\ RequestOK /\ p \in PaymentIds
      /\ proc[w].pc \in {"stored", "send"} /\ payments[p].checkoutUrl
  BY HeldRow DEF CInv, Control, KeepDepositUrl, SendLink, At, OnARow, Verified
<1>2. UNCHANGED <<payments, charge>>
  BY DEF KeepDepositUrl, SendLink, paystackVars
<1>3. CASE KeepDepositUrl(w)
  <2>1. UNCHANGED links /\ (request'.url = request.url \/ request'.url = p)
    BY <1>1, <1>3 DEF KeepDepositUrl, paystackVars, RequestOK
  <2>2. \A q \in PaymentIds : ChargeTurn(q)
    BY <1>1, <1>2, <2>1 DEF ChargeTurn
  <2>3. /\ proc'[w].pc = "send" /\ proc'[w].row = p
        /\ \A x \in Procs \ {w} : proc'[x] = proc[x]
    BY <1>1, <1>3, GotoMoves DEF KeepDepositUrl
  <2>4. Turn(w)
    BY <1>1, <1>2, <2>3 DEF Turn, TurnsTo
  <2> QED BY <1>2, <2>2, <2>3, <2>4, OneTurns, RowsRest DEF LinkMove
<1>4. CASE SendLink(w)
  <2>1. links' \in {links, links \cup {p}} /\ UNCHANGED request
    BY <1>4 DEF SendLink, requestVars
  <2>2. \A q \in PaymentIds : ChargeTurn(q)
    BY <1>1, <1>2, <2>1 DEF ChargeTurn
  <2> QED BY <1>1, <1>2, <1>4, <2>2, StopMoves, RowsRest DEF SendLink, LinkMove
<1> QED BY <1>3, <1>4

(* A pass of the reconciler over a row.                                    *)
LEMMA RereadLinks ==
    ASSUME CInv, LinkInv, NEW v \in Procs, RereadRow(v)
    PROVE  LinkMove
<1> DEFINE p == proc[v].row
<1>1. Located /\ proc[v] \in Process /\ proc \in [Procs -> Process] /\ proc[v].pc = "verify"
  BY DEF CInv, Control, Located, RereadRow, At
<1>2. Rests /\ UNCHANGED payments
  BY DEF RereadRow, requestVars, paystackVars, Rests
<1>3. CASE Stop(v)
  BY <1>1, <1>2, <1>3, StopMoves, RestMove
<1>4. CASE proc' = [proc EXCEPT ![v].pc = "ask", ![v].noUrl = ~payments[p].checkoutUrl]
  <2>1. /\ proc'[v].pc = "ask" /\ proc'[v].row = p
        /\ proc'[v].noUrl <=> ~payments[p].checkoutUrl
        /\ \A x \in Procs \ {v} : proc'[x] = proc[x]
    BY <1>1, <1>4 DEF Process
  <2> HIDE DEF p
  <2>2. proc[v].row = p
    BY DEF p
  <2>3. Turn(v)
    BY <1>1, <1>2, <2>1, <2>2 DEF Turn, TurnsTo, From
  <2> QED BY <1>2, <2>1, <2>3, OneTurns, RestMove
<1> QED BY <1>3, <1>4 DEF RereadRow

LEMMA AskLinks ==
    ASSUME CInv, LinkInv, NEW v \in Procs, AskPaystack(v)
    PROVE  LinkMove
<1> DEFINE p == proc[v].row
<1>1. /\ Located /\ proc[v].pc = "ask" /\ p \in PaymentIds
      /\ charge \in [PaymentIds -> ChargeStatuses]
      /\ Linked(p) /\ (proc[v].noUrl <=> ~payments[p].checkoutUrl)
  BY HeldRow DEF CInv, Control, PaystackOK, AskPaystack, At, OnARow, Verified
<1>2. Rests /\ UNCHANGED payments
  BY DEF AskPaystack, requestVars, paystackVars, Rests
<1>3. PICK step \in {"fail", "succeed", "wait"} :
          /\ Goto(v, step)
          /\ step = "fail" => charge[p] \in {"none", "failed"} \/ proc[v].noUrl
          /\ step = "wait" => ~proc[v].noUrl
  BY <1>1 DEF AskPaystack, ChargeStatuses
<1>4. /\ step = "fail" => charge[p] = "failed" \/ ~payments[p].checkoutUrl
      /\ step = "wait" => payments[p].checkoutUrl
  BY <1>1, <1>3 DEF Linked
<1>5. /\ proc'[v].pc = step /\ proc'[v].row = p
      /\ \A x \in Procs \ {v} : proc'[x] = proc[x]
  BY <1>1, <1>3, GotoMoves
<1>6. proc[v].row = p
  OBVIOUS
<1> HIDE DEF p
<1>7. Turn(v)
  <2>1. CASE step = "succeed"
    BY <1>5, <2>1 DEF Turn, Watched
  <2>2. CASE step \in {"fail", "wait"}
    BY <1>1, <1>2, <1>4, <1>5, <1>6, <2>2 DEF Turn, TurnsTo, From
  <2> QED BY <2>1, <2>2
<1> QED BY <1>2, <1>5, <1>7, OneTurns, RestMove

LEMMA FailLinks ==
    ASSUME CInv, LinkInv, NEW v \in Procs, FailCollection(v),
           NEW p \in PaymentIds, p = proc[v].row
    PROVE  LinkMove
<1>1. /\ Located /\ TypeOK /\ payments[p] \in Row /\ Unposted(p)
      /\ charge[p] = "failed" \/ ~payments[p].checkoutUrl
  BY DEF CInv, Control, IInv, LinkInv, Verified, FailCollection, At, TypeOK
<1>2. UNCHANGED <<charge, links, request>> /\ Stop(v)
  BY DEF FailCollection, requestVars, paystackVars
<1>3. /\ proc'[v].pc = "idle"
      /\ \A x \in Procs \ {v} : proc'[x] = proc[x]
      /\ \A x \in Procs : Turn(x)
  BY <1>1, <1>2, StopMoves
<1>4. Unposted(p)'
  BY <1>1, <1>3 DEF Unposted, Posting
<1>5. CASE UNCHANGED payments
  BY <1>2, <1>3, <1>5, RestMove DEF Rests
<1>6. CASE ClaimTerminal(p, "FAILED")
  <2>1. /\ payments'[p].status = "FAILED" /\ payments'[p].checkoutUrl = payments[p].checkoutUrl
        /\ \A q \in PaymentIds \ {p} : payments'[q] = payments[q]
    BY <1>1, <1>6 DEF ClaimTerminal, TypeOK, Row
  <2>2. RowTurn(p)
    BY <1>1, <1>4, <2>1 DEF RowTurn
  <2> QED BY <1>2, <1>3, <2>1, <2>2, RowAlone, ChargesRest DEF LinkMove
<1> QED BY <1>5, <1>6 DEF FailCollection

LEMMA VerifyLinks ==
    ASSUME CInv, LinkInv, NEW v \in Procs, VerifyStep(v)
    PROVE  LinkMove
<1>1. Located /\ TypeOK
  BY DEF CInv, Control, IInv
<1>2. CASE FailCollection(v)
  <2>1. proc[v].row \in PaymentIds
    BY <1>2, HeldRow DEF FailCollection, At, OnARow
  <2> QED BY <1>2, <2>1, FailLinks
<1>3. CASE SettleVerified(v)
  <2>1. proc[v].row \in PaymentIds /\ charge[proc[v].row] = "paid"
    BY <1>3, HeldRow DEF SettleVerified, At, OnARow, CInv, Witnessed
  <2>2. UNCHANGED <<charge, links, request>>
    BY <1>3 DEF SettleVerified, requestVars, paystackVars
  <2> QED BY <1>1, <1>3, <2>1, <2>2, SuccessTurns, ChargesRest DEF SettleVerified, LinkMove
<1>4. CASE AskInVain(v)
  <2>1. Rests /\ Goto(v, "backoff")
    BY <1>4 DEF AskInVain, requestVars, paystackVars, Rests
  <2> QED BY <1>1, <2>1, GotoTurns, RestMove DEF Watched
<1>5. CASE ResendBalanceLink(v)
  <2>1. /\ proc[v].row \in PaymentIds /\ payments[proc[v].row].checkoutUrl
    BY <1>5, HeldRow DEF ResendBalanceLink, At, OnARow, Verified
  <2>2. /\ UNCHANGED <<payments, charge, request>>
        /\ links' \in {links, links \cup {proc[v].row}} /\ Goto(v, "backoff")
    BY <1>5 DEF ResendBalanceLink, requestVars
  <2>3. \A q \in PaymentIds : ChargeTurn(q)
    BY <2>1, <2>2 DEF ChargeTurn
  <2>4. \A x \in Procs : Turn(x)
    BY <1>1, <2>2, GotoTurns DEF Watched
  <2> QED BY <2>2, <2>3, <2>4, RowsRest DEF LinkMove
<1>6. CASE BackOffRow(v)
  <2>1. proc[v].row \in PaymentIds /\ BackOff(proc[v].row) /\ Stop(v)
        /\ UNCHANGED <<charge, links, request>>
    BY <1>6, HeldRow DEF BackOffRow, At, OnARow, requestVars, paystackVars
  <2> QED BY <1>1, <2>1, DueTurns, StopMoves, ChargesRest DEF LinkMove
<1> QED BY <1>2, <1>3, <1>4, <1>5, <1>6, RereadLinks, AskLinks DEF VerifyStep

LEMMA PickLinks ==
    ASSUME CInv, LinkInv, NEW v \in Checkers, NEW p \in PaymentIds, PickDueRow(v, p)
    PROVE  LinkMove
<1>1. Located /\ v \in Procs
  BY DEF CInv, Control, Procs
<1>2. Rests
  BY DEF PickDueRow, requestVars, paystackVars, Rests
<1>3. CASE proc' = [proc EXCEPT ![v].pc = "claim", ![v].row = p]
  <2>1. "claim" \notin Watched
    BY DEF Watched
  <2>2. \A x \in Procs : Turn(x)
    BY <1>1, <1>3, <2>1, TakeMoves
  <2> QED BY <1>2, <2>2, RestMove
<1>4. CASE StatusOf(p) = "SUBMITTED" /\ proc' = [proc EXCEPT ![v].pc = "verify", ![v].row = p]
  <2>1. /\ proc'[v].pc = "verify" /\ proc'[v].row = p
        /\ \A x \in Procs \ {v} : proc'[x] = proc[x]
    BY <1>1, <1>4, TakeMoves
  <2>2. Turn(v)
    BY <1>4, <2>1 DEF Turn, TurnsTo, PickDueRow
  <2> QED BY <1>1, <1>2, <2>1, <2>2, OneTurns, RestMove
<1> QED BY <1>3, <1>4 DEF PickDueRow

(* Paystack, the customer, and time.                                       *)
LEMMA OutsideLinks ==
    ASSUME CInv, LinkInv, ~SlowPosts, NEW p \in PaymentIds,
           LateArrival(p) \/ CustomerPays(p) \/ ChargeFails(p) \/ TimePasses(p)
    PROVE  LinkMove
<1>1. TypeOK /\ charge \in [PaymentIds -> ChargeStatuses]
  BY DEF CInv, Control, IInv, PaystackOK
<1>2. UNCHANGED <<proc, links, request>>
  BY DEF LateArrival, CustomerPays, ChargeFails, TimePasses, requestVars, paystackVars
<1>3. \A x \in Procs : Turn(x)
  BY <1>2 DEF Turn
<1>4. CASE TimePasses(p)
  <2>1. Unposted(p)
    BY <1>4 DEF TimePasses, Unposted, Posting
  <2>2. Unposted(p)'
    BY <1>2, <2>1 DEF Unposted, Posting
  <2> QED BY <1>1, <1>2, <1>3, <1>4, <2>2, DueTurns, ChargesRest
          DEF TimePasses, paystackVars, LinkMove
<1>5. CASE LateArrival(p) \/ CustomerPays(p) \/ ChargeFails(p)
  <2>1. UNCHANGED payments
    BY <1>5 DEF LateArrival, CustomerPays, ChargeFails
  <2>2. \A q \in PaymentIds : ChargeTurn(q)
    BY <1>1, <1>2, <1>5 DEF LateArrival, CustomerPays, ChargeFails, ChargeTurn
  <2> QED BY <1>3, <2>1, <2>2, RowsRest DEF LinkMove
<1> QED BY <1>4, <1>5

(* The request's side: opening a collection, confirming one, ending it.    *)
LEMMA RequestLinks ==
    ASSUME CInv, LinkInv, NEW h \in Handlers,
           \/ SelectQuote(h) \/ AssignOperator(h) \/ AskToCancel(h) \/ SelfCancel(h)
           \/ ConfirmCompletion(h) \/ CompletionStep(h)
    PROVE  LinkMove
<1>1. Located /\ TypeOK /\ RequestOK /\ h \in Procs
  BY DEF CInv, Control, IInv, Procs
<1>2. ASSUME NEW p \in PaymentIds, NEW t, Create(p, Job, t),
             proc' = [proc EXCEPT ![h].pc = "claim", ![h].row = p],
             UNCHANGED <<charge, links>>, request'.url = request.url
      PROVE  LinkMove
  <2>1. "claim" \notin Watched
    BY DEF Watched
  <2>2. \A x \in Procs : Turn(x)
    BY <1>1, <1>2, <2>1, TakeMoves
  <2> QED BY <1>1, <1>2, <2>2, CreateTurns, ChargesRest DEF LinkMove
<1>3. ASSUME Rests, Stop(h) \/ \E step : step \notin Watched /\ Goto(h, step)
      PROVE  LinkMove
  <2>1. \A x \in Procs : Turn(x)
    BY <1>1, <1>3, StopMoves, GotoTurns
  <2> QED BY <1>3, <2>1, RestMove
<1>4. CASE SelectQuote(h) \/ AssignOperator(h)
  <2>1. OpenDeposit(h)
    BY <1>4 DEF SelectQuote, AssignOperator
  <2>2. UNCHANGED <<charge, links>> /\ request'.url = request.url
    BY <1>1, <2>1 DEF OpenDeposit, paystackVars, RequestOK
  <2> QED BY <1>2, <2>1, <2>2 DEF OpenDeposit
<1>5. CASE AskToCancel(h) \/ ConfirmCompletion(h) \/ ReadForCompletion(h)
  <2>1. Rests
    BY <1>5 DEF AskToCancel, ConfirmCompletion, ReadForCompletion, requestVars, paystackVars,
                Rests
  <2>2. \E step \in {"cancel", "complete", "close", "closeAndBill"} : Goto(h, step)
    BY <1>5 DEF AskToCancel, ConfirmCompletion, ReadForCompletion
  <2> QED BY <1>3, <2>1, <2>2 DEF Watched
<1>6. CASE SelfCancel(h) \/ MarkJobCompleted(h)
  <2>1. Rests
    BY <1>1, <1>6 DEF SelfCancel, CancelRequest, MarkJobCompleted, paystackVars, Rests, RequestOK
  <2>2. Stop(h) \/ Goto(h, "bill")
    BY <1>6 DEF SelfCancel, MarkJobCompleted
  <2> QED BY <1>3, <2>1, <2>2 DEF Watched
<1>7. CASE BillBalance(h)
  <2>1. UNCHANGED <<charge, links, request>>
    BY <1>7 DEF BillBalance, requestVars, paystackVars
  <2>2. CASE UNCHANGED payments /\ (Stop(h) \/ Goto(h, "finalize"))
    BY <1>3, <2>1, <2>2 DEF Rests, Watched
  <2>3. ASSUME NEW p \in PaymentIds, Create(p, Job, "BALANCE"),
               proc' = [proc EXCEPT ![h].pc = "claim", ![h].row = p]
        PROVE  LinkMove
    BY <1>2, <2>1, <2>3
  <2> QED BY <1>7, <2>2, <2>3 DEF BillBalance
<1> QED BY <1>4, <1>5, <1>6, <1>7 DEF CompletionStep

LEMMA ConfirmLinks ==
    ASSUME CInv, LinkInv, NEW w \in Procs, ConfirmingStep(w) \/ Crash(w)
    PROVE  LinkMove
<1>1. Located /\ RequestOK
  BY DEF CInv, Control
<1>2. Rests
  BY <1>1 DEF ConfirmingStep, ConfirmDeposit, MarkAssigned, ActivateAssignedJob,
     FinalizeJobSettlement, PayOperator, Crash, requestVars, paystackVars, Rests, RequestOK
<1>3. Stop(w) \/ \E step \in {"assign", "activate", "payOperator"} : Goto(w, step)
  BY DEF ConfirmingStep, ConfirmDeposit, MarkAssigned, ActivateAssignedJob,
     FinalizeJobSettlement, PayOperator, Crash
<1> QED BY <1>1, <1>2, <1>3, StopMoves, GotoTurns, RestMove DEF Watched

LEMMA DeadlineLinks ==
    ASSUME CInv, LinkInv, RemindDeposit \/ ExpireDeposit \/ DeadlinePasses \/ AdminCancel
    PROVE  LinkMove
<1>1. /\ request'.url = request.url
      /\ UNCHANGED <<payments, charge, proc>>
      /\ links' = links \/ links' = links \cup {request.url}
  BY DEF CInv, Control, RequestOK, RemindDeposit, ExpireDeposit, DeadlinePasses, AdminCancel,
         CancelRequest, requestVars, paystackVars
<1>2. \A p \in PaymentIds : ChargeTurn(p)
  BY <1>1 DEF ChargeTurn, LinkInv, Linked
<1>3. \A x \in Procs : Turn(x)
  BY <1>1 DEF Turn
<1> QED BY <1>1, <1>2, <1>3, RowsRest DEF LinkMove

LEMMA StepLinks ==
    ASSUME CInv, LinkInv, ~SlowPosts, CollectionNext
    PROVE  LinkMove
<1>1. ASSUME NEW w \in Procs, OpeningStep(w) PROVE LinkMove
  <2>1. CASE ApplyInitialize(w)
    <3>1. proc[w].row \in PaymentIds
      BY <2>1, HeldRow DEF ApplyInitialize, At, OnARow
    <3> QED BY <2>1, <3>1, ApplyLinks
  <2> QED BY <1>1, <2>1, ClaimLinks, PostLinks, SendLinks DEF OpeningStep
<1>2. ASSUME NEW k \in Hooks, NEW p \in PaymentIds, DeliverCharge(k, p) PROVE LinkMove
  <2>1. /\ k \in Procs /\ charge[p] = "paid" /\ Located /\ TypeOK
        /\ UNCHANGED <<charge, links, request>>
    BY <1>2 DEF Procs, DeliverCharge, CInv, Control, IInv, Witnessed, requestVars, paystackVars
  <2> QED BY <1>2, <2>1, SuccessTurns, ChargesRest DEF DeliverCharge, LinkMove
<1>3. Handlers \subseteq Procs /\ Checkers \subseteq Procs
  BY DEF Procs
<1> QED BY <1>1, <1>2, <1>3, VerifyLinks, PickLinks, OutsideLinks, RequestLinks, ConfirmLinks,
           DeadlineLinks DEF CollectionNext

(* As long as no POST outlasts the first verification delay, no customer   *)
(* ever holds a payable link to a row that was given up, and what is paid  *)
(* is recorded or still recordable.  The delay is the hypothesis: with a   *)
(* slow POST the property fails.                                           *)
THEOREM MoneyAlwaysHasARow ==
    ASSUME ~SlowPosts
    PROVE  CollectionSpec => []MoneyHasARow
<1>1. CollectionInit => LinkInv
  <2> SUFFICES ASSUME CollectionInit PROVE LinkInv
    OBVIOUS
  <2>1. /\ \A p \in PaymentIds : ~payments[p].checkoutUrl /\ charge[p] = "none"
        /\ \A w \in Procs : proc[w].pc = "idle"
        /\ links = {} /\ request.url = 0 /\ 0 \notin PaymentIds
    BY OrderAssumption DEF CollectionInit, Init, AbsentRow, Idle
  <2> QED BY <2>1 DEF LinkInv, Opened, Verified, Linked, Posting
<1>2. CInv /\ LinkInv /\ [CollectionNext]_collectionVars => LinkInv'
  <2>1. CASE UNCHANGED collectionVars
    BY <2>1 DEF collectionVars, LinkInv, Opened, Verified, Linked, Posting, Unposted, Past,
                StatusOf
  <2>2. CASE CInv /\ LinkInv /\ CollectionNext
    BY <2>2, ~SlowPosts, StepLedger, StepLinks, LinkKept DEF CInv
  <2> QED BY <2>1, <2>2
<1>3. CInv /\ LinkInv => MoneyHasARow
  <2> SUFFICES ASSUME CInv, LinkInv, NEW p \in PaymentIds
               PROVE  /\ p \in links /\ charge[p] = "open" => StatusOf(p) = "SUBMITTED"
                      /\ charge[p] = "paid" =>
                            StatusOf(p) \in {"SUBMITTED", "SUCCEEDED", "DUPLICATE_SUCCEEDED"}
    BY DEF MoneyHasARow
  <2> QED BY DEF CInv, Witnessed, SuccessIsPaid, LinkInv, Linked, Won
<1> QED BY <1>1, <1>2, <1>3, CInvariant, ~SlowPosts, PTL DEF CollectionSpec

=============================================================================
