---------------------------- MODULE PayoutProofs ----------------------------
(***************************************************************************)
(* Theorems about Payout, for every number of callers, reconciler          *)
(* instances, rows and crashes.                                            *)
(*                                                                         *)
(* Callers, passes and webhooks act on the row they hold, and hold one     *)
(* whenever they act (Control).  From that, every step of a payout is a    *)
(* statement of the ledger or leaves the table alone, and what is proved   *)
(* of PaymentLedger carries over.                                          *)
(***************************************************************************)
EXTENDS Payout, PaymentLedgerProofs

(* The steps at which a process holds a row of the table.                  *)
OnARow == {"claim", "unblock", "block", "post", "repost", "apply", "initiate",
           "verify", "ask", "backoff"}

(* A process at one of those steps holds a row, and one that is about to   *)
(* block a row knows the reason.                                           *)
Placed(x) ==
    /\ x \in Process
    /\ x.pc \in OnARow => x.row \in PaymentIds
    /\ x.pc = "block" => x.goal # "transfer"

Located ==
    /\ proc \in [Procs -> Process]
    /\ \A w \in Procs : Placed(proc[w])

(* The rest of the state, the table apart.                                 *)
Surroundings ==
    /\ hasRecipient \in BOOLEAN /\ settled \in BOOLEAN
    /\ transfer \in [PaymentIds -> TransferStatuses]
    /\ inTransit \subseteq PaymentIds
    /\ events \subseteq PaymentIds \X WebhookEvents
    /\ notices \in Nat /\ crashes \in 0..MaxCrashes

Control == Located /\ Surroundings

(* A step that changes one process, to one that is placed.                 *)
LEMMA OneProcess ==
    ASSUME Located, NEW w \in Procs, NEW x, Placed(x),
           proc' = [proc EXCEPT ![w] = x]
    PROVE  Located'
  BY DEF Located, Placed

(* The three ways in which the code below moves a process.                 *)
LEMMA GotoPlaced ==
    ASSUME Located, NEW w \in Procs, NEW step \in Steps,
           Goto(w, step),
           step \in OnARow => proc[w].pc \in OnARow,
           step = "block" => proc[w].goal # "transfer"
    PROVE  Located'
<1> DEFINE x == [proc[w] EXCEPT !.pc = step]
<1>1. Placed(proc[w]) /\ proc[w] \in Process
  BY DEF Located
<1>2. /\ x \in Process /\ x.pc = step
      /\ x.row = proc[w].row /\ x.goal = proc[w].goal
  BY <1>1 DEF Process
<1>3. proc' = [proc EXCEPT ![w] = x]
  BY DEF Goto, Located
<1> HIDE DEF x
<1>4. Placed(x)
  BY <1>1, <1>2 DEF Placed
<1> QED BY <1>3, <1>4, OneProcess

LEMMA StopPlaced ==
    ASSUME Located, NEW w \in Procs, Stop(w)
    PROVE  Located'
<1>1. Placed(Idle)
  BY DEF Placed, Idle, Process, Steps, Goals, Answers, TransferStatuses, OnARow
<1> QED BY <1>1, OneProcess DEF Stop

LEMMA TakePlaced ==
    ASSUME Located, NEW w \in Procs, NEW step \in Steps \ {"block"},
           NEW p \in PaymentIds,
           proc' = [proc EXCEPT ![w].pc = step, ![w].row = p]
    PROVE  Located'
<1> DEFINE x == [proc[w] EXCEPT !.pc = step, !.row = p]
<1>1. proc[w] \in Process
  BY DEF Located
<1>2. x \in Process /\ x.pc = step /\ x.row = p
  BY <1>1 DEF Process
<1>3. proc' = [proc EXCEPT ![w] = x]
  BY DEF Located
<1> HIDE DEF x
<1>4. Placed(x)
  BY <1>2 DEF Placed
<1> QED BY <1>3, <1>4, OneProcess

LEMMA AnswerPlaced ==
    ASSUME Located, NEW w \in Procs, NEW a \in Answers,
           proc[w].pc \in OnARow,
           proc' = [proc EXCEPT ![w].pc = "apply", ![w].answer = a]
    PROVE  Located'
<1> DEFINE x == [proc[w] EXCEPT !.pc = "apply", !.answer = a]
<1>1. Placed(proc[w]) /\ proc[w] \in Process
  BY DEF Located
<1>2. x \in Process /\ x.pc = "apply" /\ x.row = proc[w].row
  BY <1>1 DEF Process, Steps
<1>3. proc' = [proc EXCEPT ![w] = x]
  BY DEF Located
<1> HIDE DEF x
<1>4. Placed(x)
  BY <1>1, <1>2 DEF Placed
<1> QED BY <1>3, <1>4, OneProcess

(* What a POST or a webhook does at Paystack keeps the surroundings.       *)
LEMMA AcceptKeeps ==
    ASSUME Surroundings, NEW p \in PaymentIds, NEW s,
           AcceptTransfer(p, s)
    PROVE  /\ transfer' \in [PaymentIds -> TransferStatuses]
           /\ events' \subseteq PaymentIds \X WebhookEvents
<1>1. s \in TransferStatuses
  BY DEF AcceptTransfer, TransferStatuses, Moved
<1>2. events' = events \/ (s \in WebhookEvents /\ events' = events \cup {<<p, s>>})
  BY DEF AcceptTransfer, Announce
<1>3. s \in WebhookEvents => <<p, s>> \in PaymentIds \X WebhookEvents
  OBVIOUS
<1> QED BY <1>1, <1>2, <1>3 DEF Surroundings, AcceptTransfer

LEMMA InitControl == PayoutInit => Control
<1> SUFFICES ASSUME PayoutInit PROVE Control
  OBVIOUS
<1>1. Placed(Idle) /\ Idle \in Process
  BY DEF Placed, Process, Idle, Steps, Goals, Answers, TransferStatuses, OnARow
<1>2. Located
  BY <1>1 DEF PayoutInit, Located
<1>3. transfer \in [PaymentIds -> TransferStatuses]
  BY DEF PayoutInit, TransferStatuses
<1>4. hasRecipient \in BOOLEAN /\ settled \in BOOLEAN
  BY DEF PayoutInit
<1>5. notices \in Nat /\ crashes \in 0..MaxCrashes
  BY CrashAssumption DEF PayoutInit
<1>6. inTransit \subseteq PaymentIds /\ events \subseteq PaymentIds \X WebhookEvents
  BY DEF PayoutInit
<1> QED BY <1>2, <1>3, <1>4, <1>5, <1>6 DEF Control, Surroundings

(* The POST, made by callers and by the reconciler alike.                  *)
LEMMA PostControl ==
    ASSUME Control, NEW w \in Procs, PostTransfer(w)
    PROVE  Control'
<1> DEFINE p == proc[w].row
<1>1. Located /\ Surroundings /\ p \in PaymentIds /\ proc[w].pc \in OnARow
  BY DEF Control, Located, Placed, PostTransfer, OnARow
<1>2. ASSUME NEW a \in Answers,
             proc' = [proc EXCEPT ![w].pc = "apply", ![w].answer = a]
      PROVE  Located'
  BY <1>1, <1>2, AnswerPlaced
<1>3. CASE \E s \in TransferStatuses :
             /\ AcceptTransfer(p, s)
             /\ \E a \in {s, "ambiguous", "rejected"} :
                   proc' = [proc EXCEPT ![w].pc = "apply", ![w].answer = a]
             /\ UNCHANGED inTransit
  <2> PICK s \in TransferStatuses :
             /\ AcceptTransfer(p, s)
             /\ \E a \in {s, "ambiguous", "rejected"} :
                   proc' = [proc EXCEPT ![w].pc = "apply", ![w].answer = a]
             /\ UNCHANGED inTransit
    BY <1>3
  <2>1. {s, "ambiguous", "rejected"} \subseteq Answers
    BY DEF AcceptTransfer, Answers, TransferStatuses
  <2>2. Located'
    BY <1>2, <2>1
  <2>3. /\ transfer' \in [PaymentIds -> TransferStatuses]
        /\ events' \subseteq PaymentIds \X WebhookEvents
    BY <1>1, AcceptKeeps
  <2> QED BY <1>1, <2>2, <2>3 DEF PostTransfer, Control, Surroundings
<1>4. CASE /\ \E a \in {"rejected", "duplicate", "ambiguous"} :
                proc' = [proc EXCEPT ![w].pc = "apply", ![w].answer = a]
           /\ inTransit' \in {inTransit, inTransit \cup {p}}
           /\ UNCHANGED <<transfer, events>>
  <2>1. Located'
    BY <1>2, <1>4 DEF Answers
  <2>2. inTransit' \subseteq PaymentIds
    BY <1>1, <1>4 DEF Surroundings
  <2> QED BY <1>1, <1>4, <2>1, <2>2 DEF PostTransfer, Control, Surroundings
<1> QED BY <1>3, <1>4 DEF PostTransfer

(* Callers.                                                                *)
LEMMA CallerControl ==
    ASSUME Control, NEW c \in Callers,
           SettleJob(c) \/ CallerStep(c) \/ \E p \in PaymentIds : RetryPayout(c, p)
    PROVE  Control'
<1> c \in Procs
  BY DEF Procs
<1> Located /\ Surroundings /\ Placed(proc[c]) /\ proc[c] \in Process
  BY DEF Control, Located
<1>1. CASE SettleJob(c)
  <2>1. Located'
    BY <1>1, GotoPlaced DEF SettleJob, Steps, OnARow
  <2> QED BY <1>1, <2>1 DEF SettleJob, Control, Surroundings
<1>2. ASSUME NEW p \in PaymentIds, RetryPayout(c, p) PROVE Control'
  <2>1. Located'
    BY <1>2, GotoPlaced DEF RetryPayout, Steps, OnARow
  <2> QED BY <1>2, <2>1 DEF RetryPayout, Control, Surroundings
<1>3. CASE AttemptGuards(c)
  <2>1. ASSUME NEW g \in Goals,
               proc' = [proc EXCEPT ![c].pc = "find", ![c].goal = g]
        PROVE  Located'
    <3> DEFINE x == [proc[c] EXCEPT !.pc = "find", !.goal = g]
    <3>1. x \in Process /\ x.pc = "find"
      BY DEF Process, Steps
    <3>2. proc' = [proc EXCEPT ![c] = x]
      BY <2>1 DEF Located
    <3> HIDE DEF x
    <3>3. Placed(x)
      BY <3>1 DEF Placed, OnARow
    <3> QED BY <3>2, <3>3, OneProcess
  <2>2. ASSUME Goto(c, "find") PROVE Located'
    BY <2>2, GotoPlaced DEF Steps, OnARow
  <2>3. ASSUME Stop(c) PROVE Located'
    BY <2>3, StopPlaced
  <2>4. Located'
    BY <1>3, <2>1, <2>2, <2>3 DEF AttemptGuards, Goals, Goto
  <2> QED BY <1>3, <2>4 DEF AttemptGuards, Control, Surroundings
<1>4. CASE FindExisting(c)
  <2>1. Existing \subseteq PaymentIds
    BY DEF Existing, PayRows, RowsOf
  <2>2. Located'
    BY <1>4, <2>1, GotoPlaced, StopPlaced, TakePlaced
       DEF FindExisting, Steps, OnARow
  <2> QED BY <1>4, <2>2 DEF FindExisting, Control, Surroundings
<1>5. CASE InsertPayment(c)
  <2>1. Located'
    BY <1>5, StopPlaced, TakePlaced DEF InsertPayment, Steps
  <2> QED BY <1>5, <2>1 DEF InsertPayment, Control, Surroundings
<1>6. CASE ClaimPayout(c)
  <2> DEFINE step == AfterClaim(c)
  <2>1. step \in Steps /\ (step = "block" => proc[c].goal # "transfer")
    BY DEF AfterClaim, Steps
  <2>2. \/ proc[c].pc \in {"claim", "unblock"} /\ Goto(c, step)
        \/ Stop(c)
    BY <1>6 DEF ClaimPayout
  <2> HIDE DEF step
  <2>3. ASSUME proc[c].pc \in {"claim", "unblock"}, Goto(c, step)
        PROVE  Located'
    BY <2>1, <2>3, GotoPlaced DEF OnARow
  <2>4. Located'
    BY <2>2, <2>3, StopPlaced
  <2> QED BY <1>6, <2>4 DEF ClaimPayout, Control, Surroundings
<1>7. CASE BlockPayment(c)
  <2>1. Located'
    BY <1>7, StopPlaced DEF BlockPayment
  <2> QED BY <1>7, <2>1 DEF BlockPayment, Control, Surroundings
<1>8. CASE PostTransfer(c)
  BY <1>8, PostControl
<1>9. CASE ApplyResponse(c)
  <2>1. Located'
    BY <1>9, StopPlaced DEF ApplyResponse
  <2> QED BY <1>9, <2>1 DEF ApplyResponse, Control, Surroundings
<1> QED BY <1>1, <1>2, <1>3, <1>4, <1>5, <1>6, <1>7, <1>8, <1>9 DEF CallerStep

(* The reconciler.                                                         *)
LEMMA CheckerControl ==
    ASSUME Control, NEW v \in Checkers,
           CheckerStep(v) \/ \E p \in PaymentIds : PickDueRow(v, p)
    PROVE  Control'
<1> v \in Procs
  BY DEF Procs
<1> Located /\ Surroundings /\ Placed(proc[v]) /\ proc[v] \in Process
  BY DEF Control, Located
<1>1. ASSUME NEW p \in PaymentIds, PickDueRow(v, p) PROVE Control'
  <2>1. Located'
    BY <1>1, TakePlaced DEF PickDueRow, Steps
  <2> QED BY <1>1, <2>1 DEF PickDueRow, Control, Surroundings
<1>2. CASE InitiatePayout(v)
  <2>1. Located'
    BY <1>2, GotoPlaced, StopPlaced DEF InitiatePayout, Steps, OnARow
  <2> QED BY <1>2, <2>1 DEF InitiatePayout, Control, Surroundings
<1>3. CASE RereadRow(v)
  <2>1. Located'
    BY <1>3, GotoPlaced, StopPlaced DEF RereadRow, Steps, OnARow
  <2> QED BY <1>3, <2>1 DEF RereadRow, Control, Surroundings
<1>4. ASSUME NotFound(v) PROVE Located'
  BY <1>4, GotoPlaced DEF NotFound, Steps, OnARow
<1>5. CASE AskPaystack(v)
  <2> DEFINE a == transfer[proc[v].row]
  <2>1. a \in Answers \/ a = "none"
    BY <1>5 DEF AskPaystack, Surroundings, Placed, OnARow, Answers, TransferStatuses
  <2>2. \/ NotFound(v)
        \/ a # "none" /\ proc' = [proc EXCEPT ![v].pc = "apply", ![v].answer = a]
    BY <1>5 DEF AskPaystack
  <2> HIDE DEF a
  <2>3. proc[v].pc \in OnARow
    BY <1>5 DEF AskPaystack, OnARow
  <2>4. Located'
    BY <1>4, <2>1, <2>2, <2>3, AnswerPlaced
  <2> QED BY <1>5, <2>4 DEF AskPaystack, Control, Surroundings
<1>6. CASE AskInVain(v)
  <2>1. Located'
    BY <1>4, <1>6, GotoPlaced DEF AskInVain, Steps, OnARow
  <2> QED BY <1>6, <2>1 DEF AskInVain, Control, Surroundings
<1>7. CASE PostTransfer(v)
  BY <1>7, PostControl
<1>8. CASE ApplyVerification(v)
  <2>1. Located'
    BY <1>8, GotoPlaced, StopPlaced DEF ApplyVerification, Steps, OnARow
  <2>2. notices' \in Nat
    BY <1>8 DEF ApplyVerification, Notify, Surroundings
  <2> QED BY <1>8, <2>1, <2>2 DEF ApplyVerification, Control, Surroundings
<1>9. CASE BackOffRow(v)
  <2>1. Located'
    BY <1>9, StopPlaced DEF BackOffRow
  <2> QED BY <1>9, <2>1 DEF BackOffRow, Control, Surroundings
<1> QED BY <1>1, <1>2, <1>3, <1>5, <1>6, <1>7, <1>8, <1>9 DEF CheckerStep

LEMMA StepControl == Control /\ [PayoutNext]_payoutVars => Control'
<1> SUFFICES ASSUME Control, [PayoutNext]_payoutVars PROVE Control'
  OBVIOUS
<1> Located /\ Surroundings
  BY DEF Control
<1>1. ASSUME NEW c \in Callers, SettleJob(c) \/ CallerStep(c) PROVE Control'
  BY <1>1, CallerControl
<1>2. ASSUME NEW c \in Callers, NEW p \in PaymentIds, RetryPayout(c, p) PROVE Control'
  BY <1>2, CallerControl
<1>3. ASSUME NEW v \in Checkers, CheckerStep(v) PROVE Control'
  BY <1>3, CheckerControl
<1>4. ASSUME NEW v \in Checkers, NEW p \in PaymentIds, PickDueRow(v, p) PROVE Control'
  BY <1>4, CheckerControl
<1>5. ASSUME NEW p \in PaymentIds, LateArrival(p) PROVE Control'
  <2>1. /\ transfer' \in [PaymentIds -> TransferStatuses]
        /\ events' \subseteq PaymentIds \X WebhookEvents
    BY <1>5, AcceptKeeps DEF LateArrival, Surroundings
  <2> QED BY <1>5, <2>1 DEF LateArrival, Control, Located, Surroundings
<1>6. ASSUME NEW p \in PaymentIds, TimePasses(p) PROVE Control'
  BY <1>6 DEF TimePasses, Control, Located, Surroundings
<1>7. ASSUME NEW p \in PaymentIds, NEW s \in TransferStatuses, TransferProgresses(p, s)
      PROVE  Control'
  <2>1. s \in WebhookEvents => <<p, s>> \in PaymentIds \X WebhookEvents
    OBVIOUS
  <2>2. events' = events \/ (s \in WebhookEvents /\ events' = events \cup {<<p, s>>})
    BY <1>7 DEF TransferProgresses, Announce
  <2>3. events' \subseteq PaymentIds \X WebhookEvents
    BY <2>1, <2>2 DEF Surroundings
  <2>4. transfer' \in [PaymentIds -> TransferStatuses]
    BY <1>7 DEF TransferProgresses, Surroundings
  <2> QED BY <1>7, <2>3, <2>4 DEF TransferProgresses, Control, Located, Surroundings
<1>8. ASSUME NEW p \in PaymentIds, NEW s \in TransferStatuses, DeliverWebhook(p, s)
      PROVE  Control'
  <2>1. notices' \in Nat
    BY <1>8 DEF DeliverWebhook, Notify, Surroundings
  <2> QED BY <1>8, <2>1 DEF DeliverWebhook, Control, Located, Surroundings
<1>9. CASE SaveBankDetails
  BY <1>9 DEF SaveBankDetails, Control, Located, Surroundings
<1>10. ASSUME NEW w \in Procs, Crash(w) PROVE Control'
  <2>1. Located'
    BY <1>10, StopPlaced DEF Crash
  <2>2. crashes' \in 0..MaxCrashes
    BY <1>10, CrashAssumption DEF Crash, Surroundings
  <2> QED BY <1>10, <2>1, <2>2 DEF Crash, Control, Surroundings
<1>11. CASE UNCHANGED payoutVars
  BY <1>11 DEF payoutVars, Control, Located, Surroundings
<1> QED BY <1>1, <1>2, <1>3, <1>4, <1>5, <1>6, <1>7, <1>8, <1>9, <1>10, <1>11
        DEF PayoutNext

LEMMA ControlInvariant == PayoutSpec => []Control
  BY InitControl, StepControl, PTL DEF PayoutSpec

-----------------------------------------------------------------------------
(* What callers, passes and webhooks do to the table.                      *)
LEMMA BlockIsLedger ==
    ASSUME NEW p \in PaymentIds, NEW b \in BlockReasons, BlockIfSubmitted(p, b)
    PROVE  Next \/ UNCHANGED payments
  BY DEF BlockIfSubmitted, Next, LedgerStep

LEMMA SettleIsLedger ==
    ASSUME NEW p \in PaymentIds, NEW v \in Verdicts, Settle(p, v)
    PROVE  Next \/ UNCHANGED payments
  BY DEF Settle, Next, LedgerStep

LEMMA VerdictKnown ==
    ASSUME NEW a \in Moved \cup Dead
    PROVE  VerdictOf(a) \in Verdicts
  BY DEF VerdictOf, Moved, Dead, Verdicts

LEMMA StepLedger == Control /\ [PayoutNext]_payoutVars => [Next]_ledgerVars
<1> SUFFICES ASSUME Control, [PayoutNext]_payoutVars
             PROVE  Next \/ UNCHANGED payments
  BY DEF ledgerVars
<1> Located /\ Surroundings
  BY DEF Control
<1>1. ASSUME NEW c \in Callers, SettleJob(c) \/ CallerStep(c)
      PROVE  Next \/ UNCHANGED payments
  <2> DEFINE p == proc[c].row
  <2>1. proc[c] \in Process /\ (proc[c].pc \in OnARow => p \in PaymentIds)
    BY DEF Located, Placed, Procs
  <2>2. CASE InsertPayment(c)
    BY <2>2, JobAssumption DEF InsertPayment, Next, LedgerStep
  <2>3. CASE ClaimPayout(c)
    BY <2>1, <2>3 DEF ClaimPayout, OnARow, Next, LedgerStep
  <2>4. CASE BlockPayment(c)
    <3>1. p \in PaymentIds /\ proc[c].goal \in BlockReasons
      BY <2>1, <2>4, PayoutReasons
         DEF BlockPayment, OnARow, Located, Placed, Procs, Process, Goals
    <3> QED BY <2>4, <3>1, BlockIsLedger DEF BlockPayment
  <2>5. CASE ApplyResponse(c)
    <3>1. p \in PaymentIds
      BY <2>1, <2>5 DEF ApplyResponse, OnARow
    <3>2. {"PAYSTACK_VALIDATION", "AWAITING_OTP"} \subseteq BlockReasons
      BY PayoutReasons
    <3>3. \A a \in Dead : VerdictOf(a) \in Verdicts
      BY VerdictKnown
    <3> QED BY <2>5, <3>1, <3>2, <3>3, BlockIsLedger, SettleIsLedger DEF ApplyResponse
  <2>6. CASE SettleJob(c) \/ AttemptGuards(c) \/ FindExisting(c) \/ PostTransfer(c)
    BY <2>6 DEF SettleJob, AttemptGuards, FindExisting, PostTransfer
  <2> QED BY <1>1, <2>2, <2>3, <2>4, <2>5, <2>6 DEF CallerStep
<1>2. ASSUME NEW c \in Callers, NEW p \in PaymentIds, RetryPayout(c, p)
      PROVE  UNCHANGED payments
  BY <1>2 DEF RetryPayout
<1>3. ASSUME NEW v \in Checkers, CheckerStep(v)
      PROVE  Next \/ UNCHANGED payments
  <2> DEFINE p == proc[v].row
  <2>1. proc[v].pc \in OnARow => p \in PaymentIds
    BY DEF Located, Placed, Procs
  <2>2. CASE InitiatePayout(v)
    BY <2>1, <2>2 DEF InitiatePayout, OnARow, Next, LedgerStep
  <2>3. CASE ApplyVerification(v)
    <3>1. p \in PaymentIds
      BY <2>1, <2>3 DEF ApplyVerification, OnARow
    <3>2. {"PAYSTACK_VALIDATION", "AWAITING_OTP"} \subseteq BlockReasons
      BY PayoutReasons
    <3>3. \A a \in Moved \cup Dead : VerdictOf(a) \in Verdicts
      BY VerdictKnown
    <3> QED BY <2>3, <3>1, <3>2, <3>3, BlockIsLedger, SettleIsLedger
            DEF ApplyVerification
  <2>4. CASE BackOffRow(v)
    BY <2>1, <2>4 DEF BackOffRow, OnARow, Next, LedgerStep
  <2>5. CASE RereadRow(v) \/ AskPaystack(v) \/ AskInVain(v) \/ PostTransfer(v)
    BY <2>5 DEF RereadRow, AskPaystack, AskInVain, PostTransfer
  <2> QED BY <1>3, <2>2, <2>3, <2>4, <2>5 DEF CheckerStep
<1>4. ASSUME NEW v \in Checkers, NEW p \in PaymentIds, PickDueRow(v, p)
      PROVE  UNCHANGED payments
  BY <1>4 DEF PickDueRow
<1>5. ASSUME NEW p \in PaymentIds, LateArrival(p) \/ TimePasses(p)
      PROVE  Next \/ UNCHANGED payments
  BY <1>5 DEF LateArrival, TimePasses, Next, LedgerStep
<1>6. ASSUME NEW p \in PaymentIds, NEW s \in TransferStatuses,
             TransferProgresses(p, s) \/ DeliverWebhook(p, s)
      PROVE  Next \/ UNCHANGED payments
  <2>1. CASE TransferProgresses(p, s)
    BY <2>1 DEF TransferProgresses
  <2>2. CASE DeliverWebhook(p, s)
    <3>1. s \in Moved \cup Dead
      BY <2>2 DEF DeliverWebhook, Surroundings, WebhookEvents, Moved, Dead
    <3>2. VerdictOf(s) \in Verdicts
      BY <3>1, VerdictKnown
    <3> QED BY <2>2, <3>2, SettleIsLedger DEF DeliverWebhook
  <2> QED BY <1>6, <2>1, <2>2
<1>7. CASE SaveBankDetails \/ \E w \in Procs : Crash(w)
  BY <1>7 DEF SaveBankDetails, Crash
<1>8. CASE UNCHANGED payoutVars
  BY <1>8 DEF payoutVars
<1> QED BY <1>1, <1>2, <1>3, <1>4, <1>5, <1>6, <1>7, <1>8 DEF PayoutNext

(* Whatever callers, reconciler passes, webhooks and crashes do, they      *)
(* change the Payment table by the statements of PaymentLedgerService, in  *)
(* the conditions those statements check.                                  *)
THEOREM PayoutFollowsLedger == PayoutSpec => LedgerDiscipline
<1>1. PayoutInit => Init
  BY DEF PayoutInit
<1> QED BY <1>1, StepLedger, ControlInvariant, PTL
        DEF PayoutSpec, LedgerDiscipline, Spec

(* So no job ever has two payout attempts that could both move money by    *)
(* the books, however many administrators retry it ...                     *)
THEOREM PayoutOneInFlight == PayoutSpec => []OneInFlight
  BY PayoutFollowsLedger, OneAttemptInFlight, PTL DEF LedgerDiscipline

(* ... and the state of a payout always has its shape; in particular a     *)
(* process that acts on a row holds one.                                   *)
THEOREM PayoutTypeCorrect == PayoutSpec => []PayoutTypeOK
<1>1. TypeOK /\ Control => PayoutTypeOK
  BY DEF PayoutTypeOK, Control, Located, Surroundings
<1> QED BY <1>1, PayoutFollowsLedger, TypeCorrect, ControlInvariant, PTL
        DEF LedgerDiscipline

-----------------------------------------------------------------------------
(* Where the money is.  Paystack settles a transfer for good, so what a    *)
(* process was once answered, or a webhook once said, of a settled one     *)
(* stays true however late it is applied.                                  *)
Final == Moved \cup Dead

(* From the claim of its row to the answer: a POST is or may be under way. *)
Sending == {"post", "repost", "apply", "ask"}

(* Whatever left, left for a claimed row.                                  *)
NeverUnclaimed ==
    /\ \A p \in PaymentIds : transfer[p] # "none" \/ p \in inTransit => Past(p)
    /\ \A w \in Procs, p \in PaymentIds :
          proc[w].row = p /\ proc[w].pc \in Sending => Past(p)

(* What was answered, announced and written down of a settled transfer.    *)
Answered(w) ==
    \A p \in PaymentIds :
        proc[w].pc = "apply" /\ proc[w].row = p /\ proc[w].answer \in Final
            => transfer[p] = proc[w].answer

Announced == \A p \in PaymentIds, s \in WebhookEvents :
                 <<p, s>> \in events => transfer[p] = s

(* There are no rows here but the payouts of the job.                      *)
OfTheJob == \A p \in PaymentIds :
                Exists(p) => payments[p].request = Job /\ payments[p].type = "PAYOUT"

MoneyInv ==
    /\ IInv /\ Control
    /\ NeverUnclaimed
    /\ (\A w \in Procs : Answered(w)) /\ Announced
    /\ BooksMatchMoney
    /\ OfTheJob /\ ToldOnce

(* One caller at a time: who is about to insert has every earlier attempt  *)
(* behind it, and of all the attempts one at most is still open.           *)
OneCaller == \A c, d \in Callers : c = d

Ended(p) == StatusOf(p) \in {"FAILED", "REVERSED"}

AttemptInv ==
    /\ \A w \in Procs : proc[w].pc = "insert" =>
          w \in Callers /\ \A p \in PaymentIds : Exists(p) => Ended(p)
    /\ \A p, q \in PaymentIds : Exists(p) /\ Exists(q) => p = q \/ Ended(p) \/ Ended(q)

-----------------------------------------------------------------------------
(* What a step may do to the money and to what is known of it.             *)
PaystackMove ==
    /\ \A p \in PaymentIds : transfer'[p] = transfer[p] \/ (Past(p) /\ transfer[p] \notin Final)
    /\ \A p \in inTransit' : p \in inTransit \/ Past(p)
    /\ \A p \in PaymentIds, s \in WebhookEvents :
          <<p, s>> \in events' => <<p, s>> \in events \/ transfer'[p] = s

ProcMove(w) ==
    \/ proc'[w] = proc[w]
    \/ \A p \in PaymentIds : proc'[w].row = p /\ proc'[w].pc \in Sending =>
          /\ payments'[p].status \notin {"ABSENT", "PENDING"}
          /\ proc'[w].pc = "apply" /\ proc'[w].answer \in Final => transfer'[p] = proc'[w].answer

RowMove(p) ==
    /\ payments'[p].status \in {"SUCCEEDED", "DUPLICATE_SUCCEEDED"} =>
          payments'[p].status = payments[p].status \/ transfer[p] \in Moved
    /\ payments'[p].status \in {"FAILED", "REVERSED"} =>
          payments'[p].status = payments[p].status \/ transfer[p] \in Dead
    /\ ~Exists(p) /\ payments'[p].status # "ABSENT" =>
          payments'[p].request = Job /\ payments'[p].type = "PAYOUT"

NoticeMove ==
    \/ UNCHANGED notices
    \/ /\ notices' = notices + 1
       /\ \E p \in PaymentIds : /\ Claimable(p) /\ SucceededIndexAllows(p)
                                /\ payments'[p].status = "SUCCEEDED"

MoneyMove ==
    /\ PaystackMove /\ NoticeMove
    /\ \A w \in Procs : ProcMove(w)
    /\ \A p \in PaymentIds : RowMove(p)

LEMMA MoneyKept ==
    ASSUME MoneyInv, MoneyMove, Control', [Next]_ledgerVars
    PROVE  MoneyInv'
<1>1. /\ IInv /\ NeverUnclaimed /\ Announced /\ BooksMatchMoney /\ OfTheJob /\ ToldOnce
      /\ \A w \in Procs : Answered(w)
      /\ notices \in Nat
  BY DEF MoneyInv, Control, Surroundings
<1>2. \A p \in PaymentIds :
         /\ Past(p) => Past(p)'
         /\ Exists(p) => /\ Exists(p)'
                         /\ payments'[p].type = payments[p].type
                         /\ payments'[p].request = payments[p].request
         /\ StatusOf(p) \in Terminal => StatusOf(p)' = StatusOf(p)
  BY <1>1, LedgerKeeps
<1>3. \A p \in PaymentIds : transfer[p] \in Final => transfer'[p] = transfer[p]
  BY DEF MoneyMove, PaystackMove
<1>4. NeverUnclaimed'
  <2>1. ASSUME NEW p \in PaymentIds, transfer'[p] # "none" \/ p \in inTransit'
        PROVE  Past(p)'
    BY <1>1, <1>2, <2>1 DEF NeverUnclaimed, MoneyMove, PaystackMove
  <2>2. ASSUME NEW w \in Procs, NEW p \in PaymentIds,
               proc'[w].row = p, proc'[w].pc \in Sending
        PROVE  Past(p)'
    BY <1>1, <1>2, <2>2 DEF NeverUnclaimed, MoneyMove, ProcMove, Past, StatusOf
  <2> QED BY <2>1, <2>2 DEF NeverUnclaimed
<1>5. ASSUME NEW w \in Procs, NEW p \in PaymentIds,
             proc'[w].pc = "apply", proc'[w].row = p, proc'[w].answer \in Final
      PROVE  transfer'[p] = proc'[w].answer
  <2>1. proc'[w].pc \in Sending
    BY <1>5 DEF Sending
  <2> QED BY <1>1, <1>3, <1>5, <2>1 DEF Answered, MoneyMove, ProcMove
<1>6. Announced'
  <2>1. WebhookEvents \subseteq Final
    BY DEF WebhookEvents, Final, Moved, Dead
  <2> QED BY <1>1, <1>3, <2>1 DEF Announced, MoneyMove, PaystackMove
<1>7. BooksMatchMoney'
  <2> SUFFICES ASSUME NEW p \in PaymentIds
               PROVE  /\ payments'[p].status \in {"SUCCEEDED", "DUPLICATE_SUCCEEDED"} =>
                            transfer'[p] \in Moved
                      /\ payments'[p].status \in {"FAILED", "REVERSED"} => transfer'[p] \in Dead
    BY DEF BooksMatchMoney, StatusOf
  <2>1. /\ StatusOf(p) \in {"SUCCEEDED", "DUPLICATE_SUCCEEDED"} => transfer[p] \in Moved
        /\ StatusOf(p) \in {"FAILED", "REVERSED"} => transfer[p] \in Dead
    BY <1>1 DEF BooksMatchMoney
  <2> QED BY <1>3, <2>1 DEF MoneyMove, RowMove, StatusOf, Final
<1>8. OfTheJob'
  BY <1>1, <1>2 DEF OfTheJob, MoneyMove, RowMove, Exists, StatusOf
<1>9. ToldOnce'
  <2>1. ASSUME NEW p \in PaymentIds, StatusOf(p)' = "SUCCEEDED"
        PROVE  \E q \in PayRows' : StatusOf(q)' = "SUCCEEDED"
    <3>1. Exists(p)'
      BY <2>1 DEF Exists, StatusOf
    <3> QED BY <1>8, <2>1, <3>1 DEF OfTheJob, PayRows, RowsOf, Exists, StatusOf
  <2>2. CASE UNCHANGED notices
    <3>1. ASSUME notices = 1
          PROVE  \E p \in PaymentIds : StatusOf(p)' = "SUCCEEDED"
      BY <1>1, <1>2, <3>1 DEF ToldOnce, PayRows, RowsOf, Terminal
    <3> QED BY <1>1, <2>1, <2>2, <3>1 DEF ToldOnce
  <2>3. ASSUME notices' = notices + 1,
               NEW p \in PaymentIds, Claimable(p), SucceededIndexAllows(p),
               payments'[p].status = "SUCCEEDED"
        PROVE  ToldOnce'
    <3>1. notices # 1
      <4> SUFFICES ASSUME NEW q \in PayRows, StatusOf(q) = "SUCCEEDED" PROVE FALSE
        BY <1>1 DEF ToldOnce
      <4>1. Exists(p) /\ p # q /\ q \in PaymentIds
        BY <2>3 DEF Claimable, Exists, PayRows, RowsOf
      <4>2. SameSlot(p, q) /\ Exists(q)
        BY <1>1, <4>1 DEF OfTheJob, SameSlot, PayRows, RowsOf
      <4> QED BY <2>3, <4>1, <4>2 DEF SucceededIndexAllows
    <3>2. notices' <= 1
      BY <1>1, <2>3, <3>1 DEF ToldOnce
    <3> QED BY <2>1, <2>3, <3>2 DEF ToldOnce, StatusOf
  <2> QED BY <2>2, <2>3 DEF MoneyMove, NoticeMove
<1>10. IInv'
  BY <1>1, StepIInv
<1>11. \A w \in Procs : Answered(w)'
  BY <1>5 DEF Answered
<1> QED BY <1>4, <1>6, <1>7, <1>8, <1>9, <1>10, <1>11 DEF MoneyInv

-----------------------------------------------------------------------------
(* The steps are moves.                                                    *)
LEMMA PaystackRests == UNCHANGED <<transfer, inTransit, events>> => PaystackMove
  BY DEF PaystackMove

LEMMA TableRests == UNCHANGED payments => \A p \in PaymentIds : RowMove(p)
  BY DEF RowMove, Exists, StatusOf

(* A process that stops, or goes where nothing is sent.                    *)
LEMMA IdleSendsNothing ==
    ASSUME Located, NEW w \in Procs, Stop(w)
    PROVE  \A x \in Procs : ProcMove(x)
  BY DEF Stop, Located, ProcMove, Idle, Sending

LEMMA QuietProc ==
    ASSUME Located, NEW w \in Procs, \A x \in Procs \ {w} : proc'[x] = proc[x],
           proc'[w].pc \notin Sending
    PROVE  \A x \in Procs : ProcMove(x)
  BY DEF ProcMove

LEMMA GotoFields ==
    ASSUME Located, NEW w \in Procs, NEW step, Goto(w, step)
    PROVE  /\ proc'[w].pc = step /\ proc'[w].row = proc[w].row
           /\ proc'[w].answer = proc[w].answer
           /\ \A x \in Procs \ {w} : proc'[x] = proc[x]
<1>1. proc[w] \in Process /\ proc \in [Procs -> Process]
  BY DEF Located
<1> QED BY <1>1 DEF Goto, Process

(* A row is settled by what Paystack says of its own transfer.             *)
LEMMA SettleMove ==
    ASSUME TypeOK, NEW p \in PaymentIds, NEW a \in Final, transfer[p] = a,
           Settle(p, VerdictOf(a))
    PROVE  /\ \A q \in PaymentIds : RowMove(q)
           /\ ClaimWins(p, VerdictOf(a)) /\ VerdictOf(a) = "SUCCEEDED" =>
                 /\ Claimable(p) /\ SucceededIndexAllows(p)
                 /\ payments'[p].status = "SUCCEEDED"
<1>1. /\ a \in Moved => VerdictOf(a) = "SUCCEEDED"
      /\ a \in Dead => VerdictOf(a) \in {"FAILED", "REVERSED"}
      /\ VerdictOf(a) \in Verdicts
  BY DEF VerdictOf, Moved, Dead, Final, Verdicts
<1> DEFINE v == VerdictOf(a)
<1> HIDE DEF v
<1>2. CASE ClaimTerminal(p, v)
  <2>1. Writes(p, v)
    BY <1>1, <1>2, StatementWrites DEF v
  <2>2. \A q \in PaymentIds : RowMove(q)
    BY <1>1, <2>1 DEF v, Writes, OnlyPayment, RowMove, Exists, StatusOf, Final
  <2> QED BY <2>1, <2>2 DEF v, Writes, ClaimWins
<1>3. CASE v = "SUCCEEDED" /\ RecordDuplicateSuccess(p)
  <2>1. Writes(p, "DUPLICATE_SUCCEEDED")
    BY <1>3, StatementWrites
  <2>2. a \in Moved
    BY <1>1, <1>3 DEF v, Final
  <2>3. \A q \in PaymentIds : RowMove(q)
    BY <2>1, <2>2 DEF Writes, OnlyPayment, RowMove, Exists, StatusOf
  <2> QED BY <1>3, <2>3 DEF v, ClaimWins, RecordDuplicateSuccess
<1>4. CASE ~Claimable(p) /\ UNCHANGED payments
  BY <1>4, TableRests DEF ClaimWins
<1> QED BY <1>2, <1>3, <1>4 DEF Settle, v

(* A statement that settles nothing.                                       *)
LEMMA HarmlessMove ==
    ASSUME NEW p \in PaymentIds, NEW s, Writes(p, s),
           s \in {StatusOf(p), "SUBMITTED", "BLOCKED"}
    PROVE  \A q \in PaymentIds : RowMove(q)
  BY DEF Writes, OnlyPayment, RowMove, Exists, StatusOf

LEMMA BlockMove ==
    ASSUME TypeOK, NEW p \in PaymentIds, NEW b \in BlockReasons, BlockIfSubmitted(p, b)
    PROVE  \A q \in PaymentIds : RowMove(q)
<1>1. CASE RecordBlocked(p, b)
  <2>1. Writes(p, "BLOCKED")
    BY <1>1, StatementWrites
  <2> QED BY <2>1, HarmlessMove
<1> QED BY <1>1, TableRests DEF BlockIfSubmitted

LEMMA RowInTable ==
    ASSUME MoneyInv, NEW w \in Procs, proc[w].pc \in OnARow
    PROVE  proc[w].row \in PaymentIds /\ (proc[w].pc \in Sending => Past(proc[w].row))
<1>1. Located /\ NeverUnclaimed
  BY DEF MoneyInv, Control
<1>2. proc[w].row \in PaymentIds
  BY <1>1 DEF Located, Placed
<1> QED BY <1>1, <1>2 DEF NeverUnclaimed

LEMMA AcceptMove ==
    ASSUME MoneyInv, NEW p \in PaymentIds, NEW s, AcceptTransfer(p, s), Past(p),
           inTransit' \subseteq inTransit
    PROVE  PaystackMove /\ transfer'[p] = s
<1>1. transfer \in [PaymentIds -> TransferStatuses] /\ transfer[p] = "none"
  BY DEF MoneyInv, Control, Surroundings, AcceptTransfer
<1>2. /\ transfer'[p] = s
      /\ \A q \in PaymentIds \ {p} : transfer'[q] = transfer[q]
  BY <1>1 DEF AcceptTransfer
<1>3. events' = events \/ events' = events \cup {<<p, s>>}
  BY DEF AcceptTransfer, Announce
<1>4. "none" \notin Final
  BY DEF Final, Moved, Dead
<1> QED BY <1>1, <1>2, <1>3, <1>4 DEF PaystackMove

LEMMA PostMove ==
    ASSUME MoneyInv, NEW w \in Procs, PostTransfer(w)
    PROVE  MoneyMove
<1> DEFINE p == proc[w].row
           Answer(a) == proc' = [proc EXCEPT ![w].pc = "apply", ![w].answer = a]
<1>1. Located /\ proc[w].pc \in {"post", "repost"}
  BY DEF MoneyInv, Control, PostTransfer
<1>2. p \in PaymentIds /\ Past(p)
  BY <1>1, RowInTable DEF OnARow, Sending
<1>3. UNCHANGED <<payments, notices>>
  BY DEF PostTransfer
<1>4. (\A q \in PaymentIds : RowMove(q)) /\ NoticeMove
  BY <1>3, TableRests DEF NoticeMove
<1>5. ASSUME NEW a, Answer(a), a \in Final => transfer'[p] = a
      PROVE  \A x \in Procs : ProcMove(x)
  <2>1. proc[w] \in Process /\ proc \in [Procs -> Process]
    BY <1>1 DEF Located
  <2>2. /\ proc'[w].row = p /\ proc'[w].answer = a
        /\ \A x \in Procs \ {w} : proc'[x] = proc[x]
    BY <1>5, <2>1 DEF Process
  <2> QED BY <1>2, <1>3, <1>5, <2>2 DEF ProcMove, Past, StatusOf
<1>6. {"ambiguous", "rejected", "duplicate"} \cap Final = {}
  BY DEF Final, Moved, Dead
<1>7. \/ \E s \in TransferStatuses :
            /\ AcceptTransfer(p, s) /\ UNCHANGED inTransit
            /\ \E a \in {s, "ambiguous", "rejected"} : Answer(a)
      \/ /\ Answer("rejected") \/ Answer("duplicate")
         /\ UNCHANGED <<transfer, events, inTransit>>
      \/ /\ Answer("ambiguous") /\ UNCHANGED <<transfer, events>>
         /\ inTransit' \in {inTransit, inTransit \cup {p}}
  BY DEF PostTransfer
<1>8. ASSUME NEW s \in TransferStatuses, AcceptTransfer(p, s), UNCHANGED inTransit,
             NEW a \in {s, "ambiguous", "rejected"}, Answer(a)
      PROVE  PaystackMove /\ \A x \in Procs : ProcMove(x)
  <2>1. PaystackMove /\ transfer'[p] = s
    BY <1>2, <1>8, AcceptMove
  <2>2. a \in Final => transfer'[p] = a
    BY <1>6, <2>1
  <2> QED BY <1>5, <1>8, <2>1, <2>2
<1>9. CASE /\ Answer("rejected") \/ Answer("duplicate")
           /\ UNCHANGED <<transfer, events, inTransit>>
  <2>1. \A x \in Procs : ProcMove(x)
    BY <1>5, <1>6, <1>9
  <2> QED BY <1>4, <1>9, <2>1, PaystackRests DEF MoneyMove
<1>10. CASE /\ Answer("ambiguous") /\ UNCHANGED <<transfer, events>>
            /\ inTransit' \in {inTransit, inTransit \cup {p}}
  <2>1. \A x \in Procs : ProcMove(x)
    BY <1>5, <1>6, <1>10
  <2>2. PaystackMove
    BY <1>2, <1>10 DEF PaystackMove
  <2> QED BY <1>4, <2>1, <2>2 DEF MoneyMove
<1> HIDE DEF p, Answer
<1> QED BY <1>4, <1>7, <1>8, <1>9, <1>10 DEF MoneyMove

(* The guards, the reads and the picks: nobody gets to send by them ...    *)
LEMMA ReadMove ==
    ASSUME MoneyInv,
           \/ \E c \in Callers : SettleJob(c) \/ AttemptGuards(c) \/ FindExisting(c)
           \/ \E c \in Callers, p \in PaymentIds : RetryPayout(c, p)
           \/ \E v \in Checkers, p \in PaymentIds : PickDueRow(v, p)
           \/ SaveBankDetails \/ (\E w \in Procs : Crash(w)) \/ UNCHANGED payoutVars
    PROVE  MoneyMove
<1>1. proc \in [Procs -> Process] /\ Procs = Callers \cup Checkers
  BY DEF MoneyInv, Control, Located, Procs
<1>2. UNCHANGED <<payments, transfer, inTransit, events, notices>>
  BY DEF SettleJob, AttemptGuards, FindExisting, RetryPayout, PickDueRow, SaveBankDetails,
         Crash, payoutVars
<1>3. \A x \in Procs : ProcMove(x)
  <2> SUFFICES ASSUME NEW x \in Procs
               PROVE  proc'[x] = proc[x] \/ proc'[x].pc \notin Sending
    BY DEF ProcMove
  <2>1. proc[x] \in Process
    BY <1>1
  <2>2. CASE \E c \in Callers : SettleJob(c) \/ AttemptGuards(c) \/ FindExisting(c)
    <3>1. PICK c \in Callers : SettleJob(c) \/ AttemptGuards(c) \/ FindExisting(c)
      BY <2>2
    <3>2. c \in Procs /\ proc[c] \in Process
      BY <1>1
    <3>3. CASE Stop(c)
      BY <1>1, <3>2, <3>3 DEF Stop, Idle, Sending
    <3>4. ASSUME NEW step, Goto(c, step), step \notin Sending
          PROVE  proc'[x] = proc[x] \/ proc'[x].pc \notin Sending
      BY <1>1, <2>1, <3>2, <3>4 DEF Goto, Process
    <3>5. ASSUME NEW goal, proc' = [proc EXCEPT ![c].pc = "find", ![c].goal = goal]
          PROVE  proc'[x] = proc[x] \/ proc'[x].pc \notin Sending
      BY <1>1, <2>1, <3>2, <3>5 DEF Process, Sending
    <3>6. ASSUME NEW step, NEW p, step \notin Sending,
                 proc' = [proc EXCEPT ![c].pc = step, ![c].row = p]
          PROVE  proc'[x] = proc[x] \/ proc'[x].pc \notin Sending
      BY <1>1, <2>1, <3>2, <3>6 DEF Process
    <3>7. /\ "guards" \notin Sending /\ "insert" \notin Sending
          /\ "claim" \notin Sending /\ "unblock" \notin Sending
      BY DEF Sending
    <3>8. CASE SettleJob(c)
      BY <3>4, <3>7, <3>8 DEF SettleJob
    <3>9. CASE AttemptGuards(c)
      <4>1. CASE proc' = [proc EXCEPT ![c].pc = "find"]
        BY <1>1, <2>1, <3>2, <4>1 DEF Process, Sending
      <4> QED BY <3>3, <3>5, <3>9, <4>1 DEF AttemptGuards
    <3>10. CASE FindExisting(c)
      <4>1. CASE Goto(c, "insert")
        BY <3>4, <3>7, <4>1
      <4>2. ASSUME NEW p, proc' = [proc EXCEPT ![c].pc = "claim", ![c].row = p]
            PROVE  proc'[x] = proc[x] \/ proc'[x].pc \notin Sending
        BY <3>6, <3>7, <4>2
      <4>3. ASSUME NEW p, proc' = [proc EXCEPT ![c].pc = "unblock", ![c].row = p]
            PROVE  proc'[x] = proc[x] \/ proc'[x].pc \notin Sending
        BY <3>6, <3>7, <4>3
      <4> QED BY <3>3, <3>10, <4>1, <4>2, <4>3 DEF FindExisting
    <3> QED BY <3>1, <3>8, <3>9, <3>10
  <2>3. CASE \/ \E c \in Callers, p \in PaymentIds : RetryPayout(c, p)
             \/ \E v \in Checkers, p \in PaymentIds : PickDueRow(v, p)
    <3>1. CASE \E c \in Callers, p \in PaymentIds : RetryPayout(c, p)
      <4>1. PICK c \in Callers : proc' = [proc EXCEPT ![c].pc = "guards"]
        BY <3>1 DEF RetryPayout, Goto
      <4> QED BY <1>1, <2>1, <4>1 DEF Process, Sending
    <3>2. CASE \E v \in Checkers, p \in PaymentIds : PickDueRow(v, p)
      <4>1. PICK v \in Checkers, p \in PaymentIds :
                \E step \in {"initiate", "verify"} :
                   proc' = [proc EXCEPT ![v].pc = step, ![v].row = p]
        BY <3>2 DEF PickDueRow
      <4> QED BY <1>1, <2>1, <4>1 DEF Process, Sending
    <3> QED BY <2>3, <3>1, <3>2
  <2>4. CASE SaveBankDetails \/ (\E w \in Procs : Crash(w)) \/ UNCHANGED payoutVars
    BY <1>1, <2>1, <2>4 DEF SaveBankDetails, Crash, Stop, Idle, Sending, payoutVars
  <2> QED BY <2>2, <2>3, <2>4
<1> QED BY <1>2, <1>3, PaystackRests, TableRests DEF MoneyMove, NoticeMove

(* ... but only by the re-read of a row, which is SUBMITTED, and by what   *)
(* Paystack answers of it.                                                 *)
LEMMA AskMove ==
    ASSUME MoneyInv, NEW v \in Checkers, RereadRow(v) \/ AskPaystack(v) \/ AskInVain(v)
    PROVE  MoneyMove
<1>1. proc \in [Procs -> Process] /\ Located /\ v \in Procs
  BY DEF MoneyInv, Control, Located, Procs
<1>2. UNCHANGED <<payments, transfer, inTransit, events, notices>>
  BY DEF RereadRow, AskPaystack, AskInVain
<1>3. proc[v] \in Process /\ proc[v].row \in PaymentIds
      /\ (proc[v].pc = "ask" => Past(proc[v].row))
  BY <1>1, RowInTable DEF RereadRow, AskPaystack, AskInVain, OnARow, Sending
<1>4. \A x \in Procs \ {v} : proc'[x] = proc[x]
  BY <1>1 DEF RereadRow, AskPaystack, AskInVain, NotFound, Goto, Stop
<1>5. ProcMove(v)
  <2>1. CASE RereadRow(v)
    BY <1>1, <1>2, <1>3, <2>1 DEF RereadRow, Goto, Stop, Idle, Process, ProcMove, Sending,
                                  StatusOf
  <2>2. CASE AskInVain(v) \/ (AskPaystack(v) /\ NotFound(v))
    BY <1>1, <1>2, <1>3, <2>2 DEF AskInVain, NotFound, Goto, Process, ProcMove, Past, StatusOf
  <2>3. CASE AskPaystack(v) /\ ~NotFound(v)
    BY <1>1, <1>2, <1>3, <2>3 DEF AskPaystack, Process, ProcMove, Past, StatusOf
  <2> QED BY <2>1, <2>2, <2>3
<1>6. \A x \in Procs : ProcMove(x)
  BY <1>4, <1>5 DEF ProcMove
<1> QED BY <1>2, <1>6, PaystackRests, TableRests DEF MoneyMove, NoticeMove

(* The claims that precede a POST.                                         *)
LEMMA ClaimMove ==
    ASSUME MoneyInv, NEW w \in Procs, NEW p, p = proc[w].row, proc[w].pc \in OnARow,
           ClaimForSubmission(p) \/ Unblock(p), NEW step, Goto(w, step), step # "apply",
           UNCHANGED <<transfer, inTransit, events, notices>>
    PROVE  MoneyMove
<1>1. Located /\ TypeOK
  BY DEF MoneyInv, Control, IInv
<1>2. p \in PaymentIds
  BY RowInTable
<1>3. Writes(p, "SUBMITTED")
  BY <1>1, <1>2, StatementWrites
<1>4. \A q \in PaymentIds : RowMove(q)
  BY <1>2, <1>3, HarmlessMove
<1>5. /\ proc'[w].pc = step /\ proc'[w].row = p
      /\ \A x \in Procs \ {w} : proc'[x] = proc[x]
  BY <1>1, GotoFields
<1>6. \A x \in Procs : ProcMove(x)
  BY <1>3, <1>5 DEF ProcMove, Writes
<1> QED BY <1>4, <1>6, PaystackRests DEF MoneyMove, NoticeMove

LEMMA CallerMove ==
    ASSUME MoneyInv, NEW c \in Callers, SettleJob(c) \/ CallerStep(c)
    PROVE  MoneyMove
<1>1. c \in Procs /\ Located /\ TypeOK /\ Answered(c)
  BY DEF Procs, MoneyInv, Control, IInv
<1>2. CASE InsertPayment(c)
  <2>1. UNCHANGED <<transfer, inTransit, events, notices>>
    BY <1>2 DEF InsertPayment
  <2>2. \A x \in Procs : ProcMove(x)
    <3>1. proc[c] \in Process /\ proc \in [Procs -> Process]
      BY <1>1 DEF Located
    <3> QED BY <1>1, <1>2, <3>1 DEF InsertPayment, Stop, Idle, Process, ProcMove, Sending
  <2>3. \A q \in PaymentIds : RowMove(q)
    <3>1. ASSUME NEW p \in PaymentIds, Create(p, Job, "PAYOUT")
          PROVE  \A q \in PaymentIds : RowMove(q)
      BY <1>1, <3>1 DEF TypeOK, Create, NewRow, RowMove, Exists, StatusOf
    <3> QED BY <1>2, <3>1, TableRests DEF InsertPayment
  <2> QED BY <2>1, <2>2, <2>3, PaystackRests DEF MoneyMove, NoticeMove
<1>3. CASE ClaimPayout(c)
  <2>1. UNCHANGED <<transfer, inTransit, events, notices>>
    BY <1>3 DEF ClaimPayout
  <2>2. CASE Stop(c) /\ UNCHANGED payments
    BY <1>1, <2>1, <2>2, IdleSendsNothing, TableRests, PaystackRests DEF MoneyMove, NoticeMove
  <2>3. CASE /\ ClaimForSubmission(proc[c].row) \/ Unblock(proc[c].row)
             /\ Goto(c, AfterClaim(c)) /\ proc[c].pc \in {"claim", "unblock"}
    BY <1>1, <2>1, <2>3, ClaimMove DEF AfterClaim, OnARow
  <2> QED BY <1>3, <2>2, <2>3 DEF ClaimPayout
<1>4. CASE BlockPayment(c)
  <2>1. proc[c].row \in PaymentIds /\ proc[c].goal \in BlockReasons
    BY <1>1, <1>4, PayoutReasons DEF BlockPayment, OnARow, Located, Placed, Process, Goals
  <2>2. \A q \in PaymentIds : RowMove(q)
    BY <1>1, <1>4, <2>1, BlockMove DEF BlockPayment
  <2> QED BY <1>1, <1>4, <2>2, IdleSendsNothing, PaystackRests
          DEF BlockPayment, MoneyMove, NoticeMove
<1>5. CASE ApplyResponse(c)
  <2> DEFINE p == proc[c].row
             a == proc[c].answer
  <2>1. p \in PaymentIds
    BY <1>1, <1>5, RowInTable DEF ApplyResponse, OnARow
  <2>2. a \in Dead /\ Settle(p, VerdictOf(a)) => a \in Final /\ transfer[p] = a
    BY <1>1, <1>5, <2>1 DEF ApplyResponse, Answered, Final
  <2>3. {"PAYSTACK_VALIDATION", "AWAITING_OTP"} \subseteq BlockReasons
    BY PayoutReasons
  <2>4. \/ \E b \in {"PAYSTACK_VALIDATION", "AWAITING_OTP"} : BlockIfSubmitted(p, b)
        \/ a \in Dead /\ Settle(p, VerdictOf(a))
        \/ UNCHANGED payments
    BY <1>5 DEF ApplyResponse
  <2> HIDE DEF p, a
  <2>5. \A q \in PaymentIds : RowMove(q)
    BY <1>1, <2>1, <2>2, <2>3, <2>4, BlockMove, SettleMove, TableRests
  <2> QED BY <1>1, <1>5, <2>5, IdleSendsNothing, PaystackRests
          DEF ApplyResponse, MoneyMove, NoticeMove
<1>6. CASE SettleJob(c) \/ AttemptGuards(c) \/ FindExisting(c)
  BY <1>6, ReadMove
<1>7. CASE PostTransfer(c)
  BY <1>1, <1>7, PostMove
<1> QED BY <1>2, <1>3, <1>4, <1>5, <1>6, <1>7 DEF CallerStep

LEMMA CheckerMove ==
    ASSUME MoneyInv, NEW v \in Checkers, CheckerStep(v)
    PROVE  MoneyMove
<1>1. v \in Procs /\ Located /\ TypeOK /\ Answered(v)
  BY DEF Procs, MoneyInv, Control, IInv
<1>2. CASE InitiatePayout(v)
  <2>1. UNCHANGED <<transfer, inTransit, events, notices>> /\ proc[v].pc \in OnARow
    BY <1>2 DEF InitiatePayout, OnARow
  <2>2. CASE Stop(v) /\ UNCHANGED payments
    BY <1>1, <2>1, <2>2, IdleSendsNothing, TableRests, PaystackRests DEF MoneyMove, NoticeMove
  <2>3. CASE ClaimForSubmission(proc[v].row) /\ Goto(v, "post")
    BY <1>1, <2>1, <2>3, ClaimMove
  <2>4. CASE ClaimForSubmission(proc[v].row) /\ Stop(v)
    <3>1. proc[v].row \in PaymentIds
      BY <1>1, <2>1, RowInTable
    <3>2. Writes(proc[v].row, "SUBMITTED")
      BY <1>1, <2>4, <3>1, StatementWrites
    <3>3. \A q \in PaymentIds : RowMove(q)
      BY <3>1, <3>2, HarmlessMove
    <3> QED BY <1>1, <2>1, <2>4, <3>3, IdleSendsNothing, PaystackRests DEF MoneyMove, NoticeMove
  <2> QED BY <1>2, <2>2, <2>3, <2>4 DEF InitiatePayout
<1>3. CASE ApplyVerification(v)
  <2> DEFINE p == proc[v].row
             a == proc[v].answer
  <2>1. p \in PaymentIds
    BY <1>1, <1>3, RowInTable DEF ApplyVerification, OnARow
  <2>2. a \in Final => transfer[p] = a
    BY <1>1, <1>3, <2>1 DEF ApplyVerification, Answered
  <2>3. {"PAYSTACK_VALIDATION", "AWAITING_OTP"} \subseteq BlockReasons
    BY PayoutReasons
  <2>4. /\ Stop(v) \/ Goto(v, "backoff")
        /\ UNCHANGED <<transfer, inTransit, events>>
        /\ \/ /\ UNCHANGED notices
              /\ \/ \E b \in {"PAYSTACK_VALIDATION", "AWAITING_OTP"} : BlockIfSubmitted(p, b)
                 \/ UNCHANGED payments
           \/ a \in Final /\ Settle(p, VerdictOf(a)) /\ Notify(p, VerdictOf(a))
    BY <1>3 DEF ApplyVerification, Final
  <2>5. \A x \in Procs : ProcMove(x)
    <3>1. CASE Stop(v)
      BY <1>1, <3>1, IdleSendsNothing
    <3>2. CASE Goto(v, "backoff")
      BY <1>1, <3>2, GotoFields, QuietProc DEF Sending
    <3> QED BY <2>4, <3>1, <3>2
  <2> HIDE DEF p, a
  <2>6. (\A q \in PaymentIds : RowMove(q)) /\ NoticeMove
    <3>1. CASE UNCHANGED payments /\ UNCHANGED notices
      BY <3>1, TableRests DEF NoticeMove
    <3>2. ASSUME NEW b \in {"PAYSTACK_VALIDATION", "AWAITING_OTP"}, BlockIfSubmitted(p, b),
                 UNCHANGED notices
          PROVE  (\A q \in PaymentIds : RowMove(q)) /\ NoticeMove
      BY <1>1, <2>1, <2>3, <3>2, BlockMove DEF NoticeMove
    <3>3. CASE a \in Final /\ Settle(p, VerdictOf(a)) /\ Notify(p, VerdictOf(a))
      BY <1>1, <2>1, <2>2, <3>3, SettleMove DEF Notify, NoticeMove
    <3> QED BY <2>4, <3>1, <3>2, <3>3
  <2> QED BY <2>4, <2>5, <2>6, PaystackRests DEF MoneyMove
<1>4. CASE BackOffRow(v)
  <2>1. proc[v].row \in PaymentIds
    BY <1>1, <1>4, RowInTable DEF BackOffRow, OnARow
  <2>2. Writes(proc[v].row, StatusOf(proc[v].row))
    BY <1>1, <1>4, <2>1, StatementWrites DEF BackOffRow
  <2>3. \A q \in PaymentIds : RowMove(q)
    BY <2>1, <2>2, HarmlessMove
  <2> QED BY <1>1, <1>4, <2>3, IdleSendsNothing, PaystackRests
          DEF BackOffRow, MoneyMove, NoticeMove
<1>5. CASE RereadRow(v) \/ AskPaystack(v) \/ AskInVain(v)
  BY <1>5, AskMove
<1>6. CASE PostTransfer(v)
  BY <1>1, <1>6, PostMove
<1> QED BY <1>2, <1>3, <1>4, <1>5, <1>6 DEF CheckerStep

(* Paystack on its own: a late POST, a transfer's progress, a webhook.     *)
LEMMA PaystackStepMove ==
    ASSUME MoneyInv, NEW p \in PaymentIds,
           \/ LateArrival(p)
           \/ \E s \in TransferStatuses : TransferProgresses(p, s) \/ DeliverWebhook(p, s)
    PROVE  MoneyMove
<1>1. /\ TypeOK /\ NeverUnclaimed /\ Announced
      /\ transfer \in [PaymentIds -> TransferStatuses]
      /\ events \subseteq PaymentIds \X WebhookEvents
  BY DEF MoneyInv, Control, Surroundings, IInv
<1>2. UNCHANGED proc
  BY DEF LateArrival, TransferProgresses, DeliverWebhook
<1>3. \A x \in Procs : ProcMove(x)
  BY <1>2 DEF ProcMove
<1>4. CASE LateArrival(p)
  <2>1. Past(p) /\ inTransit' \subseteq inTransit
    BY <1>1, <1>4 DEF LateArrival, NeverUnclaimed
  <2>2. PaystackMove
    <3>1. CASE UNCHANGED <<transfer, events>>
      BY <2>1, <3>1 DEF PaystackMove
    <3>2. ASSUME NEW s, AcceptTransfer(p, s) PROVE PaystackMove
      BY <2>1, <3>2, AcceptMove
    <3> QED BY <1>4, <3>1, <3>2 DEF LateArrival
  <2> QED BY <1>3, <1>4, <2>2, TableRests DEF LateArrival, MoneyMove, NoticeMove
<1>5. ASSUME NEW s \in TransferStatuses, TransferProgresses(p, s)
      PROVE  MoneyMove
  <2>1. transfer[p] \in {"pending", "otp"}
    BY <1>5 DEF TransferProgresses
  <2>2. Past(p) /\ transfer[p] \notin Final
    BY <1>1, <2>1 DEF NeverUnclaimed, Final, Moved, Dead
  <2>3. /\ transfer'[p] = s /\ \A q \in PaymentIds \ {p} : transfer'[q] = transfer[q]
        /\ events' = events \/ events' = events \cup {<<p, s>>}
        /\ UNCHANGED inTransit
    BY <1>1, <1>5 DEF TransferProgresses, Announce
  <2>4. PaystackMove
    BY <2>2, <2>3 DEF PaystackMove
  <2> QED BY <1>3, <1>5, <2>4, TableRests DEF TransferProgresses, MoneyMove, NoticeMove
<1>6. ASSUME NEW s \in TransferStatuses, DeliverWebhook(p, s)
      PROVE  MoneyMove
  <2>1. s \in WebhookEvents /\ transfer[p] = s
    BY <1>1, <1>6 DEF DeliverWebhook, Announced
  <2>2. s \in Final
    BY <2>1 DEF WebhookEvents, Final, Moved, Dead
  <2>3. (\A q \in PaymentIds : RowMove(q)) /\ NoticeMove
    BY <1>1, <1>6, <2>1, <2>2, SettleMove DEF DeliverWebhook, Notify, NoticeMove
  <2> QED BY <1>3, <1>6, <2>3, PaystackRests DEF DeliverWebhook, MoneyMove
<1> QED BY <1>4, <1>5, <1>6

LEMMA TimeMove ==
    ASSUME MoneyInv, NEW p \in PaymentIds, TimePasses(p)
    PROVE  MoneyMove
<1>1. Writes(p, StatusOf(p))
  BY StatementWrites DEF TimePasses, MoneyInv, IInv
<1>2. \A q \in PaymentIds : RowMove(q)
  BY <1>1, HarmlessMove
<1>3. \A x \in Procs : ProcMove(x)
  BY DEF TimePasses, ProcMove
<1> QED BY <1>2, <1>3, PaystackRests DEF TimePasses, MoneyMove, NoticeMove

LEMMA StepMoney == MoneyInv /\ [PayoutNext]_payoutVars => MoneyInv'
<1> SUFFICES ASSUME MoneyInv, [PayoutNext]_payoutVars PROVE MoneyInv'
  OBVIOUS
<1>1. Control' /\ [Next]_ledgerVars
  BY StepControl, StepLedger DEF MoneyInv
<1>2. MoneyMove
  <2>1. ASSUME NEW c \in Callers, SettleJob(c) \/ CallerStep(c) PROVE MoneyMove
    BY <2>1, CallerMove
  <2>2. ASSUME NEW v \in Checkers, CheckerStep(v) PROVE MoneyMove
    BY <2>2, CheckerMove
  <2>3. ASSUME NEW p \in PaymentIds, TimePasses(p) PROVE MoneyMove
    BY <2>3, TimeMove
  <2>4. ASSUME NEW p \in PaymentIds,
               \/ LateArrival(p)
               \/ \E s \in TransferStatuses : TransferProgresses(p, s) \/ DeliverWebhook(p, s)
        PROVE  MoneyMove
    BY <2>4, PaystackStepMove
  <2> QED BY <2>1, <2>2, <2>3, <2>4, ReadMove DEF PayoutNext
<1> QED BY <1>1, <1>2, MoneyKept

LEMMA InitMoney == PayoutInit => MoneyInv
<1> SUFFICES ASSUME PayoutInit PROVE MoneyInv
  OBVIOUS
<1>1. IInv /\ Control
  BY InitIInv, InitControl DEF PayoutInit
<1>2. /\ \A p \in PaymentIds : StatusOf(p) = "ABSENT" /\ transfer[p] = "none"
      /\ \A w \in Procs : proc[w].pc = "idle"
      /\ inTransit = {} /\ events = {} /\ notices = 0
  BY DEF PayoutInit, Init, AbsentRow, StatusOf, Idle
<1> QED BY <1>1, <1>2 DEF MoneyInv, NeverUnclaimed, Sending, Answered, Announced,
           BooksMatchMoney, OfTheJob, ToldOnce, Exists

LEMMA MoneyInvariant == PayoutSpec => []MoneyInv
  BY InitMoney, StepMoney, PTL DEF PayoutSpec

(* So PENDING provably never left: what the reconciler initiates without   *)
(* asking Paystack about it was never posted, by anybody.                  *)
THEOREM PendingWasNeverPosted == PayoutSpec => []PendingNeverLeft
<1>1. MoneyInv => PendingNeverLeft
  <2> SUFFICES ASSUME MoneyInv, NEW p \in PaymentIds, StatusOf(p) = "PENDING"
               PROVE  /\ transfer[p] = "none" /\ p \notin inTransit
                      /\ \A w \in Procs :
                            proc[w].row = p => proc[w].pc \notin {"post", "repost", "apply"}
    BY DEF PendingNeverLeft
  <2>1. ~Past(p)
    BY DEF Past
  <2> QED BY <2>1 DEF MoneyInv, NeverUnclaimed, Sending
<1> QED BY <1>1, MoneyInvariant, PTL

(* What the books say of a settled payout is what happened to its          *)
(* transfer, however late the answers and the webhooks were applied ...    *)
THEOREM PayoutBooksAreRight == PayoutSpec => []BooksMatchMoney
<1>1. MoneyInv => BooksMatchMoney
  BY DEF MoneyInv
<1> QED BY <1>1, MoneyInvariant, PTL

(* ... and the operator is told of it once, when it is recorded as paid.   *)
THEOREM OperatorToldOnce == PayoutSpec => []ToldOnce
<1>1. MoneyInv => ToldOnce
  BY DEF MoneyInv
<1> QED BY <1>1, MoneyInvariant, PTL

-----------------------------------------------------------------------------
(* Who creates rows: a caller at "insert", when the in-flight index has no *)
(* row of the job; who gets to "insert": a caller that found none either,  *)
(* nor one that succeeded.                                                 *)
Reaches(w) == proc'[w].pc # "insert" \/ proc'[w] = proc[w] \/ (w \in Callers /\ Existing = {})

Appears(p) ==
    Exists(p)' => \/ Exists(p)
                  \/ \E c \in Callers : /\ proc[c].pc = "insert" /\ proc'[c].pc = "claim"
                                        /\ \A q \in PaymentIds \ {p} : Exists(q)' => Exists(q)

AttemptMove ==
    /\ \A w \in Procs : Reaches(w)
    /\ \A p \in PaymentIds : Appears(p)

LEMMA AttemptsKept ==
    ASSUME OneCaller, MoneyInv, AttemptInv, AttemptMove, [Next]_ledgerVars
    PROVE  AttemptInv'
<1>1. /\ IInv /\ OfTheJob /\ Procs = Callers \cup Checkers
  BY DEF MoneyInv, Procs
<1>2. \A p \in PaymentIds : Ended(p) => Ended(p)'
  <2> SUFFICES ASSUME NEW p \in PaymentIds, Ended(p) PROVE Ended(p)'
    OBVIOUS
  <2>1. StatusOf(p)' = StatusOf(p)
    BY <1>1, LedgerKeeps DEF Ended, Terminal
  <2> QED BY <2>1 DEF Ended
<1>3. ASSUME NEW w \in Procs, proc'[w].pc = "insert"
      PROVE  w \in Callers /\ \A p \in PaymentIds : Exists(p)' => Ended(p)'
  <2>1. w \in Callers /\ \A q \in PaymentIds : Exists(q) => Ended(q)
    <3>1. CASE proc'[w] = proc[w]
      BY <1>3, <3>1 DEF AttemptInv
    <3>2. CASE w \in Callers /\ Existing = {}
      <4> SUFFICES ASSUME NEW q \in PaymentIds, Exists(q) PROVE Ended(q)
        BY <3>2
      <4>1. TypeOK /\ DuplicateHasCanonical
        BY <1>1 DEF IInv
      <4>2. \A x \in PaymentIds : Exists(x) =>
               StatusOf(x) \notin InFlight \cup {"SUCCEEDED"}
        BY <1>1, <3>2 DEF Existing, PayRows, RowsOf, OfTheJob
      <4>3. StatusOf(q) # "DUPLICATE_SUCCEEDED"
        BY <4>1, <4>2 DEF DuplicateHasCanonical, Exists
      <4>4. StatusOf(q) \in PaymentStatuses
        BY <4>1 DEF TypeOK, StatusOf, Exists, Row
      <4> QED BY <4>2, <4>3, <4>4 DEF PaymentStatuses, Terminal, InFlight, Ended
    <3> QED BY <1>3, <3>1, <3>2 DEF AttemptMove, Reaches
  <2>2. ASSUME NEW p \in PaymentIds, Exists(p)' PROVE Ended(p)'
    <3>1. Exists(p)
      BY <1>3, <2>1, <2>2 DEF AttemptMove, Appears, OneCaller
    <3> QED BY <1>2, <2>1, <3>1
  <2> QED BY <2>1, <2>2
<1>4. ASSUME NEW p \in PaymentIds, NEW q \in PaymentIds, p # q, Exists(p)', Exists(q)'
      PROVE  Ended(p)' \/ Ended(q)'
  <2>1. CASE Exists(p) /\ Exists(q)
    BY <1>2, <1>4, <2>1 DEF AttemptInv
  <2>2. ASSUME NEW x \in PaymentIds, NEW y \in PaymentIds, x # y, ~Exists(x), Exists(x)', Exists(y)'
        PROVE  Ended(y)'
    <3>1. PICK c \in Callers : /\ proc[c].pc = "insert"
                               /\ \A z \in PaymentIds \ {x} : Exists(z)' => Exists(z)
      BY <2>2 DEF AttemptMove, Appears
    <3>2. Exists(y)
      BY <2>2, <3>1
    <3> QED BY <1>1, <1>2, <3>1, <3>2 DEF AttemptInv
  <2> QED BY <1>4, <2>1, <2>2
<1> QED BY <1>3, <1>4 DEF AttemptInv

(* The steps are such moves: one inserts, one gets there, and the others   *)
(* make no row and send nobody to insert one.                              *)
NoneMade == \A p \in PaymentIds : Exists(p)' => Exists(p)

Elsewhere == \A x \in Procs : proc'[x].pc # "insert" \/ proc'[x] = proc[x]

LEMMA NoAttempt == NoneMade /\ Elsewhere => AttemptMove
  BY DEF NoneMade, Elsewhere, AttemptMove, Appears, Reaches

LEMMA WriteMakesNone ==
    ASSUME NEW p \in PaymentIds, NEW s, Writes(p, s)
    PROVE  NoneMade
  BY DEF Writes, OnlyPayment, NoneMade, Exists, StatusOf

LEMMA TableMakesNone == UNCHANGED payments => NoneMade
  BY DEF NoneMade, Exists, StatusOf

LEMMA SettleMakesNone ==
    ASSUME TypeOK, NEW p \in PaymentIds, NEW v \in Verdicts, Settle(p, v)
    PROVE  NoneMade
<1>1. CASE ClaimTerminal(p, v)
  BY <1>1, StatementWrites, WriteMakesNone
<1>2. CASE RecordDuplicateSuccess(p)
  BY <1>2, StatementWrites, WriteMakesNone
<1> QED BY <1>1, <1>2, TableMakesNone DEF Settle

LEMMA BlockMakesNone ==
    ASSUME TypeOK, NEW p \in PaymentIds, NEW b \in BlockReasons, BlockIfSubmitted(p, b)
    PROVE  NoneMade
<1>1. CASE RecordBlocked(p, b)
  BY <1>1, StatementWrites, WriteMakesNone
<1> QED BY <1>1, TableMakesNone DEF BlockIfSubmitted

LEMMA StopElsewhere ==
    ASSUME Located, NEW w \in Procs, Stop(w)
    PROVE  Elsewhere
  BY DEF Stop, Located, Elsewhere, Idle

LEMMA GotoElsewhere ==
    ASSUME Located, NEW w \in Procs, NEW step, step # "insert", Goto(w, step)
    PROVE  Elsewhere
  BY GotoFields DEF Elsewhere

LEMMA StepElsewhere ==
    ASSUME Located, NEW w \in Procs, NEW step, step # "insert", NEW x,
           \/ proc' = [proc EXCEPT ![w].pc = step, ![w].row = x]
           \/ proc' = [proc EXCEPT ![w].pc = step, ![w].goal = x]
           \/ proc' = [proc EXCEPT ![w].pc = step, ![w].answer = x]
           \/ proc' = [proc EXCEPT ![w].pc = step]
    PROVE  Elsewhere
<1>1. proc[w] \in Process /\ proc \in [Procs -> Process]
  BY DEF Located
<1> QED BY <1>1 DEF Elsewhere, Process

LEMMA PostAttempt ==
    ASSUME Located, NEW w \in Procs, PostTransfer(w)
    PROVE  AttemptMove
<1>1. NoneMade
  BY TableMakesNone DEF PostTransfer
<1>2. PICK a : proc' = [proc EXCEPT ![w].pc = "apply", ![w].answer = a]
  BY DEF PostTransfer
<1> QED BY <1>1, <1>2, StepElsewhere, NoAttempt

LEMMA CallerAttempt ==
    ASSUME MoneyInv, NEW c \in Callers, SettleJob(c) \/ CallerStep(c)
    PROVE  AttemptMove
<1>1. c \in Procs /\ Located /\ TypeOK
  BY DEF Procs, MoneyInv, Control, IInv
<1>2. CASE SettleJob(c)
  BY <1>1, <1>2, TableMakesNone, GotoElsewhere, NoAttempt DEF SettleJob
<1>3. CASE AttemptGuards(c)
  <2>1. NoneMade
    BY <1>3, TableMakesNone DEF AttemptGuards
  <2>2. CASE Stop(c)
    BY <1>1, <2>1, <2>2, StopElsewhere, NoAttempt
  <2>3. ASSUME NEW goal, \/ proc' = [proc EXCEPT ![c].pc = "find", ![c].goal = goal]
                         \/ proc' = [proc EXCEPT ![c].pc = "find"]
        PROVE  AttemptMove
    BY <1>1, <2>1, <2>3, StepElsewhere, NoAttempt
  <2> QED BY <1>3, <2>2, <2>3 DEF AttemptGuards
<1>4. CASE FindExisting(c)
  <2>1. NoneMade
    BY <1>4, TableMakesNone DEF FindExisting
  <2>2. CASE Existing = {} /\ Goto(c, "insert")
    <3>1. \A x \in Procs \ {c} : proc'[x] = proc[x]
      BY <1>1, <2>2, GotoFields
    <3> QED BY <1>1, <2>1, <2>2, <3>1 DEF AttemptMove, Appears, Reaches, NoneMade
  <2>3. CASE Stop(c)
    BY <1>1, <2>1, <2>3, StopElsewhere, NoAttempt
  <2>4. ASSUME NEW p, \/ proc' = [proc EXCEPT ![c].pc = "claim", ![c].row = p]
                      \/ proc' = [proc EXCEPT ![c].pc = "unblock", ![c].row = p]
        PROVE  AttemptMove
    BY <1>1, <2>1, <2>4, StepElsewhere, NoAttempt
  <2> QED BY <1>4, <2>2, <2>3, <2>4 DEF FindExisting
<1>5. CASE InsertPayment(c)
  <2>1. CASE Stop(c) /\ UNCHANGED payments
    BY <1>1, <2>1, StopElsewhere, TableMakesNone, NoAttempt
  <2>2. ASSUME NEW p \in PaymentIds, Create(p, Job, "PAYOUT"),
               proc' = [proc EXCEPT ![c].pc = "claim", ![c].row = p]
        PROVE  AttemptMove
    <3>1. proc[c] \in Process /\ proc \in [Procs -> Process]
      BY <1>1 DEF Located
    <3>2. proc[c].pc = "insert" /\ proc'[c].pc = "claim"
      BY <1>1, <1>5, <2>2, <3>1 DEF InsertPayment, Process
    <3>3. \A q \in PaymentIds \ {p} : Exists(q)' => Exists(q)
      BY <1>1, <2>2 DEF Create, TypeOK, Exists, StatusOf
    <3>4. \A q \in PaymentIds : Appears(q)
      BY <3>2, <3>3 DEF Appears
    <3> QED BY <1>1, <2>2, <3>4, StepElsewhere DEF AttemptMove, Elsewhere, Reaches
  <2> QED BY <1>5, <2>1, <2>2 DEF InsertPayment
<1>6. CASE ClaimPayout(c)
  <2>1. CASE Stop(c) /\ UNCHANGED payments
    BY <1>1, <2>1, StopElsewhere, TableMakesNone, NoAttempt
  <2>2. CASE /\ ClaimForSubmission(proc[c].row) \/ Unblock(proc[c].row)
             /\ Goto(c, AfterClaim(c)) /\ proc[c].pc \in {"claim", "unblock"}
    <3>1. proc[c].row \in PaymentIds
      BY <1>1, <2>2, RowInTable DEF OnARow
    <3>2. NoneMade
      BY <1>1, <2>2, <3>1, StatementWrites, WriteMakesNone
    <3>3. AfterClaim(c) # "insert"
      BY DEF AfterClaim
    <3> QED BY <1>1, <2>2, <3>2, <3>3, GotoElsewhere, NoAttempt
  <2> QED BY <1>6, <2>1, <2>2 DEF ClaimPayout
<1>7. CASE BlockPayment(c)
  <2>1. proc[c].row \in PaymentIds /\ proc[c].goal \in BlockReasons
    BY <1>1, <1>7, PayoutReasons DEF BlockPayment, OnARow, Located, Placed, Process, Goals
  <2> QED BY <1>1, <1>7, <2>1, BlockMakesNone, StopElsewhere, NoAttempt DEF BlockPayment
<1>8. CASE ApplyResponse(c)
  <2>1. proc[c].row \in PaymentIds
    BY <1>1, <1>8, RowInTable DEF ApplyResponse, OnARow
  <2>2. {"PAYSTACK_VALIDATION", "AWAITING_OTP"} \subseteq BlockReasons
    BY PayoutReasons
  <2>3. \A a \in Dead : VerdictOf(a) \in Verdicts
    BY VerdictKnown
  <2>4. NoneMade
    BY <1>1, <1>8, <2>1, <2>2, <2>3, BlockMakesNone, SettleMakesNone, TableMakesNone
       DEF ApplyResponse
  <2> QED BY <1>1, <1>8, <2>4, StopElsewhere, NoAttempt DEF ApplyResponse
<1>9. CASE PostTransfer(c)
  BY <1>1, <1>9, PostAttempt
<1> QED BY <1>2, <1>3, <1>4, <1>5, <1>6, <1>7, <1>8, <1>9 DEF CallerStep

LEMMA CheckerAttempt ==
    ASSUME MoneyInv, NEW v \in Checkers, CheckerStep(v)
    PROVE  AttemptMove
<1>1. v \in Procs /\ Located /\ TypeOK
  BY DEF Procs, MoneyInv, Control, IInv
<1>2. proc[v].pc \in OnARow => proc[v].row \in PaymentIds
  BY <1>1, RowInTable
<1>3. CASE InitiatePayout(v)
  <2>1. NoneMade
    BY <1>1, <1>2, <1>3, StatementWrites, WriteMakesNone, TableMakesNone
       DEF InitiatePayout, OnARow
  <2>2. Stop(v) \/ Goto(v, "post")
    BY <1>3 DEF InitiatePayout
  <2> QED BY <1>1, <2>1, <2>2, StopElsewhere, GotoElsewhere, NoAttempt
<1>4. CASE RereadRow(v)
  <2>1. NoneMade /\ (Stop(v) \/ Goto(v, "ask"))
    BY <1>4, TableMakesNone DEF RereadRow
  <2> QED BY <1>1, <2>1, StopElsewhere, GotoElsewhere, NoAttempt
<1>5. CASE AskPaystack(v) \/ AskInVain(v)
  <2>1. NoneMade
    BY <1>5, TableMakesNone DEF AskPaystack, AskInVain
  <2>2. CASE Goto(v, "repost") \/ Goto(v, "backoff")
    BY <1>1, <2>1, <2>2, GotoElsewhere, NoAttempt
  <2>3. ASSUME NEW a, proc' = [proc EXCEPT ![v].pc = "apply", ![v].answer = a]
        PROVE  AttemptMove
    BY <1>1, <2>1, <2>3, StepElsewhere, NoAttempt
  <2> QED BY <1>5, <2>2, <2>3 DEF AskPaystack, AskInVain, NotFound
<1>6. CASE PostTransfer(v)
  BY <1>1, <1>6, PostAttempt
<1>7. CASE ApplyVerification(v)
  <2>1. proc[v].row \in PaymentIds
    BY <1>2, <1>7 DEF ApplyVerification, OnARow
  <2>2. {"PAYSTACK_VALIDATION", "AWAITING_OTP"} \subseteq BlockReasons
    BY PayoutReasons
  <2>3. \A a \in Moved \cup Dead : VerdictOf(a) \in Verdicts
    BY VerdictKnown
  <2>4. NoneMade
    BY <1>1, <1>7, <2>1, <2>2, <2>3, BlockMakesNone, SettleMakesNone, TableMakesNone
       DEF ApplyVerification
  <2>5. Stop(v) \/ Goto(v, "backoff")
    BY <1>7 DEF ApplyVerification
  <2> QED BY <1>1, <2>4, <2>5, StopElsewhere, GotoElsewhere, NoAttempt
<1>8. CASE BackOffRow(v)
  <2>1. NoneMade
    BY <1>1, <1>2, <1>8, StatementWrites, WriteMakesNone DEF BackOffRow, OnARow
  <2> QED BY <1>1, <1>8, <2>1, StopElsewhere, NoAttempt DEF BackOffRow
<1> QED BY <1>3, <1>4, <1>5, <1>6, <1>7, <1>8 DEF CheckerStep

LEMMA StepAttempt ==
    ASSUME MoneyInv, [PayoutNext]_payoutVars
    PROVE  AttemptMove
<1>1. Located /\ TypeOK
  BY DEF MoneyInv, Control, IInv
<1>2. ASSUME NEW c \in Callers, NEW p \in PaymentIds, RetryPayout(c, p)
      PROVE  AttemptMove
  <2>1. NoneMade /\ Goto(c, "guards") /\ c \in Procs
    BY <1>2, TableMakesNone DEF RetryPayout, Procs
  <2> QED BY <1>1, <2>1, GotoElsewhere, NoAttempt
<1>3. ASSUME NEW v \in Checkers, NEW p \in PaymentIds, PickDueRow(v, p)
      PROVE  AttemptMove
  <2>1. NoneMade /\ v \in Procs
    BY <1>3, TableMakesNone DEF PickDueRow, Procs
  <2>2. PICK step \in {"initiate", "verify"} :
            proc' = [proc EXCEPT ![v].pc = step, ![v].row = p]
    BY <1>3 DEF PickDueRow
  <2> QED BY <1>1, <2>1, <2>2, StepElsewhere, NoAttempt
<1>4. ASSUME NEW p \in PaymentIds,
             \/ LateArrival(p) \/ TimePasses(p)
             \/ \E s \in TransferStatuses : TransferProgresses(p, s) \/ DeliverWebhook(p, s)
      PROVE  AttemptMove
  <2>1. UNCHANGED proc
    BY <1>4 DEF LateArrival, TimePasses, TransferProgresses, DeliverWebhook
  <2>2. CASE UNCHANGED payments
    BY <2>1, <2>2, TableMakesNone, NoAttempt DEF Elsewhere
  <2>3. CASE TimePasses(p)
    <3>1. Writes(p, StatusOf(p))
      BY <1>1, <2>3, StatementWrites DEF TimePasses
    <3> QED BY <2>1, <3>1, WriteMakesNone, NoAttempt DEF Elsewhere
  <2>4. ASSUME NEW s \in TransferStatuses, DeliverWebhook(p, s) PROVE AttemptMove
    <3>1. s \in Moved \cup Dead
      BY <2>4 DEF DeliverWebhook, MoneyInv, Control, Surroundings, WebhookEvents, Moved, Dead
    <3>2. VerdictOf(s) \in Verdicts
      BY <3>1, VerdictKnown
    <3> QED BY <1>1, <2>1, <2>4, <3>2, SettleMakesNone, NoAttempt DEF DeliverWebhook, Elsewhere
  <2> QED BY <1>4, <2>2, <2>3, <2>4 DEF LateArrival, TransferProgresses
<1>5. CASE SaveBankDetails \/ UNCHANGED payoutVars
  BY <1>5, TableMakesNone, NoAttempt DEF SaveBankDetails, payoutVars, Elsewhere
<1>6. ASSUME NEW w \in Procs, Crash(w) PROVE AttemptMove
  BY <1>1, <1>6, TableMakesNone, StopElsewhere, NoAttempt DEF Crash
<1> QED BY <1>2, <1>3, <1>4, <1>5, <1>6, CallerAttempt, CheckerAttempt DEF PayoutNext

LEMMA AttemptInvariant ==
    ASSUME OneCaller
    PROVE  PayoutSpec => [](MoneyInv /\ AttemptInv)
<1>1. PayoutInit => MoneyInv /\ AttemptInv
  <2>1. PayoutInit => AttemptInv
    BY DEF PayoutInit, Init, AttemptInv, AbsentRow, Exists, StatusOf, Idle
  <2> QED BY <2>1, InitMoney
<1>2. MoneyInv /\ AttemptInv /\ [PayoutNext]_payoutVars => (MoneyInv /\ AttemptInv)'
  BY OneCaller, StepMoney, StepAttempt, StepLedger, AttemptsKept DEF MoneyInv
<1> QED BY <1>1, <1>2, PTL DEF PayoutSpec

(* Of all the transfers ever sent for a job, at most one may still move    *)
(* money, or has: with one run of attemptPayout at a time, which is what   *)
(* the check of retryPayout and the buttons make the normal case, whatever *)
(* the reconcilers, the webhooks and crashes do beside it.                 *)
THEOREM OneTransferLives ==
    ASSUME OneCaller
    PROVE  PayoutSpec => []OneLiveTransfer
<1>1. MoneyInv /\ AttemptInv => OneLiveTransfer
  <2> SUFFICES ASSUME MoneyInv, AttemptInv, NEW p \in PaymentIds, NEW q \in PaymentIds,
                      Movable(p), Movable(q)
               PROVE  p = q
    BY DEF OneLiveTransfer
  <2>1. ASSUME NEW x \in PaymentIds, Movable(x)
        PROVE  Exists(x) /\ ~Ended(x)
    <3>1. transfer[x] # "none" /\ transfer[x] \notin Dead
      BY <2>1 DEF Movable, Moved, Dead
    <3>2. Exists(x)
      BY <3>1 DEF MoneyInv, NeverUnclaimed, Past, Exists, StatusOf
    <3> QED BY <3>1, <3>2 DEF MoneyInv, BooksMatchMoney, Ended
  <2> QED BY <2>1 DEF AttemptInv
<1> QED BY <1>1, AttemptInvariant, OneCaller, PTL

=============================================================================
