--------------------------- MODULE PaymentLedger ---------------------------
(***************************************************************************)
(* The Payment table and PaymentLedgerService, the only code that moves a  *)
(* payment from one status to another.  One action per statement the       *)
(* service commits: each is a conditional UPDATE whose WHERE clause is the *)
(* action's guard, or an INSERT guarded by the two partial unique indexes  *)
(* of the payment_model migration.                                         *)
(*                                                                         *)
(* Taken alone, the module lets any caller issue any statement at any      *)
(* time: request handlers, webhook deliveries and reconciler passes of any *)
(* number of instances.  Payout and Collection EXTEND it with the callers  *)
(* the code has, and are checked to issue nothing else.                    *)
(***************************************************************************)
EXTENDS Naturals, FiniteSets

CONSTANTS
    PaymentIds,        \* ids of Payment rows
    PaymentTypes,      \* the payment types under study
    Requests,          \* rescue requests
    BlockReasons,      \* PaymentBlockReason
    NoReason,          \* blockReason NULL
    NoRequest,         \* the request of a row that does not exist yet
    NoType,            \* ... and its type
    VerifyAttemptCap   \* bound on verifyAttempts

ASSUME CapAssumption == VerifyAttemptCap \in Nat
ASSUME ReasonAssumption == NoReason \notin BlockReasons
ASSUME AbsenceAssumption == NoRequest \notin Requests /\ NoType \notin PaymentTypes
ASSUME TypesAssumption == PaymentTypes \subseteq {"DEPOSIT", "BALANCE", "PAYOUT", "REFUND"}

VARIABLE payments      \* the Payment table: [PaymentIds -> Row]

ledgerVars == <<payments>>

-----------------------------------------------------------------------------
(* Statuses the in-flight index covers, and the ones a claim never leaves. *)
InFlight == {"PENDING", "SUBMITTED", "BLOCKED"}
Terminal == {"SUCCEEDED", "FAILED", "REVERSED", "DUPLICATE_SUCCEEDED"}
PaymentStatuses == InFlight \cup Terminal

(* What a webhook or a verification may ask claimTerminal to record.       *)
Verdicts == {"SUCCEEDED", "FAILED", "REVERSED"}

(* A row; "ABSENT" stands for an id no row has been inserted under.        *)
Row == [ request        : Requests \cup {NoRequest},
         type           : PaymentTypes \cup {NoType},
         status         : PaymentStatuses \cup {"ABSENT"},
         blockReason    : BlockReasons \cup {NoReason},
         checkoutUrl    : BOOLEAN,    \* a checkout link is stored
         verifyDue      : BOOLEAN,    \* verifyAfter has passed
         verifyAttempts : 0..VerifyAttemptCap ]

AbsentRow ==
    [ request |-> NoRequest, type |-> NoType, status |-> "ABSENT",
      blockReason |-> NoReason, checkoutUrl |-> FALSE, verifyDue |-> FALSE,
      verifyAttempts |-> 0 ]

(* The row an INSERT leaves behind: the schema's defaults make it due for  *)
(* verification the instant it is committed.                               *)
NewRow(r, t) ==
    [ request |-> r, type |-> t, status |-> "PENDING",
      blockReason |-> NoReason, checkoutUrl |-> FALSE, verifyDue |-> TRUE,
      verifyAttempts |-> 0 ]

StatusOf(p) == payments[p].status
Exists(p) == StatusOf(p) # "ABSENT"
SameSlot(p, q) ==
    /\ payments[p].request = payments[q].request
    /\ payments[p].type = payments[q].type

(* The rows of one request and type.                                       *)
RowsOf(r, t) ==
    {p \in PaymentIds : Exists(p) /\ payments[p].request = r /\ payments[p].type = t}

-----------------------------------------------------------------------------
(* one_inflight_payment_per_type: no other row of the slot is in flight.   *)
InFlightIndexWithoutBlocked(r, t) ==                            \* mutant
    \A q \in RowsOf(r, t) : StatusOf(q) \notin InFlight \ {"BLOCKED"}

InFlightIndexAllows(r, t) ==
    \A q \in RowsOf(r, t) : StatusOf(q) \notin InFlight

(* one_succeeded_payment_per_type: no other row of p's slot succeeded.     *)
SucceededIndexDropped(p) == Exists(p)                           \* mutant

SucceededIndexAllows(p) ==
    \A q \in PaymentIds \ {p} :
        Exists(q) /\ SameSlot(p, q) => StatusOf(q) # "SUCCEEDED"

-----------------------------------------------------------------------------
Init == payments = [p \in PaymentIds |-> AbsentRow]

(* create: the row is committed before anything leaves, PENDING and due at *)
(* once, so that a crash right after the INSERT leaves it chaseable.       *)
Create(p, r, t) ==
    /\ ~Exists(p)
    /\ InFlightIndexAllows(r, t)
    /\ payments' = [payments EXCEPT ![p] = NewRow(r, t)]

(* claimForSubmission: the claim that precedes the HTTP call.              *)
ClaimForSubmission(p) ==
    /\ StatusOf(p) = "PENDING"
    /\ payments' = [payments EXCEPT ![p].status = "SUBMITTED",
                                    ![p].verifyDue = FALSE]

(* recordRejection: a definitive refusal by the provider.                  *)
RecordRejectionOfAnyRow(p, b) ==                                \* mutant
    /\ Exists(p)
    /\ payments' = [payments EXCEPT ![p].status = "FAILED",
                                    ![p].blockReason = b]

RecordRejection(p, b) ==
    /\ StatusOf(p) = "SUBMITTED"
    /\ payments' = [payments EXCEPT ![p].status = "FAILED",
                                    ![p].blockReason = b]

(* recordBlocked: cannot proceed until its condition is resolved.          *)
RecordBlocked(p, b) ==
    /\ StatusOf(p) = "SUBMITTED"
    /\ payments' = [payments EXCEPT ![p].status = "BLOCKED",
                                    ![p].blockReason = b]

(* unblock: back to SUBMITTED, never to a terminal status.                 *)
UnblockKeepingReason(p) ==                                      \* mutant
    /\ StatusOf(p) = "BLOCKED"
    /\ payments' = [payments EXCEPT ![p].status = "SUBMITTED",
                                    ![p].verifyDue = FALSE]

Unblock(p) ==
    /\ StatusOf(p) = "BLOCKED"
    /\ payments' = [payments EXCEPT ![p].status = "SUBMITTED",
                                    ![p].blockReason = NoReason,
                                    ![p].verifyDue = FALSE]

(* claimTerminal: the only way to SUCCEEDED.  A success the index refuses  *)
(* is quarantined by recordDuplicateSuccess, and the caller is told its    *)
(* claim did not win.                                                      *)
ClaimableEvenSettled(p) ==                                      \* mutant
    StatusOf(p) \in {"SUBMITTED", "BLOCKED", "SUCCEEDED"}

Claimable(p) == StatusOf(p) \in {"SUBMITTED", "BLOCKED"}

ClaimTerminal(p, verdict) ==
    /\ Claimable(p)
    /\ verdict = "SUCCEEDED" => SucceededIndexAllows(p)
    /\ payments' = [payments EXCEPT ![p].status = verdict,
                                    ![p].blockReason = NoReason]

RecordDuplicateSuccess(p) ==
    /\ Claimable(p)
    /\ ~SucceededIndexAllows(p)
    /\ payments' = [payments EXCEPT ![p].status = "DUPLICATE_SUCCEEDED",
                                    ![p].blockReason = NoReason]

BackOffUncapped(p) ==                                           \* mutant
    /\ Exists(p)
    /\ payments' = [payments EXCEPT ![p].verifyDue = FALSE,
                                    ![p].verifyAttempts = @ + 1]

(* backOff: no status guard -- it may touch a row that has just settled.   *)
BackOff(p) ==
    /\ Exists(p)
    /\ payments' = [payments EXCEPT
          ![p].verifyDue = FALSE,
          ![p].verifyAttempts = IF @ < VerifyAttemptCap THEN @ + 1 ELSE @]

(* The checkout link of an initialize response, stored by the callers with *)
(* no status guard either.                                                 *)
StoreCheckoutUrl(p) ==
    /\ Exists(p)
    /\ payments' = [payments EXCEPT ![p].checkoutUrl = TRUE]

(* Time passes verifyAfter.                                                *)
VerifyAfterPasses(p) ==
    /\ StatusOf(p) \in {"PENDING", "SUBMITTED"}
    /\ ~payments[p].verifyDue
    /\ payments' = [payments EXCEPT ![p].verifyDue = TRUE]

LedgerStep(p) ==
    \/ \E r \in Requests, t \in PaymentTypes : Create(p, r, t)
    \/ ClaimForSubmission(p)
    \/ \E b \in BlockReasons \cup {NoReason} : RecordRejection(p, b)
    \/ \E b \in BlockReasons : RecordBlocked(p, b)
    \/ Unblock(p)
    \/ \E v \in Verdicts : ClaimTerminal(p, v)
    \/ RecordDuplicateSuccess(p)
    \/ BackOff(p)
    \/ StoreCheckoutUrl(p)
    \/ VerifyAfterPasses(p)

Next == \E p \in PaymentIds : LedgerStep(p)

Spec == Init /\ [][Next]_ledgerVars

-----------------------------------------------------------------------------
(* Every row has the shape of the Prisma model.                            *)
TypeOK == payments \in [PaymentIds -> Row]

(* Whatever callers do, no slot ever holds two attempts that could both    *)
(* still move money: BLOCKED counts, and the way back from BLOCKED to      *)
(* SUBMITTED must not slip past an attempt made meanwhile (the comment of  *)
(* the payment_model migration, "the double-pay by a side door").          *)
OneInFlight ==
    \A p, q \in PaymentIds :
        StatusOf(p) \in InFlight /\ StatusOf(q) \in InFlight /\ SameSlot(p, q)
            => p = q

(* A quarantined success never stands alone: the payment it duplicates is  *)
(* there, of the same request and type, and is still SUCCEEDED -- so       *)
(* derived flags such as depositPaid never lose the slot.                  *)
DuplicateHasCanonical ==
    \A p \in PaymentIds : StatusOf(p) = "DUPLICATE_SUCCEEDED" =>
        \E q \in PaymentIds : StatusOf(q) = "SUCCEEDED" /\ SameSlot(p, q)

(* A blocked row says what it is blocked on; nothing in flight carries a   *)
(* stale reason, which the retry rule (isRetryablePayoutState) reads.      *)
ReasonMatchesStatus ==
    \A p \in PaymentIds :
        /\ StatusOf(p) = "BLOCKED" => payments[p].blockReason \in BlockReasons
        /\ StatusOf(p) \in {"PENDING", "SUBMITTED"} =>
               payments[p].blockReason = NoReason

(* No statement moves a payment out of a terminal status, changes whose    *)
(* payment it is, or takes back a stored checkout link: the failed row     *)
(* stays as history and a retry is a new row.                              *)
HistoryIsFinal ==
    [][\A p \in PaymentIds :
          Exists(p) =>
             /\ StatusOf(p) \in Terminal => StatusOf(p)' = StatusOf(p)
             /\ payments'[p].request = payments[p].request
             /\ payments'[p].type = payments[p].type
             /\ payments[p].checkoutUrl => payments'[p].checkoutUrl]_ledgerVars

-----------------------------------------------------------------------------
(* The promise of CanonicalPayment, read off the statuses.                 *)
Slots == Requests \X PaymentTypes
LiveIn(s) == {p \in RowsOf(s[1], s[2]) : StatusOf(p) \in InFlight}
WonIn(s)  == {p \in RowsOf(s[1], s[2]) : StatusOf(p) = "SUCCEEDED"}

Canonical == INSTANCE CanonicalPayment WITH
    Attempts <- PaymentIds,
    live     <- [s \in Slots |-> LiveIn(s)],
    winners  <- [s \in Slots |-> WonIn(s)],
    opened   <- {p \in PaymentIds : Exists(p)}

(* The ledger implements it: a slot is won once and for all, by an attempt *)
(* that was the only one under way.                                        *)
ImplementsCanonical == Canonical!Spec
=============================================================================
