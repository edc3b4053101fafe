------------------------ MODULE PaymentLedgerProofs ------------------------
(***************************************************************************)
(* Theorems about PaymentLedger, for every set of rows, requests, payment  *)
(* types and block reasons.                                                *)
(*                                                                         *)
(* The ten statements of the ledger are first reduced to six shapes of a   *)
(* step (StepShape); the invariants and the refinement are then proved     *)
(* shape by shape.                                                         *)
(***************************************************************************)
EXTENDS PaymentLedger, TLAPS

(* The shapes: what a statement on row p may do to it.                     *)
Opens(p, r, t) ==
    /\ ~Exists(p) /\ InFlightIndexAllows(r, t)
    /\ payments'[p].request = r /\ payments'[p].type = t
    /\ payments'[p].status = "PENDING" /\ payments'[p].blockReason = NoReason

Keeps(p) ==
    /\ Exists(p)
    /\ payments'[p].request = payments[p].request
    /\ payments'[p].type = payments[p].type
    /\ payments'[p].checkoutUrl \in {payments[p].checkoutUrl, TRUE}

Stays(p) ==
    /\ payments'[p].status = payments[p].status
    /\ payments'[p].blockReason = payments[p].blockReason

Moves(p) ==
    /\ payments[p].status \in InFlight
    /\ \/ payments'[p].status = "BLOCKED" /\ payments'[p].blockReason \in BlockReasons
       \/ payments'[p].status = "SUBMITTED" /\ payments'[p].blockReason = NoReason

Wins(p) ==
    /\ payments[p].status \in InFlight /\ SucceededIndexAllows(p)
    /\ payments'[p].status = "SUCCEEDED"

Duplicates(p) ==
    /\ payments[p].status \in InFlight /\ ~SucceededIndexAllows(p)
    /\ payments'[p].status = "DUPLICATE_SUCCEEDED"

Ends(p) ==
    /\ payments[p].status \in InFlight
    /\ payments'[p].status \in {"FAILED", "REVERSED"}

Shape(p) ==
    \/ \E r \in Requests, t \in PaymentTypes : Opens(p, r, t)
    \/ Keeps(p) /\ (Stays(p) \/ Moves(p) \/ Wins(p) \/ Duplicates(p) \/ Ends(p))

OnlyRow(p) == TypeOK' /\ \A q \in PaymentIds \ {p} : payments'[q] = payments[q]

(* Replacing one row of the table by another row.                          *)
LEMMA OneRow ==
    ASSUME TypeOK, NEW p \in PaymentIds, NEW row \in Row,
           payments' = [payments EXCEPT ![p] = row]
    PROVE  OnlyRow(p) /\ payments'[p] = row
  BY DEF TypeOK, OnlyRow

(* Every statement changes its own row only, in one of the shapes.  That   *)
(* claimForSubmission leaves no reason behind rests on there being none.   *)
LEMMA StepShape ==
    ASSUME TypeOK, ReasonMatchesStatus, NEW p \in PaymentIds, LedgerStep(p)
    PROVE  OnlyRow(p) /\ Shape(p)
<1> USE CapAssumption
<1>a. payments[p] \in Row
  BY DEF TypeOK
<1>1. ASSUME NEW r \in Requests, NEW t \in PaymentTypes, Create(p, r, t)
      PROVE  OnlyRow(p) /\ Shape(p)
  <2> DEFINE row == NewRow(r, t)
  <2>1. row \in Row
    BY DEF Row, NewRow, PaymentStatuses, InFlight
  <2>2. payments' = [payments EXCEPT ![p] = row]
    BY <1>1 DEF Create
  <2>3. OnlyRow(p) /\ payments'[p] = row
    BY <2>1, <2>2, OneRow
  <2>4. Opens(p, r, t)
    BY <1>1, <2>3 DEF Create, Opens, NewRow
  <2> QED
    BY <2>3, <2>4 DEF Shape
<1>2. CASE ClaimForSubmission(p)
  <2> DEFINE row == [payments[p] EXCEPT !.status = "SUBMITTED", !.verifyDue = FALSE]
  <2>1. row \in Row
    BY <1>a DEF Row, PaymentStatuses, InFlight
  <2>2. payments' = [payments EXCEPT ![p] = row]
    BY <1>2 DEF ClaimForSubmission, TypeOK
  <2>3. OnlyRow(p) /\ payments'[p] = row
    BY <2>1, <2>2, OneRow
  <2>4. payments[p].status = "PENDING"
    BY <1>2 DEF ClaimForSubmission, StatusOf
  <2>5. /\ row.status = "SUBMITTED" /\ row.blockReason = payments[p].blockReason
        /\ row.request = payments[p].request /\ row.type = payments[p].type
        /\ row.checkoutUrl = payments[p].checkoutUrl
    BY <1>a DEF Row
  <2>6. payments[p].blockReason = NoReason
    BY <2>4 DEF ReasonMatchesStatus, StatusOf
  <2> HIDE DEF row
  <2>7. Keeps(p) /\ Moves(p)
    BY <2>3, <2>4, <2>5, <2>6
       DEF Keeps, Moves, InFlight, Exists, StatusOf
  <2> QED
    BY <2>3, <2>7 DEF Shape
<1>3. ASSUME NEW b \in BlockReasons \cup {NoReason}, RecordRejection(p, b)
      PROVE  OnlyRow(p) /\ Shape(p)
  <2> DEFINE row == [payments[p] EXCEPT !.status = "FAILED", !.blockReason = b]
  <2>1. row \in Row
    BY <1>a DEF Row, PaymentStatuses, Terminal
  <2>2. payments' = [payments EXCEPT ![p] = row]
    BY <1>3 DEF RecordRejection, TypeOK
  <2>3. OnlyRow(p) /\ payments'[p] = row
    BY <2>1, <2>2, OneRow
  <2>4. payments[p].status = "SUBMITTED"
    BY <1>3 DEF RecordRejection, StatusOf
  <2>5. /\ row.status = "FAILED" /\ row.blockReason = b
        /\ row.request = payments[p].request /\ row.type = payments[p].type
        /\ row.checkoutUrl = payments[p].checkoutUrl
    BY <1>a DEF Row
  <2> HIDE DEF row
  <2>7. Keeps(p) /\ Ends(p)
    BY <2>3, <2>4, <2>5
       DEF Keeps, Ends, InFlight, Exists, StatusOf
  <2> QED
    BY <2>3, <2>7 DEF Shape
<1>4. ASSUME NEW b \in BlockReasons, RecordBlocked(p, b)
      PROVE  OnlyRow(p) /\ Shape(p)
  <2> DEFINE row == [payments[p] EXCEPT !.status = "BLOCKED", !.blockReason = b]
  <2>1. row \in Row
    BY <1>a DEF Row, PaymentStatuses, InFlight
  <2>2. payments' = [payments EXCEPT ![p] = row]
    BY <1>4 DEF RecordBlocked, TypeOK
  <2>3. OnlyRow(p) /\ payments'[p] = row
    BY <2>1, <2>2, OneRow
  <2>4. payments[p].status = "SUBMITTED"
    BY <1>4 DEF RecordBlocked, StatusOf
  <2>5. /\ row.status = "BLOCKED" /\ row.blockReason = b
        /\ row.request = payments[p].request /\ row.type = payments[p].type
        /\ row.checkoutUrl = payments[p].checkoutUrl
    BY <1>a DEF Row
  <2> HIDE DEF row
  <2>7. Keeps(p) /\ Moves(p)
    BY <2>3, <2>4, <2>5
       DEF Keeps, Moves, InFlight, Exists, StatusOf
  <2> QED
    BY <2>3, <2>7 DEF Shape
<1>5. CASE Unblock(p)
  <2> DEFINE row == [payments[p] EXCEPT !.status = "SUBMITTED",
                        !.blockReason = NoReason, !.verifyDue = FALSE]
  <2>1. row \in Row
    BY <1>a DEF Row, PaymentStatuses, InFlight
  <2>2. payments' = [payments EXCEPT ![p] = row]
    BY <1>5 DEF Unblock, TypeOK
  <2>3. OnlyRow(p) /\ payments'[p] = row
    BY <2>1, <2>2, OneRow
  <2>4. payments[p].status = "BLOCKED"
    BY <1>5 DEF Unblock, StatusOf
  <2>5. /\ row.status = "SUBMITTED" /\ row.blockReason = NoReason
        /\ row.request = payments[p].request /\ row.type = payments[p].type
        /\ row.checkoutUrl = payments[p].checkoutUrl
    BY <1>a DEF Row
  <2> HIDE DEF row
  <2>7. Keeps(p) /\ Moves(p)
    BY <2>3, <2>4, <2>5
       DEF Keeps, Moves, InFlight, Exists, StatusOf
  <2> QED
    BY <2>3, <2>7 DEF Shape
<1>6. ASSUME NEW v \in Verdicts, ClaimTerminal(p, v)
      PROVE  OnlyRow(p) /\ Shape(p)
  <2> DEFINE row == [payments[p] EXCEPT !.status = v, !.blockReason = NoReason]
  <2>1. row \in Row
    BY <1>a DEF Row, PaymentStatuses, Terminal, Verdicts
  <2>2. payments' = [payments EXCEPT ![p] = row]
    BY <1>6 DEF ClaimTerminal, TypeOK
  <2>3. OnlyRow(p) /\ payments'[p] = row
    BY <2>1, <2>2, OneRow
  <2>4. payments[p].status \in InFlight /\ (v = "SUCCEEDED" => SucceededIndexAllows(p))
    BY <1>6 DEF ClaimTerminal, Claimable, StatusOf, InFlight
  <2>5. /\ row.status = v /\ row.blockReason = NoReason
        /\ row.request = payments[p].request /\ row.type = payments[p].type
        /\ row.checkoutUrl = payments[p].checkoutUrl
    BY <1>a DEF Row
  <2> HIDE DEF row
  <2>7. Keeps(p) /\ (Wins(p) \/ Ends(p))
    BY <2>3, <2>4, <2>5
       DEF Keeps, Wins, Ends, Verdicts, InFlight, Exists, StatusOf
  <2> QED
    BY <2>3, <2>7 DEF Shape
<1>7. CASE RecordDuplicateSuccess(p)
  <2> DEFINE row == [payments[p] EXCEPT !.status = "DUPLICATE_SUCCEEDED",
                                        !.blockReason = NoReason]
  <2>1. row \in Row
    BY <1>a DEF Row, PaymentStatuses, Terminal
  <2>2. payments' = [payments EXCEPT ![p] = row]
    BY <1>7 DEF RecordDuplicateSuccess, TypeOK
  <2>3. OnlyRow(p) /\ payments'[p] = row
    BY <2>1, <2>2, OneRow
  <2>4. payments[p].status \in InFlight /\ ~SucceededIndexAllows(p)
    BY <1>7 DEF RecordDuplicateSuccess, Claimable, StatusOf, InFlight
  <2>5. /\ row.status = "DUPLICATE_SUCCEEDED" /\ row.blockReason = NoReason
        /\ row.request = payments[p].request /\ row.type = payments[p].type
        /\ row.checkoutUrl = payments[p].checkoutUrl
    BY <1>a DEF Row
  <2> HIDE DEF row
  <2>7. Keeps(p) /\ Duplicates(p)
    BY <2>3, <2>4, <2>5
       DEF Keeps, Duplicates, InFlight, Exists, StatusOf
  <2> QED
    BY <2>3, <2>7 DEF Shape
<1>8. CASE BackOff(p)
  <2> DEFINE n == IF payments[p].verifyAttempts < VerifyAttemptCap
                    THEN payments[p].verifyAttempts + 1
                    ELSE payments[p].verifyAttempts
             row == [payments[p] EXCEPT !.verifyDue = FALSE, !.verifyAttempts = n]
  <2>0. n \in 0..VerifyAttemptCap
    BY <1>a DEF Row
  <2>2. payments' = [payments EXCEPT ![p] = row]
    BY <1>8 DEF BackOff, TypeOK
  <2> HIDE DEF n
  <2>1. row \in Row
    BY <1>a, <2>0 DEF Row
  <2>3. OnlyRow(p) /\ payments'[p] = row
    BY <2>1, <2>2, OneRow
  <2>4. /\ row.status = payments[p].status
        /\ row.blockReason = payments[p].blockReason
        /\ row.request = payments[p].request /\ row.type = payments[p].type
        /\ row.checkoutUrl = payments[p].checkoutUrl
    BY <1>a DEF Row
  <2> HIDE DEF row
  <2>5. Keeps(p) /\ Stays(p)
    BY <1>8, <2>3, <2>4 DEF BackOff, Keeps, Stays
  <2> QED
    BY <2>3, <2>5 DEF Shape
<1>9. CASE StoreCheckoutUrl(p)
  <2> DEFINE row == [payments[p] EXCEPT !.checkoutUrl = TRUE]
  <2>1. row \in Row
    BY <1>a DEF Row
  <2>2. payments' = [payments EXCEPT ![p] = row]
    BY <1>9 DEF StoreCheckoutUrl, TypeOK
  <2>3. OnlyRow(p) /\ payments'[p] = row
    BY <2>1, <2>2, OneRow
  <2>4. Keeps(p) /\ Stays(p)
    BY <1>a, <1>9, <2>3 DEF StoreCheckoutUrl, Keeps, Stays, Row
  <2> QED
    BY <2>3, <2>4 DEF Shape
<1>10. CASE VerifyAfterPasses(p)
  <2> DEFINE row == [payments[p] EXCEPT !.verifyDue = TRUE]
  <2>1. row \in Row
    BY <1>a DEF Row
  <2>2. payments' = [payments EXCEPT ![p] = row]
    BY <1>10 DEF VerifyAfterPasses, TypeOK
  <2>3. OnlyRow(p) /\ payments'[p] = row
    BY <2>1, <2>2, OneRow
  <2>4. Keeps(p) /\ Stays(p)
    BY <1>a, <1>10, <2>3 DEF VerifyAfterPasses, Keeps, Stays, Exists, StatusOf, Row
  <2> QED
    BY <2>3, <2>4 DEF Shape
<1> QED
  BY <1>1, <1>2, <1>3, <1>4, <1>5, <1>6, <1>7, <1>8, <1>9, <1>10 DEF LedgerStep

-----------------------------------------------------------------------------
(* The inductive invariant.  Apart from the properties themselves it says  *)
(* that an inserted row belongs to a slot, which the refinement needs.     *)
SlotKnown ==
    \A p \in PaymentIds : Exists(p) =>
        payments[p].request \in Requests /\ payments[p].type \in PaymentTypes

IInv ==
    /\ TypeOK
    /\ SlotKnown
    /\ OneInFlight
    /\ DuplicateHasCanonical
    /\ ReasonMatchesStatus

LEMMA InitIInv == Init => IInv
  BY CapAssumption
     DEF Init, IInv, TypeOK, SlotKnown, OneInFlight, DuplicateHasCanonical,
         ReasonMatchesStatus, Row, AbsentRow, Exists, StatusOf, InFlight

(* A row inserted or moved within the in-flight statuses meets no other    *)
(* one in flight; a row that leaves them cannot break the rule.            *)
LEMMA OneInFlightStep ==
    ASSUME TypeOK, OneInFlight, NEW p \in PaymentIds, OnlyRow(p), Shape(p)
    PROVE  OneInFlight'
<1> SUFFICES ASSUME NEW q \in PaymentIds, q # p,
                    payments'[p].status \in InFlight,
                    payments'[q].status \in InFlight,
                    payments'[p].request = payments'[q].request,
                    payments'[p].type = payments'[q].type
             PROVE  FALSE
  BY DEF OneInFlight, StatusOf, SameSlot, OnlyRow
<1>1. payments'[q] = payments[q]
  BY DEF OnlyRow
<1>2. CASE \E r \in Requests, t \in PaymentTypes : Opens(p, r, t)
  BY <1>1, <1>2 DEF Opens, InFlightIndexAllows, RowsOf, Exists, StatusOf, InFlight
<1>3. CASE Keeps(p)
  <2>1. payments[p].status \in InFlight
    BY <1>3, Shape(p)
       DEF Shape, Opens, Keeps, Stays, Moves, Wins, Duplicates, Ends, Exists, InFlight
  <2> QED
    BY <1>1, <1>3, <2>1 DEF Keeps, OneInFlight, StatusOf, SameSlot
<1> QED
  BY <1>2, <1>3 DEF Shape

(* A success is never taken back, and only the presence of one quarantines *)
(* another.                                                                *)
LEMMA DuplicateStep ==
    ASSUME TypeOK, DuplicateHasCanonical, NEW p \in PaymentIds, OnlyRow(p), Shape(p)
    PROVE  DuplicateHasCanonical'
<1>1. ASSUME NEW q \in PaymentIds, payments[q].status = "SUCCEEDED"
      PROVE  /\ payments'[q].status = "SUCCEEDED"
             /\ payments'[q].request = payments[q].request
             /\ payments'[q].type = payments[q].type
  BY <1>1 DEF OnlyRow, Shape, Opens, Keeps, Stays, Moves, Wins, Duplicates, Ends,
              Exists, StatusOf, InFlight
<1> SUFFICES ASSUME NEW d \in PaymentIds, payments'[d].status = "DUPLICATE_SUCCEEDED"
             PROVE  \E q \in PaymentIds :
                       /\ payments'[q].status = "SUCCEEDED"
                       /\ payments'[d].request = payments'[q].request
                       /\ payments'[d].type = payments'[q].type
  BY DEF DuplicateHasCanonical, StatusOf, SameSlot
<1>2. CASE payments[d].status = "DUPLICATE_SUCCEEDED"
  <2>1. PICK q \in PaymentIds : payments[q].status = "SUCCEEDED" /\ SameSlot(d, q)
    BY <1>2 DEF DuplicateHasCanonical, StatusOf
  <2>2. payments'[d].request = payments[d].request /\ payments'[d].type = payments[d].type
    BY <1>2 DEF OnlyRow, Shape, Opens, Keeps, Exists, StatusOf
  <2> QED
    BY <1>1, <2>1, <2>2 DEF SameSlot
<1>3. CASE payments[d].status # "DUPLICATE_SUCCEEDED"
  <2>1. d = p /\ Keeps(p) /\ Duplicates(p)
    BY <1>3 DEF OnlyRow, Shape, Opens, Stays, Moves, Wins, Ends
  <2>2. PICK q \in PaymentIds \ {p} :
           Exists(q) /\ SameSlot(p, q) /\ StatusOf(q) = "SUCCEEDED"
    BY <2>1 DEF Duplicates, SucceededIndexAllows
  <2> QED
    BY <1>1, <2>1, <2>2 DEF SameSlot, StatusOf, Keeps
<1> QED
  BY <1>2, <1>3

LEMMA ReasonStep ==
    ASSUME TypeOK, ReasonMatchesStatus, NEW p \in PaymentIds, OnlyRow(p), Shape(p)
    PROVE  ReasonMatchesStatus'
  BY DEF ReasonMatchesStatus, OnlyRow, Shape, Opens, Keeps, Stays, Moves, Wins,
         Duplicates, Ends, StatusOf

LEMMA SlotStep ==
    ASSUME TypeOK, SlotKnown, NEW p \in PaymentIds, OnlyRow(p), Shape(p)
    PROVE  SlotKnown'
  BY DEF SlotKnown, OnlyRow, Shape, Opens, Keeps, Exists, StatusOf

LEMMA StepIInv == IInv /\ [Next]_ledgerVars => IInv'
<1> SUFFICES ASSUME IInv, [Next]_ledgerVars
             PROVE  IInv'
  OBVIOUS
<1>1. CASE UNCHANGED ledgerVars
  BY <1>1 DEF IInv, TypeOK, SlotKnown, OneInFlight, DuplicateHasCanonical,
              ReasonMatchesStatus, SameSlot, Exists, StatusOf, ledgerVars
<1>2. CASE Next
  <2>1. PICK p \in PaymentIds : LedgerStep(p)
    BY <1>2 DEF Next
  <2>2. OnlyRow(p) /\ Shape(p)
    BY <2>1, StepShape DEF IInv
  <2> QED
    BY <2>2, SlotStep, OneInFlightStep, DuplicateStep, ReasonStep DEF IInv, OnlyRow
<1> QED
  BY <1>1, <1>2

(* A row that exists stays the row it is, one that was claimed is not      *)
(* unclaimed, and one that has ended stays as it ended.                    *)
Past(p) == StatusOf(p) \notin {"ABSENT", "PENDING"}

LEMMA LedgerKeeps ==
    ASSUME IInv, [Next]_ledgerVars, NEW p \in PaymentIds
    PROVE  /\ Past(p) => Past(p)'
           /\ Exists(p) => /\ Exists(p)'
                           /\ payments'[p].type = payments[p].type
                           /\ payments'[p].request = payments[p].request
           /\ StatusOf(p) \in Terminal => StatusOf(p)' = StatusOf(p)
<1> DEFINE Kept == /\ Past(p) => Past(p)'
                   /\ Exists(p) => /\ Exists(p)'
                                   /\ payments'[p].type = payments[p].type
                                   /\ payments'[p].request = payments[p].request
                   /\ StatusOf(p) \in Terminal => StatusOf(p)' = StatusOf(p)
<1>1. CASE UNCHANGED ledgerVars
  BY <1>1 DEF ledgerVars, Past, Exists, StatusOf
<1>2. ASSUME NEW q \in PaymentIds, LedgerStep(q)
      PROVE  Kept
  <2>1. OnlyRow(q) /\ Shape(q)
    BY <1>2, StepShape DEF IInv
  <2>2. CASE p # q
    BY <2>1, <2>2 DEF OnlyRow, Past, Exists, StatusOf
  <2>3. CASE p = q
    BY <2>1, <2>3 DEF Shape, Opens, Keeps, Stays, Moves, Wins, Duplicates, Ends, Past,
                      Exists, StatusOf, Terminal, InFlight
  <2> QED BY <2>2, <2>3
<1> QED BY <1>1, <1>2 DEF Next

(* Statement by statement: the row it writes, and the status it leaves.    *)
OnlyPayment(p) == \A q \in PaymentIds \ {p} : payments'[q] = payments[q]

Writes(p, s) ==
    /\ [Next]_ledgerVars /\ OnlyPayment(p) /\ Exists(p)
    /\ payments'[p].status = s /\ payments'[p].type = payments[p].type

LEMMA StatementWrites ==
    ASSUME TypeOK, NEW p \in PaymentIds
    PROVE  /\ ClaimForSubmission(p) => Writes(p, "SUBMITTED") /\ StatusOf(p) = "PENDING"
           /\ \A b \in BlockReasons \cup {NoReason} :
                 RecordRejection(p, b) => Writes(p, "FAILED") /\ Past(p)
           /\ \A b \in BlockReasons : RecordBlocked(p, b) => Writes(p, "BLOCKED")
           /\ Unblock(p) => Writes(p, "SUBMITTED")
           /\ \A v \in Verdicts : ClaimTerminal(p, v) => Writes(p, v) /\ Past(p)
           /\ RecordDuplicateSuccess(p) => Writes(p, "DUPLICATE_SUCCEEDED")
           /\ BackOff(p) => Writes(p, StatusOf(p))
           /\ VerifyAfterPasses(p) => Writes(p, StatusOf(p))
<1>1. ASSUME ClaimForSubmission(p)
      PROVE  Writes(p, "SUBMITTED") /\ StatusOf(p) = "PENDING"
  BY <1>1 DEF TypeOK, Row, ClaimForSubmission, Writes, OnlyPayment, Exists, StatusOf, Next,
              LedgerStep
<1>2. ASSUME NEW b \in BlockReasons \cup {NoReason}, RecordRejection(p, b)
      PROVE  Writes(p, "FAILED") /\ Past(p)
  BY <1>2 DEF TypeOK, Row, RecordRejection, Writes, OnlyPayment, Past, Exists, StatusOf, Next,
              LedgerStep
<1>3. ASSUME NEW b \in BlockReasons, RecordBlocked(p, b)
      PROVE  Writes(p, "BLOCKED")
  BY <1>3 DEF TypeOK, Row, RecordBlocked, Writes, OnlyPayment, Exists, StatusOf, Next, LedgerStep
<1>4. ASSUME Unblock(p)
      PROVE  Writes(p, "SUBMITTED")
  BY <1>4 DEF TypeOK, Row, Unblock, Writes, OnlyPayment, Exists, StatusOf, Next, LedgerStep
<1>5. ASSUME NEW v \in Verdicts, ClaimTerminal(p, v)
      PROVE  Writes(p, v) /\ Past(p)
  BY <1>5 DEF TypeOK, Row, ClaimTerminal, Claimable, Writes, OnlyPayment, Past, Exists, StatusOf,
              Next, LedgerStep
<1>6. ASSUME RecordDuplicateSuccess(p)
      PROVE  Writes(p, "DUPLICATE_SUCCEEDED")
  BY <1>6 DEF TypeOK, Row, RecordDuplicateSuccess, Claimable, Writes, OnlyPayment, Exists,
              StatusOf, Next, LedgerStep
<1>7. ASSUME BackOff(p)
      PROVE  Writes(p, StatusOf(p))
  BY <1>7 DEF TypeOK, Row, BackOff, Writes, OnlyPayment, Exists, StatusOf, Next, LedgerStep
<1>8. ASSUME VerifyAfterPasses(p)
      PROVE  Writes(p, StatusOf(p))
  BY <1>8 DEF TypeOK, Row, VerifyAfterPasses, Writes, OnlyPayment, Exists, StatusOf, Next,
              LedgerStep
<1> QED BY <1>1, <1>2, <1>3, <1>4, <1>5, <1>6, <1>7, <1>8

LEMMA LedgerInvariant == Spec => []IInv
  BY InitIInv, StepIInv, PTL DEF Spec

-----------------------------------------------------------------------------
(* Every row of every reachable table has the shape of the Prisma model.   *)
THEOREM TypeCorrect == Spec => []TypeOK
<1>1. IInv => TypeOK
  BY DEF IInv
<1> QED
  BY <1>1, LedgerInvariant, PTL

(* No interleaving of ledger statements ever puts two attempts of one slot *)
(* in flight: neither an insert beside a blocked attempt nor the unblock   *)
(* of one beside an insert.                                                *)
THEOREM OneAttemptInFlight == Spec => []OneInFlight
<1>1. IInv => OneInFlight
  BY DEF IInv
<1> QED
  BY <1>1, LedgerInvariant, PTL

(* A quarantined duplicate always has the success it duplicates beside it. *)
THEOREM DuplicateNeverAlone == Spec => []DuplicateHasCanonical
<1>1. IInv => DuplicateHasCanonical
  BY DEF IInv
<1> QED
  BY <1>1, LedgerInvariant, PTL

(* The block reason the retry rule reads is that of the current block.     *)
THEOREM ReasonIsCurrent == Spec => []ReasonMatchesStatus
<1>1. IInv => ReasonMatchesStatus
  BY DEF IInv
<1> QED
  BY <1>1, LedgerInvariant, PTL

(* No statement takes a row out of a terminal status or gives it to        *)
(* another slot, and a stored checkout link stays stored.                  *)
THEOREM HistoryNeverRewritten == Spec => HistoryIsFinal
<1>1. IInv /\ [Next]_ledgerVars =>
        [\A p \in PaymentIds :
            Exists(p) =>
               /\ StatusOf(p) \in Terminal => StatusOf(p)' = StatusOf(p)
               /\ payments'[p].request = payments[p].request
               /\ payments'[p].type = payments[p].type
               /\ payments[p].checkoutUrl => payments'[p].checkoutUrl]_ledgerVars
  <2> SUFFICES ASSUME IInv, Next, NEW p \in PaymentIds, Exists(p)
               PROVE  /\ StatusOf(p) \in Terminal => StatusOf(p)' = StatusOf(p)
                      /\ payments'[p].request = payments[p].request
                      /\ payments'[p].type = payments[p].type
                      /\ payments[p].checkoutUrl => payments'[p].checkoutUrl
    BY DEF ledgerVars
  <2>1. PICK q \in PaymentIds : LedgerStep(q)
    BY DEF Next
  <2>2. OnlyRow(q) /\ Shape(q)
    BY <2>1, StepShape DEF IInv
  <2>3. CASE p # q
    BY <2>2, <2>3 DEF OnlyRow, StatusOf
  <2>4. CASE p = q
    <3>1. Keeps(p) /\ (Stays(p) \/ payments[p].status \in InFlight)
      BY <2>2, <2>4 DEF Shape, Opens, Moves, Wins, Duplicates, Ends
    <3>2. payments[p].checkoutUrl => payments'[p].checkoutUrl
      BY <3>1 DEF Keeps
    <3>3. StatusOf(p) \in Terminal => StatusOf(p)' = StatusOf(p)
      BY <3>1 DEF Stays, StatusOf, InFlight, Terminal
    <3> QED
      BY <3>1, <3>2, <3>3 DEF Keeps
  <2> QED
    BY <2>3, <2>4
<1> QED
  BY <1>1, LedgerInvariant, PTL DEF Spec, HistoryIsFinal

-----------------------------------------------------------------------------
(* The refinement.  First what a step on row p does to the three abstract  *)
(* variables: nothing outside p's slot, and there it is about p alone.     *)
LEMMA AbstractEffect ==
    ASSUME IInv, NEW p \in PaymentIds, OnlyRow(p), Shape(p),
           NEW h, h = <<payments'[p].request, payments'[p].type>>
    PROVE  /\ h \in Slots
           /\ \A s \in Slots : s # h => LiveIn(s)' = LiveIn(s) /\ WonIn(s)' = WonIn(s)
           /\ \A q \in PaymentIds \ {p} : payments'[q] = payments[q]
           /\ Exists(p)'
           /\ LiveIn(h)' \ {p} = LiveIn(h) \ {p}
           /\ WonIn(h)' \ {p} = WonIn(h) \ {p}
           /\ p \in LiveIn(h)' <=> payments'[p].status \in InFlight
           /\ p \in WonIn(h)' <=> payments'[p].status = "SUCCEEDED"
<1>1. /\ payments'[p].request \in Requests
      /\ payments'[p].type \in PaymentTypes
      /\ payments'[p].status # "ABSENT"
  BY DEF IInv, SlotKnown, Shape, Opens, Keeps, Stays, Moves, Wins, Duplicates,
         Ends, Exists, StatusOf, InFlight
<1>2. \A q \in PaymentIds \ {p} : payments'[q] = payments[q]
  BY DEF OnlyRow
<1>3. /\ h \in Slots
      /\ h[1] = payments'[p].request /\ h[2] = payments'[p].type
  BY <1>1 DEF Slots
<1>4. ASSUME NEW s \in Slots, s # h
      PROVE  LiveIn(s)' = LiveIn(s) /\ WonIn(s)' = WonIn(s)
  <2>1. s = <<s[1], s[2]>>
    BY DEF Slots
  <2>2. ~ (payments'[p].request = s[1] /\ payments'[p].type = s[2])
    BY <1>4, <2>1
  <2>3. Exists(p) => ~ (payments[p].request = s[1] /\ payments[p].type = s[2])
    BY <2>2 DEF Shape, Opens, Keeps
  <2> QED
    BY <1>2, <2>2, <2>3 DEF LiveIn, WonIn, RowsOf, Exists, StatusOf
<1>5. Exists(p)'
  BY <1>1 DEF Exists, StatusOf
<1>6. /\ LiveIn(h)' \ {p} = LiveIn(h) \ {p}
      /\ WonIn(h)' \ {p} = WonIn(h) \ {p}
  BY <1>2 DEF LiveIn, WonIn, RowsOf, Exists, StatusOf
<1>7. /\ p \in LiveIn(h)' <=> payments'[p].status \in InFlight
      /\ p \in WonIn(h)' <=> payments'[p].status = "SUCCEEDED"
  BY <1>1, <1>3 DEF LiveIn, WonIn, RowsOf, Exists, StatusOf
<1> QED
  BY <1>2, <1>3, <1>4, <1>5, <1>6, <1>7

(* The same, before the step: when the row was there already.              *)
LEMMA AbstractBefore ==
    ASSUME IInv, NEW p \in PaymentIds, Keeps(p),
           NEW h, h = <<payments'[p].request, payments'[p].type>>
    PROVE  /\ p \in LiveIn(h) <=> payments[p].status \in InFlight
           /\ p \in WonIn(h) <=> payments[p].status = "SUCCEEDED"
           /\ payments[p].status \in InFlight => LiveIn(h) = {p}
           /\ payments[p].status \in InFlight /\ SucceededIndexAllows(p) => WonIn(h) = {}
<1>1. /\ h[1] = payments[p].request /\ h[2] = payments[p].type
      /\ Exists(p)
  BY DEF Keeps
<1>2. /\ p \in LiveIn(h) <=> payments[p].status \in InFlight
      /\ p \in WonIn(h) <=> payments[p].status = "SUCCEEDED"
  BY <1>1 DEF LiveIn, WonIn, RowsOf, StatusOf
<1>3. ASSUME payments[p].status \in InFlight
      PROVE  LiveIn(h) = {p}
  <2>1. \A q \in LiveIn(h) : q = p
    BY <1>1, <1>3 DEF LiveIn, RowsOf, IInv, OneInFlight, SameSlot, StatusOf
  <2> QED
    BY <1>2, <1>3, <2>1
<1>4. ASSUME payments[p].status \in InFlight, SucceededIndexAllows(p)
      PROVE  WonIn(h) = {}
  <2>1. p \notin WonIn(h)
    BY <1>2, <1>4 DEF InFlight
  <2>2. \A q \in PaymentIds \ {p} : q \notin WonIn(h)
    BY <1>1, <1>4 DEF SucceededIndexAllows, WonIn, RowsOf, SameSlot, StatusOf
  <2>3. WonIn(h) \subseteq PaymentIds
    BY DEF WonIn, RowsOf
  <2> QED
    BY <2>1, <2>2, <2>3
<1> QED
  BY <1>2, <1>3, <1>4

(* A step of the ledger is a step of CanonicalPayment, or changes none of  *)
(* its variables.                                                          *)
LEMMA StepRefines ==
    ASSUME IInv, NEW p \in PaymentIds, OnlyRow(p), Shape(p)
    PROVE  [Canonical!Next]_(Canonical!absVars)
<1> DEFINE h == <<payments'[p].request, payments'[p].type>>
           live == [s \in Slots |-> LiveIn(s)]
           winners == [s \in Slots |-> WonIn(s)]
           opened == {q \in PaymentIds : Exists(q)}
<1>0. PICK k : k = h
  OBVIOUS
<1> HIDE DEF h
<1>1. /\ k \in Slots
      /\ \A s \in Slots : s # k => LiveIn(s)' = LiveIn(s) /\ WonIn(s)' = WonIn(s)
      /\ \A q \in PaymentIds \ {p} : payments'[q] = payments[q]
      /\ Exists(p)'
      /\ LiveIn(k)' \ {p} = LiveIn(k) \ {p}
      /\ WonIn(k)' \ {p} = WonIn(k) \ {p}
      /\ p \in LiveIn(k)' <=> payments'[p].status \in InFlight
      /\ p \in WonIn(k)' <=> payments'[p].status = "SUCCEEDED"
  BY <1>0, AbstractEffect DEF h
<1>2. opened' = opened \cup {p}
  BY <1>1 DEF Exists, StatusOf
<1>3. ASSUME NEW S, LiveIn(k)' = S
      PROVE  live' = [live EXCEPT ![k] = S]
  BY <1>1, <1>3
<1>4. ASSUME NEW S, WonIn(k)' = S
      PROVE  winners' = [winners EXCEPT ![k] = S]
  BY <1>1, <1>4
<1>5. (WonIn(k)' = WonIn(k)) => winners' = winners
  BY <1>1
<1>6. (LiveIn(k)' = LiveIn(k)) => live' = live
  BY <1>1
<1>7. CASE \E r \in Requests, t \in PaymentTypes : Opens(p, r, t)
  <2>1. PICK r \in Requests, t \in PaymentTypes : Opens(p, r, t)
    BY <1>7
  <2>2. k[1] = r /\ k[2] = t
    BY <1>0, <2>1 DEF h, Opens
  <2>3. p \notin opened /\ p \notin WonIn(k) /\ p \notin LiveIn(k)
    BY <2>1 DEF Opens, WonIn, LiveIn, RowsOf
  <2>4. LiveIn(k) = {}
    BY <2>1, <2>2 DEF Opens, InFlightIndexAllows, LiveIn
  <2>5. LiveIn(k)' = {p} /\ WonIn(k)' = WonIn(k)
    BY <1>1, <2>1, <2>3, <2>4 DEF Opens, InFlight
  <2>6. live[k] = {}
    BY <1>1, <2>4
  <2>7. live' = [live EXCEPT ![k] = {p}] /\ winners' = winners
    BY <1>3, <1>5, <2>5
  <2>8. Canonical!Open(k, p)
    BY <1>2, <2>3, <2>6, <2>7 DEF Canonical!Open
  <2> QED
    BY <1>1, <2>8 DEF Canonical!Next
<1>8. CASE Keeps(p)
  <2>1. /\ p \in LiveIn(k) <=> payments[p].status \in InFlight
        /\ p \in WonIn(k) <=> payments[p].status = "SUCCEEDED"
        /\ payments[p].status \in InFlight => LiveIn(k) = {p}
        /\ payments[p].status \in InFlight /\ SucceededIndexAllows(p) => WonIn(k) = {}
    BY <1>0, <1>8, AbstractBefore DEF h
  <2>2. opened' = opened
    BY <1>2, <1>8 DEF Keeps
  <2>3. CASE Stays(p) \/ Moves(p)
    <3>1. /\ payments'[p].status \in InFlight <=> payments[p].status \in InFlight
          /\ payments'[p].status = "SUCCEEDED" <=> payments[p].status = "SUCCEEDED"
      BY <2>3 DEF Stays, Moves, InFlight
    <3>2. LiveIn(k)' = LiveIn(k) /\ WonIn(k)' = WonIn(k)
      BY <1>1, <2>1, <3>1
    <3> QED
      BY <1>5, <1>6, <2>2, <3>2 DEF Canonical!absVars
  <2>4. CASE Wins(p)
    <3>1. LiveIn(k) = {p} /\ WonIn(k) = {}
      BY <2>1, <2>4 DEF Wins
    <3>2. LiveIn(k)' = {} /\ WonIn(k)' = {p}
      BY <1>1, <2>4, <3>1 DEF Wins, InFlight
    <3>3. /\ live[k] = {p} /\ winners[k] = {}
          /\ live' = [live EXCEPT ![k] = {}]
          /\ winners' = [winners EXCEPT ![k] = {p}]
      BY <1>1, <1>3, <1>4, <3>1, <3>2
    <3>4. Canonical!Win(k, p)
      BY <2>2, <3>3 DEF Canonical!Win
    <3> QED
      BY <1>1, <3>4 DEF Canonical!Next
  <2>5. CASE Duplicates(p) \/ Ends(p)
    <3>1. LiveIn(k) = {p} /\ p \notin WonIn(k)
      BY <2>1, <2>5 DEF Duplicates, Ends, InFlight
    <3>2. LiveIn(k)' = {} /\ WonIn(k)' = WonIn(k)
      BY <1>1, <2>5, <3>1 DEF Duplicates, Ends, InFlight
    <3>3. /\ live[k] = {p}
          /\ live' = [live EXCEPT ![k] = {}]
          /\ winners' = winners
      BY <1>1, <1>3, <1>5, <3>1, <3>2
    <3>4. Canonical!Close(k, p)
      BY <2>2, <3>3 DEF Canonical!Close
    <3> QED
      BY <1>1, <3>4 DEF Canonical!Next
  <2> QED
    BY <1>8, <2>3, <2>4, <2>5, Shape(p) DEF Shape, Opens, Keeps
<1> QED
  BY <1>7, <1>8, Shape(p) DEF Shape

(* The ledger implements CanonicalPayment: whatever the statements and     *)
(* their order, a slot's attempts are made one at a time and at most one   *)
(* of them ever wins.                                                      *)
THEOREM LedgerImplementsCanonical == Spec => ImplementsCanonical
<1>1. Init => Canonical!Init
  BY DEF Init, Canonical!Init, LiveIn, WonIn, RowsOf, Exists, StatusOf, AbsentRow
<1>2. IInv /\ [Next]_ledgerVars => [Canonical!Next]_(Canonical!absVars)
  <2> SUFFICES ASSUME IInv, [Next]_ledgerVars
               PROVE  [Canonical!Next]_(Canonical!absVars)
    OBVIOUS
  <2>1. CASE UNCHANGED ledgerVars
    BY <2>1 DEF ledgerVars, Canonical!absVars, LiveIn, WonIn, RowsOf, Exists, StatusOf
  <2>2. CASE Next
    <3>1. PICK p \in PaymentIds : LedgerStep(p)
      BY <2>2 DEF Next
    <3>2. OnlyRow(p) /\ Shape(p)
      BY <3>1, StepShape DEF IInv
    <3> QED
      BY <3>2, StepRefines
  <2> QED
    BY <2>1, <2>2
<1> QED
  BY <1>1, <1>2, LedgerInvariant, PTL DEF Spec, ImplementsCanonical, Canonical!Spec
=============================================================================
