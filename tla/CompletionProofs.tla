-------------------------- MODULE CompletionProofs --------------------------
(***************************************************************************)
(* Theorems about Completion, for every number of deliveries, webhooks and *)
(* rows, every amount and percentage, and any bound on the disputes.       *)
(*                                                                         *)
(* The steps are first described once (StepShape): what a step may do to   *)
(* the Payment table, to the process that takes it, to the balance, to the *)
(* payout and to the count of disputes.  The invariants are then proved of *)
(* the description.                                                        *)
(***************************************************************************)
EXTENDS Completion, TLAPS, FiniteSetTheorems

-----------------------------------------------------------------------------
(* What a step may do.                                                     *)

(* The table: the balance rows stay, with their amounts and successes, and *)
(* a row that is in flight was so before or is one a process has billed.   *)
BooksMove ==
    /\ \A p \in Balances :
          /\ p \in Balances' /\ amount'[p] = amount[p]
          /\ StatusOf(p) = "SUCCEEDED" => payments'[p].status = "SUCCEEDED"
    /\ \A p \in Balances' : payments'[p].status \in InFlight =>
          \/ p \in Balances /\ StatusOf(p) \in InFlight
          \/ \E w \in Procs : proc[w].pc = "link" /\ amount'[p] = proc[w].amount

(* The balance: only a resolution changes it, to its share.                *)
BalanceMoves ==
    \/ balance' = balance
    \/ \E a \in Admins :
          /\ proc[a].pc = "settle" /\ proc'[a].pc \notin {"paidCheck", "settle"}
          /\ balance' = Adjusted(proc[a].amount, proc[a].percent)

(* The payout: asked for once, by a process that has come to it.           *)
PayoutMoves ==
    \/ payout' = payout
    \/ \E w \in Procs : proc[w].pc = "pay" /\ payout' = OperatorShare(proc[w].amount)

(* A process: where it may have got to, and what it has read on the way.   *)
SettlesABalance ==
    \E p \in Balances : StatusOf(p) \in InFlight /\ payments'[p].status = "SUCCEEDED"

Turn(w) ==
    \/ proc'[w].pc \in {"idle", "mark", "reset", "raise", "tell"}
    \/ proc'[w].pc = "submit" /\ proc'[w].row \in PaymentIds
    \/ proc'[w].pc = "post" /\ proc[w].pc = "submit" /\ proc'[w].row = proc[w].row
    \/ proc'[w].pc = "complete" /\ proc'[w].amount = balance /\ balance' = balance
    \/ /\ proc'[w].pc = "link" /\ balance' = balance
       /\ proc[w].pc = "complete" /\ proc'[w].amount = proc[w].amount
    \/ /\ proc'[w].pc = "link" /\ proc[w].pc = "settle"
       /\ proc'[w].amount = balance'
    \/ /\ proc'[w].pc = "paidCheck" /\ w \in Admins
       /\ proc'[w].amount = balance /\ balance' = balance
    \/ /\ proc'[w].pc = "settle" /\ proc[w].pc = "paidCheck"
       /\ proc'[w].amount = proc[w].amount /\ balance' = balance
    \/ /\ proc'[w].pc = "finalize" /\ balance' = balance
       /\ proc[w].pc = "link" /\ proc[w].amount = 0
    \/ /\ proc'[w].pc = "finalize" /\ balance' = balance
       /\ SettlesABalance
    \/ /\ proc'[w].pc = "finish" /\ proc[w].pc = "finalize"
       /\ proc'[w].amount = balance
    \/ /\ proc'[w].pc \in {"notify", "pay"} /\ proc[w].pc \in {"finish", "notify"}
       /\ proc'[w].amount = proc[w].amount

ProcsMove == \A w \in Procs : proc'[w] = proc[w] \/ Turn(w)

(* The disputes: the deliveries that have still to tell staff, and what is *)
(* raised, resolved and told.                                              *)
Telling == {h \in Handlers : proc[h].pc = "tell"}

CountsStay == UNCHANGED <<dispute, raises, resolutions, staffTold>>

DisputesMove ==
    \/ CountsStay /\ Telling' \subseteq Telling
    \/ \E h \in Handlers :
          /\ dispute # "open" /\ dispute' = "open" /\ raises' = raises + 1
          /\ UNCHANGED <<resolutions, staffTold>>
          /\ Telling' \subseteq Telling \cup {h}
    \/ \E h \in Telling :
          /\ UNCHANGED <<dispute, raises, resolutions>>
          /\ staffTold' \in {staffTold, staffTold + 1}
          /\ Telling' \subseteq Telling \ {h}
    \/ /\ dispute' = "resolved" /\ resolutions' = resolutions + 1
       /\ UNCHANGED <<raises, staffTold>>
       /\ Telling' \subseteq Telling

Shape ==
    /\ CompletionTypeOK'
    /\ BooksMove /\ BalanceMoves /\ PayoutMoves /\ ProcsMove /\ DisputesMove
    /\ paid' \subseteq paid \cup Balances

-----------------------------------------------------------------------------
(* How the code moves one process.                                         *)
ProcOf(w, x) ==
    /\ proc' \in [Procs -> Process]
    /\ proc'[w] = x
    /\ \A v \in Procs \ {w} : proc'[v] = proc[v]

LEMMA OneProcess ==
    ASSUME proc \in [Procs -> Process], NEW w \in Procs, NEW x \in Process,
           proc' = [proc EXCEPT ![w] = x]
    PROVE  ProcOf(w, x)
  BY DEF ProcOf

LEMMA IdleProcess == Idle \in Process /\ Idle.pc = "idle"
  BY DEF Idle, Process, Steps

LEMMA GotoProcess ==
    ASSUME proc \in [Procs -> Process], NEW w \in Procs, NEW step \in Steps,
           Goto(w, step)
    PROVE  \E x \in Process :
              /\ ProcOf(w, x) /\ x.pc = step
              /\ x.row = proc[w].row /\ x.amount = proc[w].amount
<1> DEFINE x == [proc[w] EXCEPT !.pc = step]
<1>1. x \in Process /\ x.pc = step /\ x.row = proc[w].row
      /\ x.amount = proc[w].amount
  BY DEF Process
<1>2. proc' = [proc EXCEPT ![w] = x]
  BY DEF Goto
<1> HIDE DEF x
<1>3. ProcOf(w, x)
  BY <1>1, <1>2, OneProcess
<1> QED BY <1>1, <1>3

LEMMA StopProcess ==
    ASSUME proc \in [Procs -> Process], NEW w \in Procs, Stop(w)
    PROVE  ProcOf(w, Idle)
  BY IdleProcess, OneProcess DEF Stop

LEMMA ReturnProcess ==
    ASSUME proc \in [Procs -> Process], NEW w \in Procs, Return(w)
    PROVE  \E x \in Process : ProcOf(w, x) /\ x.pc \in {"idle", "reset"}
<1> DEFINE back == [Idle EXCEPT !.pc = "reset"]
           x == IF w \in Handlers THEN back ELSE Idle
<1>1. back \in Process /\ back.pc = "reset"
  BY IdleProcess DEF Process, Steps
<1>2. x \in Process /\ x.pc \in {"idle", "reset"}
  BY <1>1, IdleProcess
<1>3. proc' = [proc EXCEPT ![w] = x]
  BY DEF Return
<1> HIDE DEF x
<1>4. ProcOf(w, x)
  BY <1>2, <1>3, OneProcess
<1> QED BY <1>2, <1>4

(* A process that goes nowhere near staff leaves the tellers as they were. *)
LEMMA NobodyStartsTelling ==
    ASSUME NEW w \in Procs, NEW x, ProcOf(w, x), x.pc # "tell"
    PROVE  Telling' \subseteq Telling
  BY DEF ProcOf, Telling, Procs

LEMMA OneTurn ==
    ASSUME NEW w \in Procs, NEW x, ProcOf(w, x), Turn(w)
    PROVE  ProcsMove
  BY DEF ProcOf, ProcsMove

-----------------------------------------------------------------------------
(* How the code moves the table.                                           *)
Books == TypeOK /\ amount \in [PaymentIds -> Nat]

LEMMA TableStays ==
    ASSUME Books, UNCHANGED <<payments, amount>>
    PROVE  Books' /\ BooksMove
<1>1. Balances' = Balances
  BY DEF Balances, RowsOf, Exists, StatusOf
<1>2. \A p \in Balances : p \in PaymentIds
  BY DEF Balances, RowsOf
<1> QED BY <1>1, <1>2 DEF Books, TypeOK, BooksMove, StatusOf

(* A statement on a row that exists and does not bring it back to flight.  *)
LEMMA OneRowMoves ==
    ASSUME Books, NEW p \in PaymentIds, NEW row \in Row, Exists(p),
           row.request = payments[p].request, row.type = payments[p].type,
           row.status # "ABSENT",
           StatusOf(p) = "SUCCEEDED" => row.status = "SUCCEEDED",
           row.status \in InFlight => StatusOf(p) \in InFlight,
           payments' = [payments EXCEPT ![p] = row], UNCHANGED amount
    PROVE  Books' /\ BooksMove /\ payments'[p] = row
<1>1. /\ payments' \in [PaymentIds -> Row] /\ payments'[p] = row
      /\ \A q \in PaymentIds \ {p} : payments'[q] = payments[q]
  BY DEF Books, TypeOK
<1>2. \A q \in PaymentIds :
        /\ payments'[q].request = payments[q].request
        /\ payments'[q].type = payments[q].type
        /\ payments'[q].status = "ABSENT" <=> StatusOf(q) = "ABSENT"
        /\ StatusOf(q) = "SUCCEEDED" => payments'[q].status = "SUCCEEDED"
        /\ payments'[q].status \in InFlight => StatusOf(q) \in InFlight
  BY <1>1 DEF Exists, StatusOf
<1>3. Balances' = Balances
  BY <1>2 DEF Balances, RowsOf, Exists, StatusOf
<1>4. \A q \in Balances : q \in PaymentIds
  BY DEF Balances, RowsOf
<1>5. BooksMove
  BY <1>2, <1>3, <1>4 DEF BooksMove
<1> QED BY <1>1, <1>5 DEF Books, TypeOK

LEMMA ClaimMoves ==
    ASSUME Books, NEW p \in PaymentIds, ClaimForSubmission(p), UNCHANGED amount
    PROVE  Books' /\ BooksMove
<1> DEFINE row == [payments[p] EXCEPT !.status = "SUBMITTED", !.verifyDue = FALSE]
<1>1. payments[p] \in Row
  BY DEF Books, TypeOK
<1>2. /\ row \in Row /\ row.status = "SUBMITTED"
      /\ row.request = payments[p].request /\ row.type = payments[p].type
  BY <1>1 DEF Row, PaymentStatuses, InFlight
<1>3. payments' = [payments EXCEPT ![p] = row]
  BY DEF ClaimForSubmission, Books, TypeOK
<1> HIDE DEF row
<1> QED BY <1>2, <1>3, OneRowMoves DEF ClaimForSubmission, Exists, StatusOf, InFlight

LEMMA LinkMoves ==
    ASSUME Books, NEW p \in PaymentIds, StoreCheckoutUrl(p), UNCHANGED amount
    PROVE  Books' /\ BooksMove
<1> DEFINE row == [payments[p] EXCEPT !.checkoutUrl = TRUE]
<1>1. payments[p] \in Row
  BY DEF Books, TypeOK
<1>2. /\ row \in Row /\ row.status = payments[p].status
      /\ row.request = payments[p].request /\ row.type = payments[p].type
  BY <1>1 DEF Row
<1>3. payments' = [payments EXCEPT ![p] = row]
  BY DEF StoreCheckoutUrl, Books, TypeOK
<1> HIDE DEF row
<1> QED BY <1>2, <1>3, OneRowMoves DEF StoreCheckoutUrl, Exists, StatusOf

LEMMA RejectionMoves ==
    ASSUME Books, NEW p \in PaymentIds, RecordRejection(p, NoReason), UNCHANGED amount
    PROVE  Books' /\ BooksMove
<1> DEFINE row == [payments[p] EXCEPT !.status = "FAILED", !.blockReason = NoReason]
<1>1. payments[p] \in Row
  BY DEF Books, TypeOK
<1>2. /\ row \in Row /\ row.status = "FAILED"
      /\ row.request = payments[p].request /\ row.type = payments[p].type
  BY <1>1 DEF Row, PaymentStatuses, Terminal
<1>3. payments' = [payments EXCEPT ![p] = row]
  BY DEF RecordRejection, Books, TypeOK
<1> HIDE DEF row
<1> QED BY <1>2, <1>3, OneRowMoves DEF RecordRejection, Exists, StatusOf, InFlight

LEMMA VerdictMoves ==
    ASSUME Books, NEW p \in PaymentIds, NEW s \in Terminal, Claimable(p),
           payments' = [payments EXCEPT ![p].status = s, ![p].blockReason = NoReason],
           UNCHANGED amount
    PROVE  Books' /\ BooksMove /\ payments'[p].status = s
<1> DEFINE row == [payments[p] EXCEPT !.status = s, !.blockReason = NoReason]
<1>1. payments[p] \in Row
  BY DEF Books, TypeOK
<1>2. /\ row \in Row /\ row.status = s
      /\ row.request = payments[p].request /\ row.type = payments[p].type
  BY <1>1 DEF Row, PaymentStatuses
<1>3. payments' = [payments EXCEPT ![p] = row]
  BY DEF Books, TypeOK
<1> HIDE DEF row
<1> QED BY <1>2, <1>3, OneRowMoves DEF Claimable, Exists, StatusOf, InFlight, Terminal

LEMMA RecoveryMoves ==
    ASSUME Books, NEW p \in PaymentIds, StatusOf(p) = "PENDING",
           payments' = [payments EXCEPT ![p].status = "SUBMITTED",
                           ![p].verifyDue = FALSE, ![p].checkoutUrl = TRUE],
           UNCHANGED amount
    PROVE  Books' /\ BooksMove
<1> DEFINE row == [payments[p] EXCEPT !.status = "SUBMITTED", !.verifyDue = FALSE,
                                      !.checkoutUrl = TRUE]
<1>1. payments[p] \in Row
  BY DEF Books, TypeOK
<1>2. /\ row \in Row /\ row.status = "SUBMITTED"
      /\ row.request = payments[p].request /\ row.type = payments[p].type
  BY <1>1 DEF Row, PaymentStatuses, InFlight
<1>3. payments' = [payments EXCEPT ![p] = row]
  BY DEF Books, TypeOK
<1> HIDE DEF row
<1> QED BY <1>2, <1>3, OneRowMoves DEF Exists, StatusOf, InFlight

(* The one row that comes to be in flight is the one that is billed.       *)
LEMMA BillMoves ==
    ASSUME Books, NEW w \in Procs, NEW p \in PaymentIds, proc[w].pc = "link",
           proc[w].amount \in Nat, Create(p, Job, "BALANCE"),
           amount' = [amount EXCEPT ![p] = proc[w].amount]
    PROVE  Books' /\ BooksMove
<1> DEFINE row == NewRow(Job, "BALANCE")
<1>1. row \in Row /\ row.status = "PENDING"
  BY BalanceType, CapAssumption DEF NewRow, Row, PaymentStatuses, InFlight
<1>2. payments' = [payments EXCEPT ![p] = row]
  BY DEF Create
<1> HIDE DEF row
<1>3. /\ payments' \in [PaymentIds -> Row] /\ payments'[p] = row
      /\ \A q \in PaymentIds \ {p} : payments'[q] = payments[q]
  BY <1>1, <1>2 DEF Books, TypeOK
<1>4. /\ amount' \in [PaymentIds -> Nat] /\ amount'[p] = proc[w].amount
      /\ \A q \in PaymentIds \ {p} : amount'[q] = amount[q]
  BY DEF Books
<1>5. p \notin Balances
  BY DEF Create, Balances, RowsOf
<1>6. \A q \in PaymentIds \ {p} : q \in Balances' <=> q \in Balances
  BY <1>3 DEF Balances, RowsOf, Exists, StatusOf
<1>7. Balances \subseteq PaymentIds /\ Balances' \subseteq PaymentIds
  BY DEF Balances, RowsOf
<1>8. \A q \in Balances :
        /\ q \in Balances' /\ amount'[q] = amount[q]
        /\ StatusOf(q) = "SUCCEEDED" => payments'[q].status = "SUCCEEDED"
  BY <1>3, <1>4, <1>5, <1>6, <1>7 DEF StatusOf
<1>9. ASSUME NEW q \in Balances', payments'[q].status \in InFlight, q # p
      PROVE  q \in Balances /\ StatusOf(q) \in InFlight
  BY <1>3, <1>6, <1>7, <1>9 DEF StatusOf
<1>10. BooksMove
  BY <1>4, <1>8, <1>9 DEF BooksMove
<1> QED BY <1>3, <1>4, <1>10 DEF Books, TypeOK

-----------------------------------------------------------------------------
(* Rounding a share of the balance never exceeds the balance.              *)
LEMMA ShareIsLess ==
    ASSUME NEW a \in Nat, NEW percent \in 0..100
    PROVE  Adjusted(a, percent) \in Nat /\ Adjusted(a, percent) <= a
<1> DEFINE m == a * percent
<1>1. m \in Nat /\ m <= 100 * a
  <2>1. percent \in Nat /\ 100 - percent \in Nat
    OBVIOUS
  <2>2. a * (100 - percent) \in Nat
    BY <2>1
  <2>3. a * (100 - percent) = 100 * a - m
    BY <2>1
  <2>4. m \in Nat
    BY <2>1
  <2> QED BY <2>2, <2>3, <2>4
<1>2. 2 * a * percent = 2 * m
  <2>1. percent \in Nat
    OBVIOUS
  <2> QED BY <2>1
<1> HIDE DEF m
<1>3. (2 * m + 100) \div 200 \in Nat /\ (2 * m + 100) \div 200 <= a
  BY <1>1
<1> QED BY <1>2, <1>3 DEF Adjusted

LEMMA PercentRange == Percents \subseteq 0..100
  BY AdjustmentRange

(* The columns beside the table and the processes.                         *)
Columns ==
    /\ status \in {"ARRIVED", "IN_DISPUTE", "COMPLETED", "CANCELLED"}
    /\ dispute \in {"none", "open", "resolved"}
    /\ balance \in Nat
    /\ original \in Nat \cup {NoAmount}
    /\ session \in {"asked", "reason", "idle", "rating", "gone"}
    /\ payout \in Int \cup {NoAmount}
    /\ paid \subseteq PaymentIds
    /\ raises \in Nat /\ resolutions \in Nat /\ staffTold \in Nat

LEMMA TypeParts ==
    CompletionTypeOK <=> Books /\ Columns /\ proc \in [Procs -> Process]
  BY DEF CompletionTypeOK, Books, Columns

LEMMA ProcsParts == Handlers \subseteq Procs /\ Admins \subseteq Procs /\ Hooks \subseteq Procs
  BY DEF Procs

(* A step that leaves the counts, the balance and the payout alone.        *)
LEMMA QuietShape ==
    ASSUME CompletionTypeOK, Books' /\ BooksMove, Columns',
           NEW w \in Procs, NEW x, ProcOf(w, x), x.pc # "tell", Turn(w),
           UNCHANGED <<dispute, balance, payout, paid, historyVars>>
    PROVE  Shape
<1>1. proc' \in [Procs -> Process]
  BY DEF ProcOf
<1>2. CompletionTypeOK'
  BY <1>1 DEF CompletionTypeOK, Books, Columns
<1>3. DisputesMove
  BY NobodyStartsTelling DEF DisputesMove, CountsStay, historyVars
<1> QED BY <1>2, <1>3, OneTurn DEF Shape, BalanceMoves, PayoutMoves

(* ... and so does one that moves no process either.                       *)
LEMMA StillShape ==
    ASSUME CompletionTypeOK, Books' /\ BooksMove, Columns', UNCHANGED proc,
           UNCHANGED <<dispute, balance, payout, historyVars>>,
           paid' \subseteq paid \cup Balances
    PROVE  Shape
<1>1. CompletionTypeOK'
  BY DEF CompletionTypeOK, Books, Columns
<1>2. DisputesMove
  BY DEF DisputesMove, CountsStay, historyVars, Telling
<1> QED BY <1>1, <1>2 DEF Shape, BalanceMoves, PayoutMoves, ProcsMove

LEMMA ReplyShape ==
    ASSUME CompletionTypeOK, NEW h \in Handlers, NEW next \in {"mark", "raise"},
           ReplyTo(h, next)
    PROVE  Shape
<1> USE TypeParts, ProcsParts
<1>1. Books' /\ BooksMove
  BY TableStays DEF ReplyTo
<1>2. Columns'
  BY DEF ReplyTo, Columns, historyVars
<1>3. CASE UNCHANGED proc
  BY <1>1, <1>2, <1>3, StillShape DEF ReplyTo
<1>4. CASE Goto(h, next)
  <2>1. PICK x \in Process : ProcOf(h, x) /\ x.pc = next
    BY <1>4, GotoProcess DEF Steps
  <2>2. Turn(h)
    BY <2>1 DEF ProcOf, Turn
  <2> QED BY <1>1, <1>2, <2>1, <2>2, QuietShape DEF ReplyTo
<1> QED BY <1>3, <1>4 DEF ReplyTo

LEMMA SessionShape ==
    ASSUME CompletionTypeOK, GiveReason \/ OperatorDone \/ Cancel
    PROVE  Shape
<1> USE TypeParts
<1>1. Books' /\ BooksMove
  BY TableStays DEF GiveReason, OperatorDone, Cancel
<1>2. Columns'
  BY DEF GiveReason, OperatorDone, Cancel, Columns, historyVars
<1> QED BY <1>1, <1>2, StillShape DEF GiveReason, OperatorDone, Cancel

LEMMA RaiseShape ==
    ASSUME CompletionTypeOK, NEW h \in Handlers, RaiseDispute(h)
    PROVE  Shape
<1> USE TypeParts, ProcsParts
<1>1. Books' /\ BooksMove
  BY TableStays DEF RaiseDispute
<1>2. Columns'
  BY DEF RaiseDispute, OpenDispute, Columns
<1>3. CASE UNCHANGED <<dispute, status, raises>> /\ Stop(h)
  <2>1. ProcOf(h, Idle) /\ Idle.pc = "idle"
    BY <1>3, StopProcess, IdleProcess
  <2>2. Turn(h)
    BY <2>1 DEF ProcOf, Turn
  <2> QED BY <1>1, <1>2, <1>3, <2>1, <2>2, QuietShape DEF RaiseDispute, historyVars
<1>4. CASE dispute # "open" /\ OpenDispute /\ Goto(h, "tell")
  <2>1. PICK x \in Process : ProcOf(h, x) /\ x.pc = "tell"
    BY <1>4, GotoProcess DEF Steps
  <2>2. Turn(h)
    BY <2>1 DEF ProcOf, Turn
  <2>3. Telling' \subseteq Telling \cup {h}
    BY <2>1 DEF ProcOf, Telling
  <2>4. DisputesMove
    BY <1>4, <2>3 DEF DisputesMove, OpenDispute, RaiseDispute
  <2>5. CompletionTypeOK'
    BY <1>1, <1>2, <2>1 DEF CompletionTypeOK, Books, Columns, ProcOf
  <2> QED BY <1>1, <2>1, <2>2, <2>4, <2>5, OneTurn
          DEF Shape, BalanceMoves, PayoutMoves, RaiseDispute
<1> QED BY <1>3, <1>4 DEF RaiseDispute

LEMMA TellShape ==
    ASSUME CompletionTypeOK, NEW h \in Handlers, TellStaff(h)
    PROVE  Shape
<1> USE TypeParts, ProcsParts
<1>1. Books' /\ BooksMove
  BY TableStays DEF TellStaff
<1>2. Columns'
  BY DEF TellStaff, Columns
<1>3. ProcOf(h, Idle) /\ Idle.pc = "idle"
  BY StopProcess, IdleProcess DEF TellStaff
<1>4. Turn(h)
  BY <1>3 DEF ProcOf, Turn
<1>5. h \in Telling /\ Telling' \subseteq Telling \ {h}
  BY <1>3 DEF ProcOf, Telling, TellStaff
<1>6. DisputesMove
  BY <1>5 DEF DisputesMove, TellStaff
<1>7. CompletionTypeOK'
  BY <1>1, <1>2, <1>3 DEF CompletionTypeOK, Books, Columns, ProcOf
<1> QED BY <1>1, <1>3, <1>4, <1>6, <1>7, OneTurn
        DEF Shape, BalanceMoves, PayoutMoves, TellStaff

LEMMA ResolveShape ==
    ASSUME CompletionTypeOK, NEW a \in Admins, NEW percent \in Percents,
           ResolveDispute(a, percent)
    PROVE  Shape
<1> USE TypeParts, ProcsParts
<1>1. Books' /\ BooksMove
  BY TableStays DEF ResolveDispute
<1>2. Columns'
  BY DEF ResolveDispute, Columns, jobVars, historyVars
<1> DEFINE x == [proc[a] EXCEPT !.pc = "paidCheck", !.percent = percent,
                                !.amount = balance]
<1>3. x \in Process /\ x.pc = "paidCheck" /\ x.amount = balance
  <2>1. proc[a] \in Process /\ percent \in 0..100 /\ balance \in Nat
    BY PercentRange DEF Columns
  <2> QED BY <2>1 DEF Process, Steps
<1>4. proc' = [proc EXCEPT ![a] = x]
  BY DEF ResolveDispute
<1> HIDE DEF x
<1>5. ProcOf(a, x)
  BY <1>3, <1>4, OneProcess
<1>6. Turn(a)
  BY <1>3, <1>5 DEF ProcOf, Turn, ResolveDispute, jobVars
<1> QED BY <1>1, <1>2, <1>3, <1>5, <1>6, QuietShape DEF ResolveDispute, jobVars

LEMMA PaidCheckShape ==
    ASSUME CompletionTypeOK, NEW a \in Admins, PaidCheck(a)
    PROVE  Shape
<1> USE TypeParts, ProcsParts
<1>1. Books' /\ BooksMove
  BY TableStays DEF PaidCheck
<1>2. Columns'
  BY DEF PaidCheck, Columns, jobVars, historyVars
<1>3. CASE Stop(a)
  <2>1. ProcOf(a, Idle) /\ Idle.pc = "idle"
    BY <1>3, StopProcess, IdleProcess
  <2>2. Turn(a)
    BY <2>1 DEF ProcOf, Turn
  <2> QED BY <1>1, <1>2, <2>1, <2>2, QuietShape DEF PaidCheck, jobVars
<1>4. CASE Goto(a, "settle")
  <2>1. PICK x \in Process : ProcOf(a, x) /\ x.pc = "settle" /\ x.amount = proc[a].amount
    BY <1>4, GotoProcess DEF Steps
  <2>2. Turn(a)
    BY <2>1 DEF ProcOf, Turn, PaidCheck, jobVars
  <2> QED BY <1>1, <1>2, <2>1, <2>2, QuietShape DEF PaidCheck, jobVars
<1> QED BY <1>3, <1>4 DEF PaidCheck

LEMMA SettleShape ==
    ASSUME CompletionTypeOK, NEW a \in Admins, SettleDispute(a)
    PROVE  Shape
<1> USE TypeParts, ProcsParts
<1> DEFINE settled == Adjusted(proc[a].amount, proc[a].percent)
<1>1. Books' /\ BooksMove
  BY TableStays DEF SettleDispute
<1>2. proc[a] \in Process /\ proc[a].amount \in Nat /\ proc[a].percent \in 0..100
  BY DEF Process
<1>3. settled \in Nat
  BY <1>2, ShareIsLess
<1> DEFINE x == [proc[a] EXCEPT !.pc = "link", !.amount = settled, !.percent = 0]
<1>4. proc' = [proc EXCEPT ![a] = x] /\ balance' = settled
  BY DEF SettleDispute
<1> HIDE DEF settled
<1>5. Columns'
  BY <1>2, <1>3, <1>4 DEF SettleDispute, Columns
<1>6. x \in Process /\ x.pc = "link" /\ x.amount = settled
  <2>1. 0 \in 0..100
    OBVIOUS
  <2> QED BY <1>2, <1>3, <2>1 DEF Process, Steps
<1> HIDE DEF x
<1>7. ProcOf(a, x)
  BY <1>4, <1>6, OneProcess
<1>8. Turn(a) /\ proc'[a].pc = "link"
  BY <1>4, <1>6, <1>7 DEF ProcOf, Turn, SettleDispute
<1>9. DisputesMove
  BY <1>6, <1>7, NobodyStartsTelling DEF DisputesMove, SettleDispute
<1>10. BalanceMoves
  BY <1>4, <1>8 DEF BalanceMoves, SettleDispute, settled
<1>11. CompletionTypeOK'
  BY <1>1, <1>5, <1>7 DEF CompletionTypeOK, Books, Columns, ProcOf
<1> QED BY <1>1, <1>7, <1>8, <1>9, <1>10, <1>11, OneTurn
        DEF Shape, PayoutMoves, SettleDispute

LEMMA UpdateShape ==
    ASSUME CompletionTypeOK, NEW a \in Admins,
           NEW s \in {"ARRIVED", "COMPLETED", "CANCELLED"}, UpdateStatus(a, s)
    PROVE  Shape
<1> USE TypeParts, ProcsParts
<1>1. Books' /\ BooksMove
  BY TableStays DEF UpdateStatus
<1>2. Columns'
  BY DEF UpdateStatus, Columns, historyVars
<1>3. CASE UNCHANGED proc
  BY <1>1, <1>2, <1>3, StillShape DEF UpdateStatus
<1>4. CASE Goto(a, "mark")
  <2>1. PICK x \in Process : ProcOf(a, x) /\ x.pc = "mark"
    BY <1>4, GotoProcess DEF Steps
  <2>2. Turn(a)
    BY <2>1 DEF ProcOf, Turn
  <2> QED BY <1>1, <1>2, <2>1, <2>2, QuietShape DEF UpdateStatus
<1> QED BY <1>3, <1>4 DEF UpdateStatus

(* A process that has read the balance goes on with what it read.          *)
Reads(p, x, pc, a) == x = [p EXCEPT !.pc = pc, !.amount = a]

ReadsPaid(p, x, pc, a, seen) ==
    x = [p EXCEPT !.pc = pc, !.amount = a, !.paidSeen = seen]

LEMMA ReadProcess ==
    ASSUME NEW p \in Process, NEW pc \in Steps, NEW a \in Nat, NEW x,
           \/ Reads(p, x, pc, a)
           \/ \E seen \in BOOLEAN : ReadsPaid(p, x, pc, a, seen)
    PROVE  x \in Process /\ x.pc = pc /\ x.amount = a
BY DEF Process, Reads, ReadsPaid

LEMMA MarkReadShape ==
    ASSUME CompletionTypeOK, NEW w \in Procs, MarkRead(w)
    PROVE  Shape
<1> USE TypeParts
<1>1. Books' /\ BooksMove
  BY TableStays DEF MarkRead
<1>2. Columns'
  BY DEF MarkRead, Columns, jobVars, historyVars
<1>3. CASE Stop(w)
  <2>1. ProcOf(w, Idle) /\ Idle.pc = "idle"
    BY <1>3, StopProcess, IdleProcess
  <2>2. Turn(w)
    BY <2>1 DEF ProcOf, Turn
  <2> QED BY <1>1, <1>2, <2>1, <2>2, QuietShape DEF MarkRead, jobVars
<1>4. CASE proc' = [proc EXCEPT ![w].pc = "complete", ![w].amount = balance,
                                ![w].paidSeen = BalancePaid]
  <2> DEFINE seen == BalancePaid
             x == [proc[w] EXCEPT !.pc = "complete", !.amount = balance,
                                  !.paidSeen = seen]
  <2>1. seen \in BOOLEAN
    BY DEF BalancePaid
  <2>2. proc' = [proc EXCEPT ![w] = x]
    BY <1>4
  <2> HIDE DEF seen
  <2>3. x \in Process /\ x.pc = "complete" /\ x.amount = balance
    <3>1. proc[w] \in Process /\ balance \in Nat /\ "complete" \in Steps
      BY DEF Columns, Steps
    <3>2. \E v \in BOOLEAN : ReadsPaid(proc[w], x, "complete", balance, v)
      BY <2>1 DEF ReadsPaid
    <3> HIDE DEF x
    <3> QED BY <3>1, <3>2, ReadProcess
  <2> HIDE DEF x
  <2>4. ProcOf(w, x)
    BY <2>3, <2>2, OneProcess
  <2>5. Turn(w)
    BY <2>3, <2>4 DEF ProcOf, Turn, MarkRead, jobVars
  <2> QED BY <1>1, <1>2, <2>3, <2>4, <2>5, QuietShape DEF MarkRead, jobVars
<1> QED BY <1>3, <1>4 DEF MarkRead

LEMMA MarkWriteShape ==
    ASSUME CompletionTypeOK, NEW w \in Procs, MarkWrite(w)
    PROVE  Shape
<1> USE TypeParts
<1>1. Books' /\ BooksMove
  BY TableStays DEF MarkWrite
<1>2. Columns'
  BY DEF MarkWrite, Columns, historyVars
<1>3. CASE Return(w)
  <2>1. PICK x \in Process : ProcOf(w, x) /\ x.pc \in {"idle", "reset"}
    BY <1>3, ReturnProcess
  <2>2. Turn(w)
    BY <2>1 DEF ProcOf, Turn
  <2> QED BY <1>1, <1>2, <2>1, <2>2, QuietShape DEF MarkWrite
<1>4. CASE Goto(w, "link")
  <2>1. PICK x \in Process : ProcOf(w, x) /\ x.pc = "link" /\ x.amount = proc[w].amount
    BY <1>4, GotoProcess DEF Steps
  <2>2. Turn(w)
    BY <2>1 DEF ProcOf, Turn, MarkWrite
  <2> QED BY <1>1, <1>2, <2>1, <2>2, QuietShape DEF MarkWrite
<1> QED BY <1>3, <1>4 DEF MarkWrite

LEMMA InsertShape ==
    ASSUME CompletionTypeOK, NEW w \in Procs, InsertBalance(w)
    PROVE  Shape
<1> USE TypeParts
<1>1. Columns'
  BY DEF InsertBalance, Columns, jobVars, historyVars
<1>2. CASE proc[w].amount = 0 /\ Goto(w, "finalize") /\ UNCHANGED <<payments, amount>>
  <2>1. PICK x \in Process : ProcOf(w, x) /\ x.pc = "finalize"
    BY <1>2, GotoProcess DEF Steps
  <2>2. Turn(w)
    BY <1>2, <2>1 DEF ProcOf, Turn, InsertBalance, jobVars
  <2> QED BY <1>1, <1>2, <2>1, <2>2, TableStays, QuietShape DEF InsertBalance, jobVars
<1>3. ASSUME NEW p \in PaymentIds, Create(p, Job, "BALANCE"),
             amount' = [amount EXCEPT ![p] = proc[w].amount],
             proc' = [proc EXCEPT ![w].pc = "submit", ![w].row = p]
      PROVE  Shape
  <2>1. proc[w].pc = "link" /\ proc[w].amount \in Nat
    BY DEF InsertBalance, Process
  <2>2. Books' /\ BooksMove
    BY <1>3, <2>1, BillMoves
  <2> DEFINE x == [proc[w] EXCEPT !.pc = "submit", !.row = p]
  <2>3. x \in Process /\ x.pc = "submit" /\ x.row = p
    BY DEF Process, Steps
  <2>4. proc' = [proc EXCEPT ![w] = x]
    BY <1>3
  <2> HIDE DEF x
  <2>5. ProcOf(w, x)
    BY <2>3, <2>4, OneProcess
  <2>6. Turn(w)
    BY <2>3, <2>5 DEF ProcOf, Turn
  <2> QED BY <1>1, <2>2, <2>3, <2>5, <2>6, QuietShape DEF InsertBalance, jobVars
<1>4. CASE Return(w) /\ UNCHANGED <<payments, amount>>
  <2>1. PICK x \in Process : ProcOf(w, x) /\ x.pc \in {"idle", "reset"}
    BY <1>4, ReturnProcess
  <2>2. Turn(w)
    BY <2>1 DEF ProcOf, Turn
  <2> QED BY <1>1, <1>4, <2>1, <2>2, TableStays, QuietShape DEF InsertBalance, jobVars
<1> QED BY <1>2, <1>3, <1>4 DEF InsertBalance

(* A process at "submit" or "post" holds a row that exists.                *)
LEMMA SubmitShape ==
    ASSUME CompletionTypeOK, NEW w \in Procs, SubmitBalance(w),
           proc[w].row \in PaymentIds
    PROVE  Shape
<1> USE TypeParts
<1>1. Columns'
  BY DEF SubmitBalance, Columns, jobVars, historyVars
<1>2. CASE ClaimForSubmission(proc[w].row) /\ Goto(w, "post")
  <2>1. PICK x \in Process : ProcOf(w, x) /\ x.pc = "post" /\ x.row = proc[w].row
    BY <1>2, GotoProcess DEF Steps
  <2>2. Turn(w)
    BY <2>1 DEF ProcOf, Turn, SubmitBalance
  <2>3. Books' /\ BooksMove
    BY <1>2, ClaimMoves DEF SubmitBalance
  <2> QED BY <1>1, <2>1, <2>2, <2>3, QuietShape DEF SubmitBalance, jobVars
<1>3. CASE Return(w) /\ UNCHANGED payments
  <2>1. PICK x \in Process : ProcOf(w, x) /\ x.pc \in {"idle", "reset"}
    BY <1>3, ReturnProcess
  <2>2. Turn(w)
    BY <2>1 DEF ProcOf, Turn
  <2>3. Books' /\ BooksMove
    BY <1>3, TableStays DEF SubmitBalance
  <2> QED BY <1>1, <2>1, <2>2, <2>3, QuietShape DEF SubmitBalance, jobVars
<1> QED BY <1>2, <1>3 DEF SubmitBalance

LEMMA PostShape ==
    ASSUME CompletionTypeOK, NEW w \in Procs, PostBalance(w),
           proc[w].row \in PaymentIds
    PROVE  Shape
<1> USE TypeParts
<1>1. Columns'
  BY DEF PostBalance, Columns, jobVars, historyVars
<1>2. PICK x \in Process : ProcOf(w, x) /\ x.pc \in {"idle", "reset"}
  BY ReturnProcess DEF PostBalance
<1>3. Turn(w)
  BY <1>2 DEF ProcOf, Turn
<1>4. Books' /\ BooksMove
  BY LinkMoves, TableStays, RejectionMoves DEF PostBalance
<1> QED BY <1>1, <1>2, <1>3, <1>4, QuietShape DEF PostBalance, jobVars

LEMMA ResetShape ==
    ASSUME CompletionTypeOK, NEW h \in Handlers, ResetSession(h)
    PROVE  Shape
<1> USE TypeParts, ProcsParts
<1>1. Books' /\ BooksMove
  BY TableStays DEF ResetSession
<1>2. Columns'
  BY DEF ResetSession, Columns, historyVars
<1>3. ProcOf(h, Idle) /\ Idle.pc = "idle"
  BY StopProcess, IdleProcess DEF ResetSession
<1>4. Turn(h)
  BY <1>3 DEF ProcOf, Turn
<1> QED BY <1>1, <1>2, <1>3, <1>4, QuietShape DEF ResetSession

LEMMA RowShape ==
    ASSUME CompletionTypeOK, NEW p \in PaymentIds,
           RecoverLink(p) \/ CustomerPays(p) \/ LinkGoesStale(p)
    PROVE  Shape
<1> USE TypeParts
<1>1. Columns'
  BY DEF RecoverLink, CustomerPays, LinkGoesStale, Columns, jobVars, historyVars
<1>2. Books' /\ BooksMove
  <2>1. CASE RecoverLink(p)
    BY <2>1, RecoveryMoves DEF RecoverLink
  <2>2. CASE CustomerPays(p)
    BY <2>2, TableStays DEF CustomerPays
  <2>3. CASE LinkGoesStale(p)
    BY <2>3, VerdictMoves DEF LinkGoesStale, ClaimTerminal, Terminal
  <2> QED BY <2>1, <2>2, <2>3
<1>3. /\ UNCHANGED proc /\ UNCHANGED <<dispute, balance, payout, historyVars>>
      /\ paid' \subseteq paid \cup Balances
  BY DEF RecoverLink, CustomerPays, LinkGoesStale, jobVars
<1> QED BY <1>1, <1>2, <1>3, StillShape

LEMMA SettleBalanceShape ==
    ASSUME CompletionTypeOK, paid \subseteq Balances,
           NEW k \in Hooks, NEW p \in PaymentIds, SettleBalance(k, p)
    PROVE  Shape
<1> USE TypeParts, ProcsParts
<1>1. Columns'
  BY DEF SettleBalance, Columns, jobVars, historyVars
<1>2. CASE ClaimTerminal(p, "SUCCEEDED") /\ Goto(k, "finalize")
  <2>1. Claimable(p) /\ Books' /\ BooksMove /\ payments'[p].status = "SUCCEEDED"
    BY <1>2, VerdictMoves DEF ClaimTerminal, Terminal, SettleBalance
  <2>2. SettlesABalance
    BY <2>1 DEF SettlesABalance, SettleBalance, Claimable, InFlight
  <2>3. PICK x \in Process : ProcOf(k, x) /\ x.pc = "finalize"
    BY <1>2, GotoProcess DEF Steps
  <2>4. Turn(k)
    BY <2>2, <2>3 DEF ProcOf, Turn, SettleBalance, jobVars
  <2> QED BY <1>1, <2>1, <2>3, <2>4, QuietShape DEF SettleBalance, jobVars
<1>3. CASE RecordDuplicateSuccess(p) /\ UNCHANGED proc
  <2>1. Books' /\ BooksMove
    BY <1>3, VerdictMoves DEF RecordDuplicateSuccess, Terminal, SettleBalance
  <2> QED BY <1>1, <1>3, <2>1, StillShape DEF SettleBalance, jobVars
<1> QED BY <1>2, <1>3 DEF SettleBalance

LEMMA FinalizeReadShape ==
    ASSUME CompletionTypeOK, NEW w \in Procs, FinalizeRead(w)
    PROVE  Shape
<1> USE TypeParts
<1>1. Books' /\ BooksMove
  BY TableStays DEF FinalizeRead
<1>2. Columns'
  BY DEF FinalizeRead, Columns, jobVars, historyVars
<1> DEFINE x == [proc[w] EXCEPT !.pc = "finish", !.amount = balance]
<1>3. x \in Process /\ x.pc = "finish" /\ x.amount = balance
  <2>1. proc[w] \in Process /\ balance \in Nat /\ "finish" \in Steps
    BY DEF Columns, Steps
  <2>2. Reads(proc[w], x, "finish", balance)
    BY DEF Reads
  <2> HIDE DEF x
  <2> QED BY <2>1, <2>2, ReadProcess
<1>4. proc' = [proc EXCEPT ![w] = x]
  BY DEF FinalizeRead
<1> HIDE DEF x
<1>5. ProcOf(w, x)
  BY <1>3, <1>4, OneProcess
<1>6. Turn(w)
  BY <1>3, <1>5 DEF ProcOf, Turn, FinalizeRead
<1> QED BY <1>1, <1>2, <1>3, <1>5, <1>6, QuietShape DEF FinalizeRead, jobVars

LEMMA FinalizeWriteShape ==
    ASSUME CompletionTypeOK, NEW w \in Procs, FinalizeWrite(w)
    PROVE  Shape
<1> USE TypeParts
<1>1. Books' /\ BooksMove
  BY TableStays DEF FinalizeWrite
<1>2. Columns'
  BY DEF FinalizeWrite, Columns, historyVars
<1>3. PICK x \in Process : ProcOf(w, x) /\ x.pc = "notify" /\ x.amount = proc[w].amount
  BY GotoProcess DEF FinalizeWrite, Steps
<1>4. Turn(w)
  BY <1>3 DEF ProcOf, Turn, FinalizeWrite
<1> QED BY <1>1, <1>2, <1>3, <1>4, QuietShape DEF FinalizeWrite

LEMMA NotifyShape ==
    ASSUME CompletionTypeOK, NEW w \in Procs, Notify(w)
    PROVE  Shape
<1> USE TypeParts
<1>1. Books' /\ BooksMove
  BY TableStays DEF Notify
<1>2. Columns'
  BY DEF Notify, Columns, historyVars
<1>3. CASE Goto(w, "pay")
  <2>1. PICK x \in Process : ProcOf(w, x) /\ x.pc = "pay" /\ x.amount = proc[w].amount
    BY <1>3, GotoProcess DEF Steps
  <2>2. Turn(w)
    BY <2>1 DEF ProcOf, Turn, Notify
  <2> QED BY <1>1, <1>2, <2>1, <2>2, QuietShape DEF Notify
<1>4. CASE Stop(w)
  <2>1. ProcOf(w, Idle) /\ Idle.pc = "idle"
    BY <1>4, StopProcess, IdleProcess
  <2>2. Turn(w)
    BY <2>1 DEF ProcOf, Turn
  <2> QED BY <1>1, <1>2, <2>1, <2>2, QuietShape DEF Notify
<1> QED BY <1>3, <1>4 DEF Notify

LEMMA AskPayoutShape ==
    ASSUME CompletionTypeOK, NEW w \in Procs, AskPayout(w)
    PROVE  Shape
<1> USE TypeParts
<1> DEFINE share == OperatorShare(proc[w].amount)
<1>1. Books' /\ BooksMove
  BY TableStays DEF AskPayout
<1>2. proc[w].amount \in Nat /\ share \in Int
  <2>1. proc[w].amount \in Nat
    BY DEF Process
  <2> QED BY <2>1, CompletionAmounts DEF OperatorShare
<1>3. payout' \in {payout, share}
  BY DEF AskPayout
<1>4. PayoutMoves
  BY <1>3 DEF PayoutMoves, AskPayout
<1> HIDE DEF share
<1>5. Columns'
  BY <1>2, <1>3 DEF AskPayout, Columns, historyVars
<1>6. PICK x \in Process : ProcOf(w, x) /\ x.pc \in {"idle", "reset"}
  BY ReturnProcess DEF AskPayout
<1>7. Turn(w)
  BY <1>6 DEF ProcOf, Turn
<1>8. DisputesMove
  BY <1>6, NobodyStartsTelling DEF DisputesMove, CountsStay, AskPayout, historyVars
<1>9. CompletionTypeOK'
  BY <1>1, <1>5, <1>6 DEF CompletionTypeOK, Books, Columns, ProcOf
<1> QED BY <1>1, <1>4, <1>6, <1>7, <1>8, <1>9, OneTurn
        DEF Shape, BalanceMoves, AskPayout

LEMMA CrashShape ==
    ASSUME CompletionTypeOK, NEW w \in Procs, Crash(w)
    PROVE  Shape
<1> USE TypeParts
<1>1. Books' /\ BooksMove
  BY TableStays DEF Crash
<1>2. Columns'
  BY DEF Crash, Columns, jobVars, historyVars
<1>3. ProcOf(w, Idle) /\ Idle.pc = "idle"
  BY StopProcess, IdleProcess DEF Crash
<1>4. Turn(w)
  BY <1>3 DEF ProcOf, Turn
<1> QED BY <1>1, <1>2, <1>3, <1>4, QuietShape DEF Crash, jobVars
-----------------------------------------------------------------------------
(* Every process that submits or posts a row holds one, and what has been  *)
(* paid is a balance of this job.                                          *)
RowHeld(w) == proc[w].pc \in {"submit", "post"} => proc[w].row \in PaymentIds

Control ==
    /\ CompletionTypeOK
    /\ paid \subseteq Balances
    /\ \A w \in Procs : RowHeld(w)

LEMMA StepShape ==
    ASSUME Control, CompletionNext
    PROVE  Shape
<1> USE DEF Control
<1>1. ASSUME NEW h \in Handlers, \/ Confirm(h) \/ Dispute(h) \/ RaiseDispute(h)
                                 \/ TellStaff(h) \/ ResetSession(h)
      PROVE  Shape
  BY <1>1, ReplyShape, RaiseShape, TellShape, ResetShape DEF Confirm, Dispute
<1>2. CASE GiveReason \/ OperatorDone \/ Cancel
  BY <1>2, SessionShape
<1>3. ASSUME NEW a \in Admins, PaidCheck(a) \/ SettleDispute(a)
      PROVE  Shape
  BY <1>3, PaidCheckShape, SettleShape
<1>4. ASSUME NEW a \in Admins, NEW percent \in Percents, ResolveDispute(a, percent)
      PROVE  Shape
  BY <1>4, ResolveShape
<1>5. ASSUME NEW a \in Admins, NEW s \in {"ARRIVED", "COMPLETED", "CANCELLED"},
             UpdateStatus(a, s)
      PROVE  Shape
  BY <1>5, UpdateShape
<1>6. ASSUME NEW w \in Procs, \/ MarkRead(w) \/ MarkWrite(w) \/ InsertBalance(w)
                              \/ SubmitBalance(w) \/ PostBalance(w)
                              \/ FinalizeRead(w) \/ FinalizeWrite(w) \/ Notify(w)
                              \/ AskPayout(w) \/ Crash(w)
      PROVE  Shape
  <2>1. CASE SubmitBalance(w)
    BY <2>1, SubmitShape DEF RowHeld, SubmitBalance
  <2>2. CASE PostBalance(w)
    BY <2>2, PostShape DEF RowHeld, PostBalance
  <2> QED BY <1>6, <2>1, <2>2, MarkReadShape, MarkWriteShape, InsertShape,
             FinalizeReadShape, FinalizeWriteShape, NotifyShape, AskPayoutShape,
             CrashShape
<1>7. ASSUME NEW p \in PaymentIds, RecoverLink(p) \/ CustomerPays(p) \/ LinkGoesStale(p)
      PROVE  Shape
  BY <1>7, RowShape
<1>8. ASSUME NEW k \in Hooks, NEW p \in PaymentIds, SettleBalance(k, p)
      PROVE  Shape
  BY <1>8, SettleBalanceShape
<1> QED BY <1>1, <1>2, <1>3, <1>4, <1>5, <1>6, <1>7, <1>8 DEF CompletionNext

LEMMA StutterIsStill ==
    ASSUME Control, UNCHANGED completionVars
    PROVE  Shape
<1>1. Books' /\ BooksMove /\ Columns'
  BY TypeParts, TableStays DEF completionVars, jobVars, historyVars, Columns, Control
<1> QED BY <1>1, StillShape DEF completionVars, jobVars, historyVars, Control

LEMMA ControlStep ==
    ASSUME Control, Shape
    PROVE  Control'
<1>1. paid' \subseteq Balances'
  BY DEF Control, Shape, BooksMove
<1>2. ASSUME NEW w \in Procs
      PROVE  RowHeld(w)'
  BY DEF Control, Shape, ProcsMove, Turn, RowHeld
<1> QED BY <1>1, <1>2 DEF Control, Shape

LEMMA InitControl == CompletionInit => Control
<1> SUFFICES ASSUME CompletionInit PROVE Control
  OBVIOUS
<1>1. AbsentRow \in Row
  BY CapAssumption DEF AbsentRow, Row
<1>2. Books
  BY <1>1 DEF CompletionInit, Init, Books, TypeOK
<1>3. Columns
  BY CompletionAmounts DEF CompletionInit, Columns
<1>4. proc \in [Procs -> Process]
  BY IdleProcess DEF CompletionInit
<1>5. \A w \in Procs : RowHeld(w)
  BY IdleProcess DEF CompletionInit, RowHeld
<1>6. paid \subseteq Balances
  BY DEF CompletionInit
<1> QED BY <1>2, <1>3, <1>4, <1>5, <1>6, TypeParts DEF Control

LEMMA ControlInvariant == CompletionSpec => []Control
<1>1. Control /\ [CompletionNext]_completionVars => Control'
  BY StepShape, StutterIsStill, ControlStep
<1> QED BY <1>1, InitControl, PTL DEF CompletionSpec

(* Every reachable state has the declared shape: a balance is a natural    *)
(* number however it is settled, and a process that submits or posts a row *)
(* holds one.                                                              *)
THEOREM CompletionTypeCorrect == CompletionSpec => []CompletionTypeOK
<1>1. Control => CompletionTypeOK
  BY DEF Control
<1> QED BY <1>1, ControlInvariant, PTL

-----------------------------------------------------------------------------
(* Disputes.  While one is open there is one more raised than closed; and  *)
(* each delivery that has still to tell staff stands for a raise nobody    *)
(* has been told of.                                                       *)
DisputeInv ==
    /\ raises <= resolutions + (IF dispute = "open" THEN 1 ELSE 0)
    /\ staffTold + Cardinality(Telling) <= raises

LEMMA TellersAreFinite == IsFiniteSet(Telling) /\ Cardinality(Telling) \in Nat
<1>1. Telling \subseteq Handlers
  BY DEF Telling
<1>2. IsFiniteSet(Telling)
  BY <1>1, FiniteHandlers, FS_Subset
<1> QED BY <1>2, FS_CardinalityType

LEMMA FewerTellers ==
    ASSUME NEW S, NEW T, IsFiniteSet(S), T \subseteq S
    PROVE  /\ IsFiniteSet(T) /\ Cardinality(T) \in Nat /\ Cardinality(S) \in Nat
           /\ Cardinality(T) <= Cardinality(S)
  BY FS_Subset, FS_CardinalityType

LEMMA DisputeStep ==
    ASSUME Control, DisputeInv, Shape
    PROVE  DisputeInv'
<1> DEFINE S == Telling
           T == Telling'
<1>1. /\ raises \in Nat /\ resolutions \in Nat /\ staffTold \in Nat
      /\ dispute \in {"none", "open", "resolved"}
      /\ raises <= resolutions + (IF dispute = "open" THEN 1 ELSE 0)
      /\ staffTold + Cardinality(S) <= raises
  BY DEF Control, CompletionTypeOK, DisputeInv
<1>2. IsFiniteSet(S) /\ Cardinality(S) \in Nat
  BY TellersAreFinite
<1>3. DisputeInv' <=> /\ raises' <= resolutions' + (IF dispute' = "open" THEN 1 ELSE 0)
                      /\ staffTold' + Cardinality(T) <= raises'
  BY DEF DisputeInv
<1>4. DisputesMove
  BY DEF Shape
<1>5. CASE CountsStay /\ T \subseteq S
  <2> HIDE DEF S, T
  <2>1. Cardinality(T) \in Nat /\ Cardinality(T) <= Cardinality(S)
    BY <1>2, <1>5, FewerTellers
  <2> QED BY <1>1, <1>2, <1>3, <1>5, <2>1 DEF CountsStay
<1>6. ASSUME NEW h \in Handlers, dispute # "open", dispute' = "open",
             raises' = raises + 1, UNCHANGED <<resolutions, staffTold>>,
             T \subseteq S \cup {h}
      PROVE  DisputeInv'
  <2> DEFINE U == S \cup {h}
  <2>1. IsFiniteSet(U) /\ Cardinality(U) <= Cardinality(S) + 1
    <3> HIDE DEF S
    <3> QED BY <1>2, FS_AddElement
  <2> HIDE DEF S, T, U
  <2>2. T \subseteq U
    BY <1>6 DEF U
  <2>3. Cardinality(T) \in Nat /\ Cardinality(U) \in Nat
        /\ Cardinality(T) <= Cardinality(U)
    BY <2>1, <2>2, FewerTellers
  <2> QED BY <1>1, <1>2, <1>3, <1>6, <2>1, <2>3
<1>7. ASSUME NEW h \in S, UNCHANGED <<dispute, raises, resolutions>>,
             staffTold' \in {staffTold, staffTold + 1}, T \subseteq S \ {h}
      PROVE  DisputeInv'
  <2> DEFINE U == S \ {h}
  <2>1. IsFiniteSet(U) /\ Cardinality(U) = Cardinality(S) - 1
    <3> HIDE DEF S
    <3> QED BY <1>2, <1>7, FS_RemoveElement
  <2> HIDE DEF S, T, U
  <2>2. T \subseteq U
    BY <1>7 DEF U
  <2>3. Cardinality(T) \in Nat /\ Cardinality(U) \in Nat
        /\ Cardinality(T) <= Cardinality(U)
    BY <2>1, <2>2, FewerTellers
  <2> QED BY <1>1, <1>2, <1>3, <1>7, <2>1, <2>3
<1>8. CASE /\ dispute' = "resolved" /\ resolutions' = resolutions + 1
           /\ UNCHANGED <<raises, staffTold>> /\ T \subseteq S
  <2> HIDE DEF S, T
  <2>1. Cardinality(T) \in Nat /\ Cardinality(T) <= Cardinality(S)
    BY <1>2, <1>8, FewerTellers
  <2> QED BY <1>1, <1>2, <1>3, <1>8, <2>1
<1> QED BY <1>4, <1>5, <1>6, <1>7, <1>8 DEF DisputesMove

(* A DISPUTE delivered any number of times, by any number of deliveries at *)
(* once, with any number of administrators resolving: one dispute is open  *)
(* at a time, and staff are alerted at most once for each.                 *)
THEOREM DisputeIsRaisedOnce == CompletionSpec => []DisputeRaisedOnce
<1>1. CompletionInit => DisputeInv
  <2> SUFFICES ASSUME CompletionInit PROVE DisputeInv
    OBVIOUS
  <2>1. Telling = {}
    BY IdleProcess DEF CompletionInit, Telling, Procs
  <2> QED BY <2>1, FS_EmptySet DEF CompletionInit, DisputeInv
<1>2. Control /\ DisputeInv /\ [CompletionNext]_completionVars => DisputeInv'
  BY StepShape, StutterIsStill, DisputeStep
<1>3. Control /\ DisputeInv => DisputeRaisedOnce
  <2> SUFFICES ASSUME Control, DisputeInv PROVE DisputeRaisedOnce
    OBVIOUS
  <2>1. raises \in Nat /\ resolutions \in Nat /\ staffTold \in Nat
    BY DEF Control, CompletionTypeOK
  <2>2. Cardinality(Telling) \in Nat
    BY TellersAreFinite
  <2> QED BY <2>1, <2>2 DEF DisputeInv, DisputeRaisedOnce
<1> QED BY <1>1, <1>2, <1>3, ControlInvariant, PTL DEF CompletionSpec

-----------------------------------------------------------------------------
(* The amounts.  With one administrator at a time, who holds the balance   *)
(* he read, a resolution only ever lowers the balance; so whatever a       *)
(* process read on the way to a link covers it, and whatever it read on    *)
(* the way to a payout is covered by a balance that was paid.              *)
OneAdministrator == \A a, b \in Admins : a = b

Covered(x) ==
    \/ x = 0
    \/ \E p \in Balances : StatusOf(p) = "SUCCEEDED" /\ x <= amount[p]

(* The same of the state a step leads to.                                  *)
CoveredThen(x) ==
    \/ x = 0
    \/ \E p \in Balances' : payments'[p].status = "SUCCEEDED" /\ x <= amount'[p]

Grounded(w) ==
    /\ proc[w].pc \in {"complete", "link"} => balance <= proc[w].amount
    /\ proc[w].pc \in {"paidCheck", "settle"} => w \in Admins /\ proc[w].amount = balance
    /\ proc[w].pc = "finalize" => Covered(balance)
    /\ proc[w].pc \in {"finish", "notify", "pay"} => Covered(proc[w].amount)

CoverInv ==
    /\ LinksCoverTheBalance
    /\ PayoutIsCovered
    /\ \A w \in Procs : Grounded(w)

LEMMA AmountsAreNat ==
    ASSUME Control
    PROVE  /\ balance \in Nat
           /\ \A w \in Procs : proc[w].amount \in Nat /\ proc[w].percent \in 0..100
           /\ \A p \in Balances : amount[p] \in Nat
<1>1. proc \in [Procs -> Process] /\ amount \in [PaymentIds -> Nat] /\ balance \in Nat
  BY DEF Control, CompletionTypeOK
<1>2. \A p \in Balances : p \in PaymentIds
  BY DEF Balances, RowsOf
<1> QED BY <1>1, <1>2 DEF Process

LEMMA AmountsStayNat ==
    ASSUME Control'
    PROVE  /\ balance' \in Nat
           /\ \A w \in Procs : proc'[w].amount \in Nat
           /\ \A p \in Balances' : amount'[p] \in Nat
<1>1. proc' \in [Procs -> Process] /\ amount' \in [PaymentIds -> Nat] /\ balance' \in Nat
  BY DEF Control, CompletionTypeOK
<1>2. \A p \in Balances' : p \in PaymentIds
  BY DEF Balances, RowsOf
<1> QED BY <1>1, <1>2 DEF Process

LEMMA BalanceOnlyFalls ==
    ASSUME Control, Shape, \A w \in Procs : Grounded(w)
    PROVE  balance' \in Nat /\ balance' <= balance
<1>1. CASE balance' = balance
  BY <1>1, AmountsAreNat
<1>2. ASSUME NEW a \in Admins, proc[a].pc = "settle",
             balance' = Adjusted(proc[a].amount, proc[a].percent)
      PROVE  balance' \in Nat /\ balance' <= balance
  <2>1. a \in Procs
    BY ProcsParts
  <2>2. proc[a].amount = balance
    BY <1>2, <2>1 DEF Grounded
  <2> QED BY <1>2, <2>1, <2>2, AmountsAreNat, ShareIsLess
<1> QED BY <1>1, <1>2 DEF Shape, BalanceMoves

(* What is covered stays covered, as does anything less.                   *)
LEMMA StillCovered ==
    ASSUME Control, Shape, NEW x \in Nat, NEW y \in Nat, y <= x, Covered(x)
    PROVE  CoveredThen(y)
<1>1. CASE x = 0
  BY <1>1 DEF CoveredThen
<1>2. ASSUME NEW p \in Balances, StatusOf(p) = "SUCCEEDED", x <= amount[p]
      PROVE  CoveredThen(y)
  <2>1. p \in Balances' /\ amount'[p] = amount[p] /\ payments'[p].status = "SUCCEEDED"
    BY <1>2 DEF Shape, BooksMove
  <2>2. amount[p] \in Nat
    BY AmountsAreNat
  <2>3. y <= amount'[p]
    BY <1>2, <2>1, <2>2
  <2> QED BY <2>1, <2>3 DEF CoveredThen
<1> QED BY <1>1, <1>2 DEF Covered

(* A balance that is settled covers the job: its link asked for no less.   *)
LEMMA SettledCovers ==
    ASSUME Control, Shape, LinksCoverTheBalance, SettlesABalance
    PROVE  CoveredThen(balance)
<1>1. PICK p \in Balances : StatusOf(p) \in InFlight /\ payments'[p].status = "SUCCEEDED"
  BY DEF SettlesABalance
<1>2. balance <= amount[p] /\ balance \in Nat /\ amount[p] \in Nat
  BY <1>1, AmountsAreNat DEF LinksCoverTheBalance
<1>3. p \in Balances' /\ amount'[p] = amount[p]
  BY <1>1 DEF Shape, BooksMove
<1> QED BY <1>1, <1>2, <1>3 DEF CoveredThen

LEMMA LinksStep ==
    ASSUME Control, CoverInv, Shape
    PROVE  LinksCoverTheBalance'
<1>1. Control' /\ balance' \in Nat /\ balance' <= balance
  BY ControlStep, BalanceOnlyFalls DEF CoverInv
<1> SUFFICES ASSUME NEW p \in Balances', payments'[p].status \in InFlight
             PROVE  amount'[p] >= balance'
  BY DEF LinksCoverTheBalance, StatusOf, InFlight
<1>2. CASE p \in Balances /\ StatusOf(p) \in InFlight
  <2>1. amount'[p] = amount[p] /\ amount[p] >= balance /\ amount[p] \in Nat
    BY <1>2, AmountsAreNat DEF CoverInv, LinksCoverTheBalance, Shape, BooksMove
  <2> QED BY <1>1, <2>1, AmountsAreNat
<1>3. ASSUME NEW w \in Procs, proc[w].pc = "link", amount'[p] = proc[w].amount
      PROVE  amount'[p] >= balance'
  <2>1. balance <= proc[w].amount
    BY <1>3 DEF CoverInv, Grounded
  <2> QED BY <1>1, <1>3, <2>1, AmountsAreNat
<1> QED BY <1>2, <1>3 DEF Shape, BooksMove

LEMMA PayoutStep ==
    ASSUME Control, CoverInv, Shape
    PROVE  PayoutIsCovered'
<1>0. Control' /\ DepositAmount \in Nat /\ ServiceFee \in Nat
  BY ControlStep, CompletionAmounts
<1> SUFFICES ASSUME payout' # NoAmount
             PROVE  \/ payout' <= DepositAmount - ServiceFee
                    \/ \E p \in Balances' : /\ payments'[p].status = "SUCCEEDED"
                                            /\ payout' <= DepositAmount + amount'[p] - ServiceFee
  BY DEF PayoutIsCovered, StatusOf
<1>1. \A p \in Balances : /\ p \in Balances' /\ amount'[p] = amount[p]
                          /\ StatusOf(p) = "SUCCEEDED" => payments'[p].status = "SUCCEEDED"
  BY DEF Shape, BooksMove
<1>2. CASE payout' = payout
  BY <1>1, <1>2 DEF CoverInv, PayoutIsCovered
<1>3. ASSUME NEW w \in Procs, proc[w].pc = "pay", payout' = OperatorShare(proc[w].amount)
      PROVE  \/ payout' <= DepositAmount - ServiceFee
             \/ \E p \in Balances' : /\ payments'[p].status = "SUCCEEDED"
                                     /\ payout' <= DepositAmount + amount'[p] - ServiceFee
  <2>1. Covered(proc[w].amount) /\ proc[w].amount \in Nat
    BY <1>3, AmountsAreNat DEF CoverInv, Grounded
  <2>2. payout' = DepositAmount + proc[w].amount - ServiceFee
    BY <1>3 DEF OperatorShare
  <2>3. CASE proc[w].amount = 0
    BY <1>0, <2>2, <2>3
  <2>4. ASSUME NEW p \in Balances, StatusOf(p) = "SUCCEEDED", proc[w].amount <= amount[p]
        PROVE  /\ payments'[p].status = "SUCCEEDED" /\ p \in Balances'
               /\ payout' <= DepositAmount + amount'[p] - ServiceFee
    <3>1. amount[p] \in Nat /\ amount'[p] = amount[p]
      BY <1>1, AmountsAreNat
    <3>2. payout' <= DepositAmount + amount'[p] - ServiceFee
      BY <1>0, <2>1, <2>2, <2>4, <3>1
    <3> QED BY <1>1, <2>4, <3>2
  <2> QED BY <2>1, <2>3, <2>4 DEF Covered
<1> QED BY <1>2, <1>3 DEF Shape, PayoutMoves

(* A process that stays where it is ...                                    *)
LEMMA StillGrounded ==
    ASSUME OneAdministrator, Control, CoverInv, Shape, NEW w \in Procs,
           proc'[w] = proc[w]
    PROVE  Grounded(w)'
<1>1. balance' \in Nat /\ balance' <= balance /\ balance \in Nat
  BY BalanceOnlyFalls, AmountsAreNat DEF CoverInv
<1>2. proc[w].amount \in Nat /\ Grounded(w)
  BY AmountsAreNat DEF CoverInv
<1>3. proc[w].pc \in {"complete", "link"} => balance' <= proc[w].amount
  BY <1>1, <1>2 DEF Grounded
<1>4. ASSUME proc[w].pc \in {"paidCheck", "settle"}
      PROVE  w \in Admins /\ proc[w].amount = balance'
  <2>1. CASE balance' = balance
    BY <1>2, <1>4, <2>1 DEF Grounded
  <2>2. ASSUME NEW a \in Admins, proc'[a].pc \notin {"paidCheck", "settle"}
        PROVE  FALSE
    BY <1>2, <1>4, <2>2 DEF Grounded, OneAdministrator
  <2> QED BY <2>1, <2>2 DEF Shape, BalanceMoves
<1>5. proc[w].pc = "finalize" => CoveredThen(balance')
  BY <1>1, <1>2, StillCovered DEF Grounded
<1>6. proc[w].pc \in {"finish", "notify", "pay"} => CoveredThen(proc[w].amount)
  <2>1. proc[w].amount <= proc[w].amount
    BY <1>2
  <2> QED BY <1>2, <2>1, StillCovered DEF Grounded
<1> QED BY <1>3, <1>4, <1>5, <1>6 DEF Grounded, Covered, CoveredThen, StatusOf

(* ... and one that takes a turn.                                          *)
LEMMA TurnGrounded ==
    ASSUME Control, CoverInv, Shape, NEW w \in Procs, Turn(w)
    PROVE  Grounded(w)'
<1>1. balance' \in Nat /\ balance' <= balance /\ balance \in Nat
  BY BalanceOnlyFalls, AmountsAreNat DEF CoverInv
<1>2. /\ proc[w].amount \in Nat /\ proc'[w].amount \in Nat /\ Grounded(w)
      /\ LinksCoverTheBalance
  BY ControlStep, AmountsAreNat, AmountsStayNat DEF CoverInv
<1>3. CASE proc'[w].pc \in {"idle", "mark", "reset", "raise", "tell", "submit", "post"}
  BY <1>3 DEF Grounded
<1>4. CASE proc'[w].pc \in {"complete", "link"}
  <2>1. balance' <= proc'[w].amount
    BY <1>1, <1>2, <1>4 DEF Turn, Grounded
  <2> QED BY <1>4, <2>1 DEF Grounded
<1>5. CASE proc'[w].pc \in {"paidCheck", "settle"}
  BY <1>2, <1>5 DEF Turn, Grounded
<1>6. CASE proc'[w].pc = "finalize"
  <2>1. balance' = balance
    BY <1>6 DEF Turn
  <2>2. CASE proc[w].pc = "link" /\ proc[w].amount = 0
    <3>1. balance = 0
      BY <1>1, <1>2, <2>2 DEF Grounded
    <3> QED BY <1>6, <2>1, <3>1 DEF Grounded, Covered
  <2>3. CASE SettlesABalance
    <3>1. CoveredThen(balance')
      BY <1>2, <2>1, <2>3, SettledCovers
    <3> QED BY <1>6, <3>1 DEF Grounded, Covered, CoveredThen, StatusOf
  <2> QED BY <1>6, <2>2, <2>3 DEF Turn
<1>7. CASE proc'[w].pc = "finish"
  <2>1. Covered(balance) /\ proc'[w].amount = balance
    BY <1>2, <1>7 DEF Turn, Grounded
  <2>2. CoveredThen(proc'[w].amount)
    BY <1>1, <2>1, StillCovered
  <2> QED BY <1>7, <2>2 DEF Grounded, Covered, CoveredThen, StatusOf
<1>8. CASE proc'[w].pc \in {"notify", "pay"}
  <2>1. Covered(proc[w].amount) /\ proc'[w].amount = proc[w].amount
    BY <1>2, <1>8 DEF Turn, Grounded
  <2>2. proc[w].amount <= proc[w].amount
    BY <1>2
  <2>3. CoveredThen(proc'[w].amount)
    BY <1>2, <2>1, <2>2, StillCovered
  <2> QED BY <1>8, <2>3 DEF Grounded, Covered, CoveredThen, StatusOf
<1> QED BY <1>3, <1>4, <1>5, <1>6, <1>7, <1>8 DEF Turn

LEMMA CoverStep ==
    ASSUME OneAdministrator, Control, CoverInv, Shape
    PROVE  CoverInv'
<1>1. \A w \in Procs : Grounded(w)'
  BY StillGrounded, TurnGrounded DEF Shape, ProcsMove
<1> QED BY <1>1, LinksStep, PayoutStep DEF CoverInv

LEMMA CoverInvariant ==
    ASSUME OneAdministrator
    PROVE  CompletionSpec => []CoverInv
<1>1. CompletionInit => CoverInv
  <2> SUFFICES ASSUME CompletionInit PROVE CoverInv
    OBVIOUS
  <2>1. Balances = {}
    BY DEF CompletionInit, Init, AbsentRow, Balances, RowsOf, Exists, StatusOf
  <2>2. \A w \in Procs : Grounded(w)
    BY IdleProcess DEF CompletionInit, Grounded
  <2> QED BY <2>1, <2>2 DEF CompletionInit, CoverInv, LinksCoverTheBalance, PayoutIsCovered
<1>2. Control /\ CoverInv /\ [CompletionNext]_completionVars => CoverInv'
  BY StepShape, StutterIsStill, CoverStep
<1> QED BY <1>1, <1>2, ControlInvariant, PTL DEF CompletionSpec

(* While administrators resolve and override one at a time, a link that    *)
(* can still be paid asks for at least what the job now costs ...          *)
THEOREM LinksAlwaysCover ==
    ASSUME OneAdministrator
    PROVE  CompletionSpec => []LinksCoverTheBalance
<1>1. CoverInv => LinksCoverTheBalance
  BY DEF CoverInv
<1> QED BY <1>1, CoverInvariant, PTL

(* ... and the operator's share never exceeds what the customer has paid,  *)
(* whatever the amounts and percentages, and however often CONFIRM,        *)
(* DISPUTE, webhooks and crashes are repeated.                             *)
THEOREM PayoutAlwaysCovered ==
    ASSUME OneAdministrator
    PROVE  CompletionSpec => []PayoutIsCovered
<1>1. CoverInv => PayoutIsCovered
  BY DEF CoverInv
<1> QED BY <1>1, CoverInvariant, PTL
=============================================================================
