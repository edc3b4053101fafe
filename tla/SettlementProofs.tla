-------------------------- MODULE SettlementProofs --------------------------
(***************************************************************************)
(* Theorems about Settlement, for every number of administrators,          *)
(* reconciler instances, rows, refunds, percentages and crashes.           *)
(*                                                                         *)
(* Paystack cannot recognise a refund it has been asked for before, so     *)
(* everything hangs on the row: one that has been claimed (Past) has at    *)
(* most one POST, ever, whether it is about to be sent, on its way or made *)
(* a refund of.  What is then said of a row's refund stays true of it.     *)
(***************************************************************************)
EXTENDS Settlement, PaymentLedgerProofs, Integers

(* The steps at which a process holds a row.                               *)
OnARow == {"submit", "post", "apply", "initiate", "verify", "list", "match",
           "backoff"}

Placed(x) == x \in Process /\ (x.pc \in OnARow => x.row \in PaymentIds)

Located ==
    /\ proc \in [Procs -> Process]
    /\ \A w \in Procs : Placed(proc[w])

Refund == [note : PaymentIds, status : RefundStatuses]

Surroundings ==
    /\ amount \in [PaymentIds -> Nat]
    /\ cancelled \in BOOLEAN
    /\ settlement \in Percents \cup {NoDecision}
    /\ legsRun \subseteq {"refund", "payout"}
    /\ refunds \in Seq(Refund)
    /\ inTransit \subseteq PaymentIds
    /\ crashes \in 0..MaxCrashes

-----------------------------------------------------------------------------
(* The refunds.                                                            *)
At(w, p)    == proc[w].pc = "post" /\ proc[w].row = p
Noted(i, p) == i \in DOMAIN refunds /\ refunds[i].note = p

(* No refund of p will be made any more.                                   *)
Spent(p) == p \notin inTransit /\ \A w \in Procs : ~At(w, p)

(* One POST per claimed row: to be sent, on its way, or done.              *)
OnePost ==
    \A p \in PaymentIds :
        /\ \A w \in Procs : At(w, p) =>
              /\ Past(p) /\ p \notin inTransit
              /\ \A x \in Procs : At(x, p) => x = w
        /\ p \in inTransit => Past(p)
        /\ \A i \in DOMAIN refunds : Noted(i, p) =>
              /\ Past(p) /\ Spent(p)
              /\ \A j \in DOMAIN refunds : Noted(j, p) => j = i

(* What a process has been told of its row's refund.                       *)
Told(w) ==
    proc[w].pc \in {"apply", "match"} =>
       LET p == proc[w].row IN
       /\ Past(p)
       /\ proc[w].answer \in {"processed", "failed"} =>
             \E i \in DOMAIN refunds : Noted(i, p) /\ refunds[i].status = proc[w].answer
       /\ proc[w].answer = "rejected" /\ ~UnreadableAnswers =>
             Spent(p) /\ \A i \in DOMAIN refunds : ~Noted(i, p)

(* What a settled row says of its refund.                                  *)
Book(p) ==
    Exists(p) /\ payments[p].type = "REFUND" =>
       /\ StatusOf(p) = "SUCCEEDED" =>
             \E i \in DOMAIN refunds : Noted(i, p) /\ refunds[i].status = "processed"
       /\ StatusOf(p) = "FAILED" /\ ~UnreadableAnswers =>
             Spent(p) /\ \A i \in DOMAIN refunds : Noted(i, p) => refunds[i].status = "failed"

-----------------------------------------------------------------------------
(* The shares.                                                             *)

(* Who carries out a settlement, and what it was decided to be.            *)
Carried(w) ==
    /\ proc[w].pc = "idle" => ~Settles(w)
    /\ proc[w].pc \in {"decide", "payout"} => Settles(w)
    /\ Settles(w) => w \in Admins /\ (proc[w].pc # "decide" => settlement = proc[w].percent)

Share(p) ==
    Exists(p) =>
       /\ payments[p].type = "REFUND" =>
             \/ amount[p] = DepositAmount
             \/ settlement # NoDecision /\ amount[p] = RefundShare(Splittable, settlement)
       /\ payments[p].type = "PAYOUT" =>
             settlement # NoDecision /\ amount[p] = PayoutShare(Splittable, settlement)

BeforePayout == {"insert", "submit", "post", "apply", "payout"}

LegsUnderWay ==
    settlement # NoDecision /\ crashes = 0 =>
       /\ RefundShare(Splittable, settlement) > 0 =>
             "refund" \in legsRun \/ \E w \in Admins : Settles(w) /\ proc[w].pc = "insert"
       /\ PayoutShare(Splittable, settlement) > 0 =>
             "payout" \in legsRun \/ \E w \in Admins : Settles(w) /\ proc[w].pc \in BeforePayout

SInv ==
    /\ IInv /\ Located /\ Surroundings
    /\ OnePost
    /\ \A w \in Procs : Told(w) /\ Carried(w)
    /\ \A p \in PaymentIds : Book(p) /\ Share(p)
    /\ LegsUnderWay

-----------------------------------------------------------------------------
(* The shares of a settlement are whole kobo, and together what there is   *)
(* to split.                                                               *)
LEMMA RoundedIsLess ==
    ASSUME NEW b \in Nat \ {0}, NEW m \in Nat, NEW a \in Nat, a <= m * b
    PROVE  Rounded(a, b) \in 0..m
<1> DEFINE n == 2 * a + b
           d == 2 * b
           q == n \div d
<1>1. n \in Nat /\ d \in Nat /\ d > 0
  OBVIOUS
<1>2. q \in Int /\ q * d <= n /\ n < (q + 1) * d
  BY <1>1
<1>3. q \in Nat
  <2> SUFFICES ASSUME q < 0 PROVE FALSE
    BY <1>2
  <2> DEFINE k == -(q + 1)
  <2>1. k \in Nat
    BY <1>2
  <2>2. k * d \in Nat
    BY <1>1, <2>1
  <2>3. (q + 1) * d = -(k * d)
    BY <1>1, <1>2
  <2> QED BY <1>1, <1>2, <2>2, <2>3
<1>4. n < (m + 1) * d
  <2>1. (m + 1) * d = 2 * (m * b) + 2 * b
    OBVIOUS
  <2>2. m * b \in Nat
    OBVIOUS
  <2> QED BY <2>1, <2>2
<1>5. q <= m
  <2> SUFFICES ASSUME q >= m + 1 PROVE FALSE
    BY <1>2
  <2> DEFINE k == q - (m + 1)
  <2>1. k \in Nat /\ k * d \in Nat
    BY <1>1, <1>2
  <2>2. q * d = (m + 1) * d + k * d
    BY <1>1, <1>2
  <2>3. (m + 1) * d \in Nat
    BY <1>1
  <2> QED BY <1>1, <1>2, <1>4, <2>1, <2>2, <2>3
<1> QED BY <1>3, <1>5 DEF Rounded

LEMMA SplittableNat == Splittable \in Nat
<1> USE AmountAssumption
<1>1. CASE TotalAmount = 0
  BY <1>1 DEF Splittable, FeeKeptOut
<1>2. CASE TotalAmount > 0
  <2> DEFINE a == DepositAmount * ServiceFee
             k == TotalAmount - ServiceFee
  <2>1. a \in Nat /\ k \in Nat /\ DepositAmount * k \in Nat
    OBVIOUS
  <2>2. DepositAmount * TotalAmount = a + DepositAmount * k
    OBVIOUS
  <2>3. a <= DepositAmount * TotalAmount
    BY <2>1, <2>2
  <2> HIDE DEF a
  <2>4. Rounded(a, TotalAmount) \in 0..DepositAmount
    BY <1>2, <2>1, <2>3, RoundedIsLess
  <2> QED BY <1>2, <2>4 DEF Splittable, FeeKeptOut, a
<1> QED BY <1>1, <1>2

LEMMA SharesAddUp ==
    ASSUME NEW percent \in Percents
    PROVE  /\ RefundShare(Splittable, percent) \in Nat
           /\ PayoutShare(Splittable, percent) \in Nat
           /\ RefundShare(Splittable, percent) + PayoutShare(Splittable, percent) = Splittable
<1> DEFINE s == Splittable
           a == s * percent
<1>1. s \in Nat /\ percent \in 0..100
  BY SplittableNat, PercentAssumption
<1> HIDE DEF s
<1>2. a \in Nat /\ a <= s * 100
  <2>1. percent \in Nat /\ 100 - percent \in Nat
    BY <1>1
  <2>2. a \in Nat /\ s * (100 - percent) \in Nat
    BY <1>1, <2>1
  <2>3. s * 100 = a + s * (100 - percent)
    BY <1>1, <2>1
  <2> QED BY <2>2, <2>3, <1>1
<1> HIDE DEF a
<1>3. Rounded(a, 100) \in 0..s
  BY <1>1, <1>2, RoundedIsLess
<1> QED BY <1>1, <1>3 DEF RefundShare, PayoutShare, a, s

-----------------------------------------------------------------------------
(* What a step may do.                                                     *)

(* To the posts and the refunds: nothing; one claim that precedes a POST;  *)
(* a POST; the late arrival of one; a refund's own progress.               *)
Quiet ==
    /\ UNCHANGED <<refunds, inTransit>>
    /\ \A w \in Procs : proc'[w].pc = "post" => At(w, proc'[w].row)

OnlyProc(w) == \A x \in Procs \ {w} : proc'[x] = proc[x]

Claims(w) ==
    /\ UNCHANGED <<refunds, inTransit>> /\ OnlyProc(w)
    /\ StatusOf(proc[w].row) = "PENDING" /\ payments'[proc[w].row].status = "SUBMITTED"
    /\ proc'[w].pc = "post" /\ proc'[w].row = proc[w].row

Makes(p, s) ==
    s \in RefundStatuses \ {"failed"} /\ refunds' = Append(refunds, [note |-> p, status |-> s])

Posts(w) ==
    /\ UNCHANGED payments /\ OnlyProc(w)
    /\ proc[w].pc = "post" /\ proc'[w].pc = "apply" /\ proc'[w].row = proc[w].row
    /\ \/ /\ \E s \in RefundStatuses :
                /\ Makes(proc[w].row, s)
                /\ \/ proc'[w].answer \in {s, "ambiguous"}
                   \/ UnreadableAnswers /\ proc'[w].answer = "rejected"
          /\ UNCHANGED inTransit
       \/ proc'[w].answer = "rejected" /\ UNCHANGED <<refunds, inTransit>>
       \/ /\ proc'[w].answer = "ambiguous" /\ UNCHANGED refunds
          /\ inTransit' \in {inTransit, inTransit \cup {proc[w].row}}

Arrives(p) ==
    /\ UNCHANGED <<payments, proc>>
    /\ p \in inTransit /\ inTransit' = inTransit \ {p}
    /\ UNCHANGED refunds \/ \E s \in RefundStatuses : Makes(p, s)

Progresses(i) ==
    /\ UNCHANGED <<payments, proc, inTransit>>
    /\ i \in DOMAIN refunds /\ refunds[i].status \notin {"processed", "failed"}
    /\ \E s \in RefundStatuses : refunds' = [refunds EXCEPT ![i].status = s]

PostsMove ==
    \/ Quiet
    \/ \E w \in Procs : Claims(w) \/ Posts(w)
    \/ \E p \in PaymentIds : Arrives(p)
    \/ \E i \in DOMAIN refunds : Progresses(i)

(* To what a process has been told.                                        *)
ToldMove(w) ==
    \/ proc'[w] = proc[w]
    \/ proc'[w].pc \notin {"apply", "match"}
    \/ Posts(w)
    \/ /\ proc'[w].pc = "match"
       /\ \E i \in DOMAIN refunds :
             Noted(i, proc'[w].row) /\ refunds[i].status = proc'[w].answer

(* To a row: a refund's is settled on evidence.                            *)
BookMove(p) ==
    payments'[p].type = "REFUND" /\ payments'[p].status \in {"SUCCEEDED", "FAILED"} =>
       \/ Exists(p) /\ payments'[p].status = StatusOf(p) /\ payments[p].type = "REFUND"
       \/ /\ Quiet /\ Past(p)
          /\ payments'[p].status = "SUCCEEDED" =>
                \E i \in DOMAIN refunds : Noted(i, p) /\ refunds[i].status = "processed"
          /\ payments'[p].status = "FAILED" /\ ~UnreadableAnswers =>
                Spent(p) /\ \A i \in DOMAIN refunds : Noted(i, p) => refunds[i].status = "failed"

ShareMove(p) ==
    payments'[p].status # "ABSENT" =>
       \/ Exists(p) /\ payments'[p].type = payments[p].type /\ amount'[p] = amount[p]
       \/ payments'[p].type = "REFUND" /\ amount'[p] = DepositAmount
       \/ /\ settlement # NoDecision
          /\ \/ /\ payments'[p].type = "REFUND"
                /\ amount'[p] = RefundShare(Splittable, settlement)
             \/ /\ payments'[p].type = "PAYOUT"
                /\ amount'[p] = PayoutShare(Splittable, settlement)

(* To a settlement under way.                                              *)
CarryMove(w) ==
    \/ proc'[w] = proc[w]
    \/ proc'[w].percent = NoDecision /\ proc'[w].pc \notin {"decide", "payout"}
    \/ w \in Admins /\ proc'[w].pc = "decide" /\ proc'[w].percent # NoDecision
    \/ /\ Settles(w) /\ proc'[w].percent = proc[w].percent
       /\ proc'[w].pc \notin {"idle", "decide"}
       /\ proc[w].pc = "decide" => settlement' = proc[w].percent

Decides(w) ==
    /\ settlement = NoDecision /\ settlement' = proc[w].percent
    /\ proc'[w].percent = proc[w].percent \/ PayoutShare(Splittable, settlement') <= 0
    /\ RefundShare(Splittable, settlement') > 0 =>
          proc'[w].pc = "insert" /\ proc'[w].percent = proc[w].percent
    /\ PayoutShare(Splittable, settlement') > 0 => proc'[w].pc \in {"insert", "payout"}

Carries(w) ==
    Settles(w) =>
       /\ proc[w].pc = "insert" => "refund" \in legsRun' \/ proc'[w] = proc[w]
       /\ proc[w].pc \in BeforePayout =>
             \/ "payout" \in legsRun'
             \/ PayoutShare(Splittable, proc[w].percent) <= 0
             \/ proc'[w].percent = proc[w].percent /\ proc'[w].pc \in BeforePayout

LegsMove ==
    /\ settlement' = settlement \/ \E w \in Admins : proc[w].pc = "decide" /\ Decides(w)
    /\ legsRun \subseteq legsRun'
    /\ crashes' # 0 \/ (crashes = 0 /\ \A w \in Admins : Carries(w))

Effect ==
    /\ [Next]_ledgerVars
    /\ Located' /\ Surroundings'
    /\ PostsMove /\ LegsMove
    /\ \A w \in Procs : ToldMove(w) /\ CarryMove(w)
    /\ \A p \in PaymentIds : BookMove(p) /\ ShareMove(p)

-----------------------------------------------------------------------------
(* Statements of the ledger.                                               *)
LEMMA CreateWrites ==
    ASSUME TypeOK, NEW p \in PaymentIds, NEW t \in {"REFUND", "PAYOUT"}, Create(p, Request, t)
    PROVE  /\ [Next]_ledgerVars /\ OnlyPayment(p) /\ ~Exists(p)
           /\ payments'[p].status = "PENDING" /\ payments'[p].type = t
<1>1. Next
  BY RefundTypes DEF Next, LedgerStep
<1> QED BY <1>1 DEF TypeOK, Create, NewRow, OnlyPayment

(* A step that leaves the table alone, or moves one row of it.             *)
LEMMA TableStays ==
    ASSUME UNCHANGED <<payments, amount>>
    PROVE  /\ [Next]_ledgerVars
           /\ \A p \in PaymentIds : BookMove(p) /\ ShareMove(p)
  BY DEF BookMove, ShareMove, Exists, StatusOf, ledgerVars

LEMMA TableMoves ==
    ASSUME UNCHANGED amount, NEW p \in PaymentIds, NEW s, Writes(p, s), BookMove(p)
    PROVE  /\ [Next]_ledgerVars
           /\ \A q \in PaymentIds : BookMove(q) /\ ShareMove(q)
<1>1. \A q \in PaymentIds \ {p} : BookMove(q)
  BY DEF Writes, OnlyPayment, BookMove, Exists, StatusOf
<1>2. \A q \in PaymentIds : ShareMove(q)
  BY DEF Writes, OnlyPayment, ShareMove, Exists, StatusOf
<1> QED BY <1>1, <1>2 DEF Writes

-----------------------------------------------------------------------------
(* Processes.                                                              *)
LEMMA OneProcess ==
    ASSUME Located, NEW w \in Procs, NEW x, Placed(x), proc' = [proc EXCEPT ![w] = x]
    PROVE  Located' /\ OnlyProc(w) /\ proc'[w] = x
  BY DEF Located, Placed, OnlyProc

LEMMA IdlePlaced == Placed(Idle) /\ Idle.pc = "idle" /\ Idle.percent = NoDecision
  BY DEF Placed, Idle, Process, Steps, Answers, OnARow

LEMMA StopEffect ==
    ASSUME Located, NEW w \in Procs, Stop(w)
    PROVE  Located' /\ OnlyProc(w) /\ proc'[w] = Idle
  BY IdlePlaced, OneProcess DEF Stop

LEMMA GotoEffect ==
    ASSUME Located, NEW w \in Procs, NEW step \in Steps, Goto(w, step),
           step \in OnARow => proc[w].pc \in OnARow
    PROVE  /\ Located' /\ OnlyProc(w)
           /\ proc'[w].pc = step /\ proc'[w].row = proc[w].row
           /\ proc'[w].percent = proc[w].percent /\ proc'[w].answer = proc[w].answer
<1> DEFINE x == [proc[w] EXCEPT !.pc = step]
<1>1. Placed(proc[w]) /\ proc[w] \in Process
  BY DEF Located, Placed
<1>2. /\ x \in Process /\ x.pc = step /\ x.row = proc[w].row
      /\ x.percent = proc[w].percent /\ x.answer = proc[w].answer
  BY <1>1 DEF Process
<1>3. proc' = [proc EXCEPT ![w] = x]
  BY DEF Goto, Located
<1> HIDE DEF x
<1>4. Placed(x)
  BY <1>1, <1>2 DEF Placed
<1> QED BY <1>2, <1>3, <1>4, OneProcess

(* ... and with its row, its answer or its percentage.                     *)
LEMMA TakeEffect ==
    ASSUME Located, NEW w \in Procs, NEW step \in Steps, NEW p \in PaymentIds,
           proc' = [proc EXCEPT ![w].pc = step, ![w].row = p]
    PROVE  /\ Located' /\ OnlyProc(w)
           /\ proc'[w].pc = step /\ proc'[w].row = p
           /\ proc'[w].percent = proc[w].percent /\ proc'[w].answer = proc[w].answer
<1> DEFINE x == [proc[w] EXCEPT !.pc = step, !.row = p]
<1>1. Placed(proc[w]) /\ proc[w] \in Process
  BY DEF Located, Placed
<1>2. /\ x \in Process /\ x.pc = step /\ x.row = p
      /\ x.percent = proc[w].percent /\ x.answer = proc[w].answer
  BY <1>1 DEF Process
<1>3. proc' = [proc EXCEPT ![w] = x]
  BY DEF Located
<1> HIDE DEF x
<1>4. Placed(x)
  BY <1>1, <1>2 DEF Placed
<1> QED BY <1>2, <1>3, <1>4, OneProcess

LEMMA AnswerEffect ==
    ASSUME Located, NEW w \in Procs, NEW step \in {"apply", "match"}, NEW a \in Answers,
           proc[w].pc \in OnARow,
           proc' = [proc EXCEPT ![w].pc = step, ![w].answer = a]
    PROVE  /\ Located' /\ OnlyProc(w)
           /\ proc'[w].pc = step /\ proc'[w].row = proc[w].row
           /\ proc'[w].percent = proc[w].percent /\ proc'[w].answer = a
<1> DEFINE x == [proc[w] EXCEPT !.pc = step, !.answer = a]
<1>1. Placed(proc[w]) /\ proc[w] \in Process
  BY DEF Located, Placed
<1>2. /\ x \in Process /\ x.pc = step /\ x.row = proc[w].row
      /\ x.percent = proc[w].percent /\ x.answer = a
  BY <1>1 DEF Process, Steps
<1>3. proc' = [proc EXCEPT ![w] = x]
  BY DEF Located
<1> HIDE DEF x
<1>4. Placed(x)
  BY <1>1, <1>2 DEF Placed
<1> QED BY <1>2, <1>3, <1>4, OneProcess

-----------------------------------------------------------------------------
(* From what one process does to what the step does.                       *)
LEMMA OneIsQuiet ==
    ASSUME NEW w \in Procs, OnlyProc(w), proc'[w].pc # "post", UNCHANGED <<refunds, inTransit>>
    PROVE  Quiet
  BY DEF Quiet, OnlyProc, At

LEMMA OneMoves ==
    ASSUME NEW w \in Procs, Located', Surroundings', PostsMove, OnlyProc(w),
           ToldMove(w), CarryMove(w), w \in Admins => Carries(w),
           UNCHANGED <<settlement, crashes>>, legsRun \subseteq legsRun',
           [Next]_ledgerVars, \A p \in PaymentIds : BookMove(p) /\ ShareMove(p)
    PROVE  Effect
<1>1. \A x \in Procs : ToldMove(x) /\ CarryMove(x)
  BY DEF OnlyProc, ToldMove, CarryMove
<1>2. \A x \in Admins : Carries(x)
  BY DEF OnlyProc, Carries, Procs
<1> QED BY <1>1, <1>2 DEF Effect, LegsMove

LEMMA NobodyMoves ==
    ASSUME SInv, UNCHANGED <<proc, settlement, legsRun, crashes>>, Surroundings', PostsMove,
           [Next]_ledgerVars, \A p \in PaymentIds : BookMove(p) /\ ShareMove(p)
    PROVE  Effect
<1>1. Located'
  BY DEF SInv, Located, Placed
<1>2. \A x \in Procs : ToldMove(x) /\ CarryMove(x)
  BY DEF ToldMove, CarryMove
<1>3. \A x \in Admins : Carries(x)
  BY DEF Carries, Procs
<1> QED BY <1>1, <1>2, <1>3 DEF Effect, LegsMove

LEMMA StillIsQuiet == UNCHANGED <<proc, refunds, inTransit>> => Quiet
  BY DEF Quiet, At

(* A process that carries no settlement ends idle, or goes on without one. *)
LEMMA StopCarries ==
    ASSUME NEW w \in Procs, proc'[w] = Idle
    PROVE  ToldMove(w) /\ CarryMove(w)
  BY IdlePlaced DEF ToldMove, CarryMove

LEMMA CheckersCarryNothing ==
    ASSUME SInv, NEW v \in Checkers
    PROVE  v \in Procs /\ v \notin Admins /\ ~Settles(v)
  BY ProcessAssumption DEF SInv, Carried, Procs

LEMMA PercentDecided ==
    ASSUME SInv, NEW w \in Procs, Settles(w)
    PROVE  proc[w].percent \in Percents
  BY DEF SInv, Located, Placed, Process, Settles

LEMMA AfterRefundEffect ==
    ASSUME SInv, NEW w \in Admins, AfterRefund(w),
           proc[w].pc = "decide" => settlement' = proc[w].percent
    PROVE  /\ Located' /\ OnlyProc(w)
           /\ proc'[w].pc \in {"idle", "payout"} /\ CarryMove(w)
           /\ Settles(w) => \/ PayoutShare(Splittable, proc[w].percent) <= 0
                            \/ proc'[w].percent = proc[w].percent /\ proc'[w].pc = "payout"
<1>1. w \in Procs /\ Located
  BY DEF Procs, SInv
<1>2. CASE Settles(w) /\ PayoutShare(Splittable, proc[w].percent) > 0
  <2>1. Goto(w, "payout")
    BY <1>2 DEF AfterRefund
  <2>2. "payout" \in Steps /\ "payout" \notin OnARow
    BY DEF Steps, OnARow
  <2>3. /\ Located' /\ OnlyProc(w) /\ proc'[w].pc = "payout"
        /\ proc'[w].percent = proc[w].percent
    BY <1>1, <2>1, <2>2, GotoEffect
  <2> QED BY <1>2, <2>3 DEF CarryMove
<1>3. CASE ~(Settles(w) /\ PayoutShare(Splittable, proc[w].percent) > 0)
  <2>1. Stop(w)
    BY <1>3 DEF AfterRefund
  <2>2. Located' /\ OnlyProc(w) /\ proc'[w] = Idle
    BY <1>1, <2>1, StopEffect
  <2>3. Settles(w) => PayoutShare(Splittable, proc[w].percent) <= 0
    <3> SUFFICES ASSUME Settles(w) PROVE PayoutShare(Splittable, proc[w].percent) <= 0
      OBVIOUS
    <3>1. PayoutShare(Splittable, proc[w].percent) \in Nat
      BY <1>1, PercentDecided, SharesAddUp
    <3> QED BY <1>3, <3>1
  <2> QED BY <1>1, <2>2, <2>3, StopCarries, IdlePlaced
<1> QED BY <1>2, <1>3

-----------------------------------------------------------------------------
(* The administrators' steps.                                              *)
LEMMA SetStatusEffect == ASSUME SInv, SetStatus PROVE Effect
<1>1. Surroundings'
  BY DEF SInv, Surroundings, SetStatus
<1>2. PostsMove
  BY StillIsQuiet DEF SetStatus, PostsMove
<1> QED BY <1>1, <1>2, NobodyMoves, TableStays DEF SetStatus

LEMMA RefundDepositEffect ==
    ASSUME SInv, NEW a \in Admins, RefundDeposit(a) PROVE Effect
<1>1. a \in Procs /\ Located /\ Carried(a)
  BY DEF Procs, SInv
<1>2. "insert" \in Steps /\ "insert" \notin OnARow
  BY DEF Steps, OnARow
<1>3. /\ Located' /\ OnlyProc(a) /\ proc'[a].pc = "insert" /\ proc'[a].percent = proc[a].percent
  BY <1>1, <1>2, GotoEffect DEF RefundDeposit
<1>4. ~Settles(a)
  BY <1>1 DEF Carried, RefundDeposit
<1>5. Surroundings'
  BY DEF SInv, Surroundings, RefundDeposit
<1>6. PostsMove
  BY <1>1, <1>3, OneIsQuiet DEF RefundDeposit, PostsMove
<1>7. ToldMove(a) /\ CarryMove(a) /\ Carries(a)
  BY <1>3, <1>4 DEF ToldMove, CarryMove, Carries, Settles
<1> QED BY <1>1, <1>3, <1>5, <1>6, <1>7, OneMoves, TableStays DEF RefundDeposit

LEMMA ResolveSettlementEffect ==
    ASSUME SInv, NEW s \in Admins, NEW percent \in Percents, ResolveSettlement(s, percent)
    PROVE  Effect
<1>1. s \in Procs /\ Located /\ Carried(s)
  BY DEF Procs, SInv
<1> DEFINE x == [proc[s] EXCEPT !.pc = "decide", !.percent = percent]
<1>2. proc[s] \in Process
  BY <1>1 DEF Located
<1>3. x \in Process /\ x.pc = "decide" /\ x.percent = percent
  BY <1>2 DEF Process, Steps
<1>4. proc' = [proc EXCEPT ![s] = x]
  BY <1>1 DEF ResolveSettlement, Located
<1> HIDE DEF x
<1>5. Placed(x)
  BY <1>3 DEF Placed, OnARow
<1>6. Located' /\ OnlyProc(s) /\ proc'[s] = x
  BY <1>1, <1>4, <1>5, OneProcess
<1>7. ~Settles(s)
  BY <1>1 DEF Carried, ResolveSettlement
<1>8. percent # NoDecision
  BY PercentAssumption
<1>9. Surroundings'
  BY DEF SInv, Surroundings, ResolveSettlement
<1>10. PostsMove
  BY <1>1, <1>3, <1>6, OneIsQuiet DEF ResolveSettlement, PostsMove
<1>11. ToldMove(s) /\ CarryMove(s) /\ Carries(s)
  BY <1>3, <1>6, <1>7, <1>8 DEF ToldMove, CarryMove, Carries
<1> QED BY <1>1, <1>6, <1>9, <1>10, <1>11, OneMoves, TableStays DEF ResolveSettlement

LEMMA ClaimSettlementEffect ==
    ASSUME SInv, NEW s \in Admins, ClaimSettlement(s) PROVE Effect
<1>1. s \in Procs /\ Located /\ Carried(s) /\ proc[s].pc = "decide"
  BY DEF Procs, SInv, ClaimSettlement
<1>2. Settles(s) /\ proc[s].percent \in Percents
  BY <1>1, PercentDecided DEF Carried
<1>3. UNCHANGED <<payments, amount, cancelled, legsRun, refunds, inTransit, crashes>>
  BY DEF ClaimSettlement
<1>4. CASE ~SettlementEligible /\ Stop(s) /\ UNCHANGED settlement
  <2>1. Located' /\ OnlyProc(s) /\ proc'[s] = Idle
    BY <1>1, <1>4, StopEffect
  <2>2. Surroundings'
    BY <1>3, <1>4 DEF SInv, Surroundings
  <2>3. PostsMove
    BY <1>1, <1>3, <2>1, IdlePlaced, OneIsQuiet DEF PostsMove
  <2>4. ToldMove(s) /\ CarryMove(s) /\ Carries(s)
    BY <1>1, <2>1, StopCarries DEF Carries, BeforePayout
  <2> QED BY <1>1, <1>3, <1>4, <2>1, <2>2, <2>3, <2>4, OneMoves, TableStays
<1>5. CASE SettlementEligible /\ settlement' = proc[s].percent
           /\ IF RefundShare(Splittable, proc[s].percent) > 0
                THEN Goto(s, "insert") ELSE AfterRefund(s)
  <2> DEFINE share == RefundShare(Splittable, proc[s].percent)
             rest  == PayoutShare(Splittable, proc[s].percent)
  <2>1. share \in Nat /\ rest \in Nat
    BY <1>2, SharesAddUp
  <2>2. settlement = NoDecision
    BY <1>5 DEF SettlementEligible
  <2>3. /\ Located' /\ OnlyProc(s)
        /\ proc'[s].pc \in {"idle", "payout", "insert"} /\ CarryMove(s)
        /\ share > 0 => proc'[s].pc = "insert" /\ proc'[s].percent = proc[s].percent
        /\ rest > 0 => proc'[s].pc \in {"insert", "payout"} /\ proc'[s].percent = proc[s].percent
    <3>1. CASE share > 0
      <4>1. Goto(s, "insert")
        BY <1>5, <3>1
      <4>2. "insert" \in Steps /\ "insert" \notin OnARow
        BY DEF Steps, OnARow
      <4>3. /\ Located' /\ OnlyProc(s)
            /\ proc'[s].pc = "insert" /\ proc'[s].percent = proc[s].percent
        BY <1>1, <4>1, <4>2, GotoEffect
      <4>4. CarryMove(s)
        BY <1>2, <1>5, <4>3 DEF CarryMove
      <4> QED BY <4>3, <4>4
    <3>2. CASE ~(share > 0)
      <4>1. AfterRefund(s)
        BY <1>5, <3>2
      <4>2. /\ Located' /\ OnlyProc(s)
            /\ proc'[s].pc \in {"idle", "payout"} /\ CarryMove(s)
            /\ rest <= 0 \/ (proc'[s].percent = proc[s].percent /\ proc'[s].pc = "payout")
        BY <1>2, <1>5, <4>1, AfterRefundEffect
      <4> QED BY <2>1, <3>2, <4>2
    <3> QED BY <3>1, <3>2
  <2>4. Surroundings'
    BY <1>2, <1>3, <1>5 DEF SInv, Surroundings
  <2>5. PostsMove
    BY <1>1, <1>3, <2>3, OneIsQuiet DEF PostsMove
  <2>6. \A x \in Procs : ToldMove(x) /\ CarryMove(x)
    BY <2>3 DEF OnlyProc, ToldMove, CarryMove
  <2>7. Decides(s)
    <3>1. proc'[s].percent = proc[s].percent \/ rest <= 0
      BY <2>1, <2>3
    <3> QED BY <1>5, <2>2, <2>3, <3>1 DEF Decides
  <2>8. Carries(s)
    BY <1>1 DEF Carries, BeforePayout
  <2>9. \A x \in Admins : Carries(x)
    BY <2>3, <2>8 DEF OnlyProc, Carries, Procs
  <2>10. LegsMove
    BY <1>1, <1>3, <2>7, <2>9 DEF LegsMove
  <2> QED BY <1>3, <2>3, <2>4, <2>5, <2>6, <2>10, TableStays DEF Effect
<1> QED BY <1>4, <1>5 DEF ClaimSettlement

-----------------------------------------------------------------------------
(* The table, row by row.                                                  *)
LEMMA CreateTable ==
    ASSUME SInv, NEW p \in PaymentIds, NEW t \in {"REFUND", "PAYOUT"}, Create(p, Request, t),
           NEW n, amount' = [amount EXCEPT ![p] = n],
           \/ t = "REFUND" /\ n = DepositAmount
           \/ /\ settlement # NoDecision
              /\ \/ t = "REFUND" /\ n = RefundShare(Splittable, settlement)
                 \/ t = "PAYOUT" /\ n = PayoutShare(Splittable, settlement)
    PROVE  /\ [Next]_ledgerVars
           /\ \A q \in PaymentIds : BookMove(q) /\ ShareMove(q)
           /\ amount' \in [PaymentIds -> Nat]
<1>1. /\ [Next]_ledgerVars /\ OnlyPayment(p) /\ ~Exists(p)
      /\ payments'[p].status = "PENDING" /\ payments'[p].type = t
  BY CreateWrites DEF SInv, IInv
<1>2. amount \in [PaymentIds -> Nat] /\ settlement \in Percents \cup {NoDecision}
  BY DEF SInv, Surroundings
<1>3. n \in Nat
  BY <1>2, AmountAssumption, SharesAddUp
<1>4. amount'[p] = n /\ \A q \in PaymentIds \ {p} : amount'[q] = amount[q]
  BY <1>2
<1>5. \A q \in PaymentIds \ {p} : BookMove(q) /\ ShareMove(q)
  BY <1>1, <1>4 DEF OnlyPayment, BookMove, ShareMove, Exists, StatusOf
<1>6. BookMove(p) /\ ShareMove(p)
  BY <1>1, <1>4 DEF BookMove, ShareMove
<1>7. amount' \in [PaymentIds -> Nat]
  BY <1>2, <1>3
<1> QED BY <1>1, <1>5, <1>6, <1>7

(* A row is settled by what Paystack says of its own refund.               *)
LEMMA SettleTable ==
    ASSUME SInv, Quiet, UNCHANGED amount, NEW p \in PaymentIds, NEW s \in {"processed", "failed"},
           SettleRow(p, s), \E i \in DOMAIN refunds : Noted(i, p) /\ refunds[i].status = s
    PROVE  /\ [Next]_ledgerVars
           /\ \A q \in PaymentIds : BookMove(q) /\ ShareMove(q)
<1>1. PICK i \in DOMAIN refunds : Noted(i, p) /\ refunds[i].status = s
  OBVIOUS
<1>2. TypeOK /\ OnePost
  BY DEF SInv, IInv
<1>3. Past(p) /\ Spent(p) /\ \A j \in DOMAIN refunds : Noted(j, p) => j = i
  BY <1>1, <1>2 DEF OnePost
<1>4. CASE s = "processed" /\ ClaimTerminal(p, "SUCCEEDED")
  <2>1. Writes(p, "SUCCEEDED")
    BY <1>2, <1>4, StatementWrites DEF Verdicts
  <2>2. BookMove(p)
    BY <1>1, <1>3, <1>4, <2>1 DEF BookMove, Writes
  <2> QED BY <2>1, <2>2, TableMoves
<1>5. CASE s = "processed" /\ RecordDuplicateSuccess(p)
  <2>1. Writes(p, "DUPLICATE_SUCCEEDED")
    BY <1>2, <1>5, StatementWrites
  <2>2. BookMove(p)
    BY <2>1 DEF BookMove, Writes
  <2> QED BY <2>1, <2>2, TableMoves
<1>6. CASE s = "failed" /\ ClaimTerminal(p, "FAILED")
  <2>1. Writes(p, "FAILED")
    BY <1>2, <1>6, StatementWrites DEF Verdicts
  <2>2. BookMove(p)
    BY <1>1, <1>3, <1>6, <2>1 DEF BookMove, Writes
  <2> QED BY <2>1, <2>2, TableMoves
<1>7. CASE UNCHANGED payments
  BY <1>7, TableStays
<1> QED BY <1>4, <1>5, <1>6, <1>7 DEF SettleRow

(* The answer to a submission, applied.                                    *)
LEMMA RejectTable ==
    ASSUME SInv, Quiet, UNCHANGED amount, NEW w \in Procs, proc[w].pc \in {"apply", "match"},
           proc[w].answer = "rejected",
           IfSubmitted(proc[w].row, RecordRejection(proc[w].row, NoReason))
    PROVE  /\ [Next]_ledgerVars
           /\ \A q \in PaymentIds : BookMove(q) /\ ShareMove(q)
<1> DEFINE p == proc[w].row
<1>1. TypeOK /\ Told(w) /\ Placed(proc[w])
  BY DEF SInv, IInv, Located
<1>2. p \in PaymentIds
  BY <1>1 DEF Placed, OnARow
<1>3. ~UnreadableAnswers => Spent(p) /\ \A i \in DOMAIN refunds : ~Noted(i, p)
  BY <1>1 DEF Told
<1>4. RecordRejection(p, NoReason) \/ UNCHANGED payments
  BY DEF IfSubmitted
<1> HIDE DEF p
<1>5. CASE RecordRejection(p, NoReason)
  <2>1. Writes(p, "FAILED") /\ Past(p)
    BY <1>1, <1>2, <1>5, StatementWrites
  <2>2. BookMove(p)
    BY <1>3, <2>1 DEF BookMove, Writes
  <2> QED BY <1>2, <2>1, <2>2, TableMoves
<1> QED BY <1>4, <1>5, TableStays

LEMMA BlockTable ==
    ASSUME SInv, UNCHANGED amount, NEW p \in PaymentIds,
           IfSubmitted(p, RecordBlocked(p, "NEEDS_CUSTOMER_DETAILS"))
    PROVE  /\ [Next]_ledgerVars
           /\ \A q \in PaymentIds : BookMove(q) /\ ShareMove(q)
<1>1. RecordBlocked(p, "NEEDS_CUSTOMER_DETAILS") \/ UNCHANGED payments
  BY DEF IfSubmitted
<1>2. CASE RecordBlocked(p, "NEEDS_CUSTOMER_DETAILS")
  <2>1. Writes(p, "BLOCKED")
    BY <1>2, RefundReasons, StatementWrites DEF SInv, IInv
  <2>2. BookMove(p)
    BY <2>1 DEF BookMove, Writes
  <2> QED BY <2>1, <2>2, TableMoves
<1> QED BY <1>1, <1>2, TableStays

LEMMA ClassifyTable ==
    ASSUME SInv, Quiet, UNCHANGED amount, NEW w \in Procs, proc[w].pc \in {"apply", "match"},
           ClassifyResponse(proc[w].row, proc[w].answer)
    PROVE  /\ [Next]_ledgerVars
           /\ \A q \in PaymentIds : BookMove(q) /\ ShareMove(q)
<1>1. Told(w) /\ Placed(proc[w])
  BY DEF SInv, Located
<1>2. proc[w].row \in PaymentIds
  BY <1>1 DEF Placed, OnARow
<1>3. CASE proc[w].answer = "failed" /\ SettleRow(proc[w].row, "failed")
  <2>1. \E i \in DOMAIN refunds : Noted(i, proc[w].row) /\ refunds[i].status = "failed"
    BY <1>1, <1>3 DEF Told
  <2> QED BY <1>2, <1>3, <2>1, SettleTable
<1>4. CASE UNCHANGED payments
  BY <1>4, TableStays
<1> QED BY <1>2, <1>3, <1>4, RejectTable, BlockTable DEF ClassifyResponse

(* A statement that settles nothing, or a row that is no refund.           *)
LEMMA HarmlessTable ==
    ASSUME UNCHANGED amount, NEW p \in PaymentIds, NEW s, Writes(p, s),
           s \in {StatusOf(p), "SUBMITTED", "BLOCKED"} \/ payments[p].type # "REFUND"
    PROVE  /\ [Next]_ledgerVars
           /\ \A q \in PaymentIds : BookMove(q) /\ ShareMove(q)
<1>1. BookMove(p)
  BY DEF BookMove, Writes
<1> QED BY <1>1, TableMoves

-----------------------------------------------------------------------------
(* The refund leg.                                                         *)
LEMMA InsertRefundEffect ==
    ASSUME SInv, NEW w \in Admins, InsertRefund(w) PROVE Effect
<1>1. w \in Procs /\ Located /\ Carried(w) /\ proc[w].pc = "insert"
  BY DEF Procs, SInv, InsertRefund
<1>2. /\ legsRun \subseteq legsRun' /\ legsRun' \subseteq {"refund", "payout"}
      /\ Settles(w) => "refund" \in legsRun'
      /\ UNCHANGED <<cancelled, settlement, refunds, inTransit, crashes>>
  BY DEF InsertRefund, SInv, Surroundings
<1>3. ASSUME NEW p \in PaymentIds, Create(p, Request, "REFUND"),
             amount' = [amount EXCEPT ![p] = RefundAmount(w)],
             proc' = [proc EXCEPT ![w].pc = "submit", ![w].row = p]
      PROVE  Effect
  <2>1. /\ Located' /\ OnlyProc(w) /\ proc'[w].pc = "submit"
        /\ proc'[w].percent = proc[w].percent
    BY <1>1, <1>3, TakeEffect DEF Steps
  <2>2. RefundAmount(w) = DepositAmount
          \/ (settlement # NoDecision /\ RefundAmount(w) = RefundShare(Splittable, settlement))
    BY <1>1 DEF RefundAmount, Carried, Settles
  <2>3. /\ [Next]_ledgerVars
        /\ \A q \in PaymentIds : BookMove(q) /\ ShareMove(q)
        /\ amount' \in [PaymentIds -> Nat]
    BY <1>3, <2>2, CreateTable
  <2>4. Surroundings'
    BY <1>2, <2>3 DEF SInv, Surroundings
  <2>5. PostsMove
    BY <1>1, <1>2, <2>1, OneIsQuiet DEF PostsMove
  <2>6. ToldMove(w) /\ CarryMove(w) /\ Carries(w)
    BY <1>1, <1>2, <2>1 DEF ToldMove, CarryMove, Carries, Settles, BeforePayout
  <2> QED BY <1>1, <1>2, <2>1, <2>3, <2>4, <2>5, <2>6, OneMoves
<1>4. ASSUME AfterRefund(w), UNCHANGED <<payments, amount>>
      PROVE  Effect
  <2>1. /\ Located' /\ OnlyProc(w)
        /\ proc'[w].pc \in {"idle", "payout"} /\ CarryMove(w)
        /\ Settles(w) => \/ PayoutShare(Splittable, proc[w].percent) <= 0
                         \/ proc'[w].percent = proc[w].percent /\ proc'[w].pc = "payout"
    BY <1>1, <1>4, AfterRefundEffect
  <2>2. Surroundings'
    BY <1>2, <1>4 DEF SInv, Surroundings
  <2>3. PostsMove
    BY <1>1, <1>2, <2>1, OneIsQuiet DEF PostsMove
  <2>4. ToldMove(w) /\ Carries(w)
    BY <1>2, <2>1 DEF ToldMove, Carries, BeforePayout
  <2> QED BY <1>1, <1>2, <1>4, <2>1, <2>2, <2>3, <2>4, OneMoves, TableStays
<1> QED BY <1>3, <1>4 DEF InsertRefund

(* The claim of a row that precedes its POST, by whoever makes it.         *)
LEMMA ClaimEffect ==
    ASSUME SInv, NEW w \in Procs, proc[w].pc \in {"submit", "initiate"},
           ClaimForSubmission(proc[w].row), Goto(w, "post"),
           UNCHANGED <<amount, cancelled, settlement, legsRun, refunds, inTransit, crashes>>
    PROVE  Effect
<1> DEFINE p == proc[w].row
<1>1. Located /\ Placed(proc[w]) /\ Carried(w) /\ TypeOK
  BY DEF SInv, IInv, Located
<1>2. p \in PaymentIds
  BY <1>1 DEF Placed, OnARow
<1>3. Writes(p, "SUBMITTED") /\ StatusOf(p) = "PENDING"
  BY <1>1, <1>2, StatementWrites
<1>4. /\ [Next]_ledgerVars
      /\ \A q \in PaymentIds : BookMove(q) /\ ShareMove(q)
  BY <1>2, <1>3, HarmlessTable
<1>5. /\ Located' /\ OnlyProc(w) /\ proc'[w].pc = "post" /\ proc'[w].row = p
      /\ proc'[w].percent = proc[w].percent
  BY <1>1, GotoEffect DEF Steps, OnARow
<1>6. Surroundings'
  BY DEF SInv, Surroundings
<1>7. PostsMove
  BY <1>3, <1>5 DEF PostsMove, Claims, Writes
<1>8. ToldMove(w) /\ CarryMove(w) /\ Carries(w)
  BY <1>1, <1>5 DEF ToldMove, CarryMove, Carries, Carried, Settles, BeforePayout
<1> QED BY <1>4, <1>5, <1>6, <1>7, <1>8, OneMoves

(* After the refund leg, nothing written or its answer applied.            *)
LEMMA LegDoneEffect ==
    ASSUME SInv, NEW w \in Admins, proc[w].pc \in {"submit", "apply"}, AfterRefund(w),
           UNCHANGED <<amount, cancelled, settlement, legsRun, refunds, inTransit, crashes>>,
           UNCHANGED payments \/ ClassifyResponse(proc[w].row, proc[w].answer),
           proc[w].pc = "submit" => UNCHANGED payments
    PROVE  Effect
<1>1. w \in Procs
  BY DEF Procs
<1>2. /\ Located' /\ OnlyProc(w)
      /\ proc'[w].pc \in {"idle", "payout"} /\ CarryMove(w)
      /\ Settles(w) => \/ PayoutShare(Splittable, proc[w].percent) <= 0
                       \/ proc'[w].percent = proc[w].percent /\ proc'[w].pc = "payout"
  BY AfterRefundEffect
<1>3. Quiet
  BY <1>1, <1>2, OneIsQuiet
<1>4. /\ [Next]_ledgerVars
      /\ \A q \in PaymentIds : BookMove(q) /\ ShareMove(q)
  BY <1>1, <1>3, ClassifyTable, TableStays
<1>5. Surroundings'
  BY DEF SInv, Surroundings
<1>6. ToldMove(w) /\ Carries(w)
  BY <1>2 DEF ToldMove, Carries, BeforePayout
<1>7. PostsMove
  BY <1>3 DEF PostsMove
<1> QED BY <1>1, <1>2, <1>4, <1>5, <1>6, <1>7, OneMoves

LEMMA SubmitRefundEffect ==
    ASSUME SInv, NEW w \in Admins, SubmitRefund(w) PROVE Effect
<1>1. w \in Procs
  BY DEF Procs
<1> QED BY <1>1, ClaimEffect, LegDoneEffect DEF SubmitRefund

LEMMA ApplyResponseEffect ==
    ASSUME SInv, NEW w \in Admins, ApplyResponse(w) PROVE Effect
  BY LegDoneEffect DEF ApplyResponse

LEMMA PostRefundEffect ==
    ASSUME SInv, NEW w \in Procs, PostRefund(w) PROVE Effect
<1> DEFINE p == proc[w].row
<1>1. Located /\ Placed(proc[w]) /\ Carried(w) /\ Surroundings /\ proc[w].pc = "post"
  BY DEF SInv, Located, PostRefund
<1>2. p \in PaymentIds /\ proc[w].pc \in OnARow
  BY <1>1 DEF Placed, OnARow
<1>3. UNCHANGED <<payments, amount, cancelled, settlement, legsRun, crashes>>
  BY DEF PostRefund
<1>4. ASSUME NEW a \in Answers, proc' = [proc EXCEPT ![w].pc = "apply", ![w].answer = a],
             Surroundings', Posts(w) \/ ~Located'
      PROVE  Effect
  <2>1. /\ Located' /\ OnlyProc(w) /\ proc'[w].pc = "apply"
        /\ proc'[w].percent = proc[w].percent
    BY <1>1, <1>2, <1>4, AnswerEffect
  <2>2. PostsMove /\ ToldMove(w)
    BY <1>4, <2>1 DEF PostsMove, ToldMove
  <2>3. CarryMove(w) /\ Carries(w)
    BY <1>1, <2>1 DEF CarryMove, Carries, Carried, Settles, BeforePayout
  <2> QED BY <1>3, <1>4, <2>1, <2>2, <2>3, OneMoves, TableStays
<1>5. ASSUME NEW a \in Answers, proc' = [proc EXCEPT ![w].pc = "apply", ![w].answer = a]
      PROVE  /\ OnlyProc(w) /\ proc'[w].pc = "apply" /\ proc'[w].row = p
             /\ proc'[w].answer = a
  BY <1>1, <1>2, <1>5, AnswerEffect
<1>6. ASSUME NEW s \in RefundStatuses, NEW a \in Answers, MakeRefund(p, s),
             proc' = [proc EXCEPT ![w].pc = "apply", ![w].answer = a],
             a \in {s, "ambiguous"} \/ (UnreadableAnswers /\ a = "rejected"),
             UNCHANGED inTransit
      PROVE  Effect
  <2>1. Makes(p, s)
    BY <1>6 DEF MakeRefund, Makes
  <2>2. Posts(w)
    BY <1>1, <1>3, <1>5, <1>6, <2>1 DEF Posts
  <2>3. [note |-> p, status |-> s] \in Refund
    BY <1>2 DEF Refund
  <2>4. refunds' \in Seq(Refund)
    BY <1>1, <2>1, <2>3 DEF Makes, Surroundings
  <2>5. Surroundings'
    BY <1>1, <1>3, <1>6, <2>4 DEF Surroundings
  <2> QED BY <1>4, <1>6, <2>2, <2>5
<1>7. ASSUME NEW a \in {"rejected", "ambiguous"},
             proc' = [proc EXCEPT ![w].pc = "apply", ![w].answer = a],
             UNCHANGED refunds,
             \/ UNCHANGED inTransit
             \/ a = "ambiguous" /\ inTransit' = inTransit \cup {p}
      PROVE  Effect
  <2>1. a \in Answers
    BY DEF Answers
  <2>2. Posts(w)
    BY <1>1, <1>3, <1>5, <1>7, <2>1 DEF Posts
  <2>3. Surroundings'
    BY <1>1, <1>2, <1>3, <1>7 DEF Surroundings
  <2> QED BY <1>4, <1>7, <2>1, <2>2, <2>3
<1>8. RefundStatuses \subseteq Answers /\ {"ambiguous", "rejected"} \subseteq Answers
  BY DEF Answers
<1> DEFINE Answer(a) == proc' = [proc EXCEPT ![w].pc = "apply", ![w].answer = a]
<1>9. \/ \E s \in RefundStatuses :
            /\ MakeRefund(p, s) /\ UNCHANGED inTransit
            /\ \/ Answer(s) \/ Answer("ambiguous")
               \/ UnreadableAnswers /\ Answer("rejected")
      \/ Answer("rejected") /\ UNCHANGED <<refunds, inTransit>>
      \/ /\ Answer("ambiguous") /\ UNCHANGED refunds
         /\ inTransit' \in {inTransit, inTransit \cup {p}}
  BY DEF PostRefund
<1>10. ASSUME NEW s \in RefundStatuses, MakeRefund(p, s), UNCHANGED inTransit,
              \/ Answer(s) \/ Answer("ambiguous")
              \/ UnreadableAnswers /\ Answer("rejected")
       PROVE  Effect
  <2>1. CASE Answer(s)
    BY <1>6, <1>8, <1>10, <2>1
  <2>2. CASE Answer("ambiguous")
    BY <1>6, <1>8, <1>10, <2>2
  <2>3. CASE UnreadableAnswers /\ Answer("rejected")
    BY <1>6, <1>8, <1>10, <2>3
  <2> QED BY <1>10, <2>1, <2>2, <2>3
<1>11. CASE Answer("rejected") /\ UNCHANGED <<refunds, inTransit>>
  BY <1>7, <1>11
<1>12. CASE /\ Answer("ambiguous") /\ UNCHANGED refunds
            /\ inTransit' \in {inTransit, inTransit \cup {p}}
  BY <1>7, <1>12
<1> QED BY <1>9, <1>10, <1>11, <1>12

-----------------------------------------------------------------------------
(* The payout leg, and the rest of a payout's life.                        *)
LEMMA PayoutLegEffect ==
    ASSUME SInv, NEW s \in Admins, PayoutLeg(s) PROVE Effect
<1>1. s \in Procs /\ Located /\ Carried(s) /\ proc[s].pc = "payout" /\ Stop(s)
  BY DEF Procs, SInv, PayoutLeg
<1>2. /\ legsRun' = legsRun \cup {"payout"}
      /\ UNCHANGED <<cancelled, settlement, refunds, inTransit, crashes>>
  BY DEF PayoutLeg
<1>3. Located' /\ OnlyProc(s) /\ proc'[s] = Idle
  BY <1>1, StopEffect
<1>4. /\ [Next]_ledgerVars
      /\ \A q \in PaymentIds : BookMove(q) /\ ShareMove(q)
      /\ amount' \in [PaymentIds -> Nat]
  <2>1. CASE UNCHANGED <<payments, amount>>
    BY <2>1, TableStays DEF SInv, Surroundings
  <2>2. ASSUME NEW p \in PaymentIds, Create(p, Request, "PAYOUT"),
               amount' = [amount EXCEPT ![p] = PayoutShare(Splittable, proc[s].percent)]
        PROVE  /\ [Next]_ledgerVars
               /\ \A q \in PaymentIds : BookMove(q) /\ ShareMove(q)
               /\ amount' \in [PaymentIds -> Nat]
    <3>1. settlement # NoDecision /\ settlement = proc[s].percent
      BY <1>1 DEF Carried, Settles
    <3> QED BY <2>2, <3>1, CreateTable
  <2> QED BY <2>1, <2>2 DEF PayoutLeg
<1>5. Surroundings'
  BY <1>2, <1>4 DEF SInv, Surroundings
<1>6. PostsMove
  BY <1>1, <1>2, <1>3, IdlePlaced, OneIsQuiet DEF PostsMove
<1>7. ToldMove(s) /\ CarryMove(s) /\ Carries(s)
  BY <1>1, <1>2, <1>3, StopCarries DEF Carries
<1> QED BY <1>1, <1>2, <1>3, <1>4, <1>5, <1>6, <1>7, OneMoves

LEMMA PayoutMovesEffect ==
    ASSUME SInv, NEW p \in PaymentIds, PayoutMoves(p) PROVE Effect
<1>1. TypeOK /\ payments[p].type # "REFUND"
  BY DEF SInv, IInv, PayoutMoves, PayRows, RowsOf
<1>2. UNCHANGED <<amount, cancelled, settlement, legsRun, proc, refunds, inTransit, crashes>>
  BY DEF PayoutMoves
<1>3. \E s \in {"SUBMITTED", "SUCCEEDED", "FAILED", "BLOCKED"} : Writes(p, s)
  BY <1>1, StatementWrites, RefundReasons DEF PayoutMoves, Verdicts
<1>4. /\ [Next]_ledgerVars
      /\ \A q \in PaymentIds : BookMove(q) /\ ShareMove(q)
  BY <1>1, <1>2, <1>3, HarmlessTable
<1>5. Surroundings'
  BY <1>2 DEF SInv, Surroundings
<1>6. PostsMove
  BY <1>2, StillIsQuiet DEF PostsMove
<1> QED BY <1>2, <1>4, <1>5, <1>6, NobodyMoves

LEMMA RetryPayoutEffect ==
    ASSUME SInv, NEW p \in PaymentIds, RetryPayout(p) PROVE Effect
<1>1. UNCHANGED <<cancelled, settlement, legsRun, proc, refunds, inTransit, crashes>>
  BY DEF RetryPayout
<1>2. PICK q \in PaymentIds :
         Create(q, Request, "PAYOUT") /\ amount' = [amount EXCEPT ![q] = amount[p]]
  BY DEF RetryPayout
<1>3. p \in PayRows /\ Share(p)
  BY DEF SInv, RetryPayout
<1>4. settlement # NoDecision /\ amount[p] = PayoutShare(Splittable, settlement)
  BY <1>3 DEF PayRows, RowsOf, Share
<1>5. /\ [Next]_ledgerVars
      /\ \A x \in PaymentIds : BookMove(x) /\ ShareMove(x)
      /\ amount' \in [PaymentIds -> Nat]
  BY <1>2, <1>4, CreateTable
<1>6. Surroundings'
  BY <1>1, <1>5 DEF SInv, Surroundings
<1>7. PostsMove
  BY <1>1, StillIsQuiet DEF PostsMove
<1> QED BY <1>1, <1>5, <1>6, <1>7, NobodyMoves

-----------------------------------------------------------------------------
(* The reconciler's steps.                                                 *)
LEMMA PickDueRowEffect ==
    ASSUME SInv, NEW v \in Checkers, NEW p \in PaymentIds, PickDueRow(v, p) PROVE Effect
<1>1. v \in Procs /\ v \notin Admins /\ ~Settles(v) /\ Located
  BY CheckersCarryNothing DEF SInv
<1>2. UNCHANGED <<payments, amount, cancelled, settlement, legsRun, refunds, inTransit, crashes>>
  BY DEF PickDueRow
<1>3. PICK step \in {"initiate", "verify"} :
         proc' = [proc EXCEPT ![v].pc = step, ![v].row = p]
  BY DEF PickDueRow
<1>4. /\ Located' /\ OnlyProc(v) /\ proc'[v].pc = step /\ proc'[v].percent = proc[v].percent
  BY <1>1, <1>3, TakeEffect DEF Steps
<1>5. Surroundings'
  BY <1>2 DEF SInv, Surroundings
<1>6. PostsMove
  BY <1>1, <1>2, <1>4, OneIsQuiet DEF PostsMove
<1>7. ToldMove(v) /\ CarryMove(v)
  BY <1>1, <1>4 DEF ToldMove, CarryMove, Settles
<1> QED BY <1>1, <1>2, <1>4, <1>5, <1>6, <1>7, OneMoves, TableStays

(* A checker that stops, or goes on from one of its reads to the next.     *)
LEMMA CheckerTurns ==
    ASSUME SInv, NEW v \in Checkers,
           \/ Stop(v)
           \/ \E step \in {"list", "backoff"} : Goto(v, step) /\ proc[v].pc \in OnARow,
           UNCHANGED <<refunds, inTransit>>
    PROVE  Located' /\ OnlyProc(v) /\ Quiet /\ ToldMove(v) /\ CarryMove(v)
<1>1. v \in Procs /\ ~Settles(v) /\ Located
  BY CheckersCarryNothing DEF SInv
<1>2. CASE Stop(v)
  <2>1. Located' /\ OnlyProc(v) /\ proc'[v] = Idle
    BY <1>1, <1>2, StopEffect
  <2> QED BY <1>1, <2>1, StopCarries, OneIsQuiet, IdlePlaced
<1>3. ASSUME NEW step \in {"list", "backoff"}, Goto(v, step), proc[v].pc \in OnARow
      PROVE  Located' /\ OnlyProc(v) /\ Quiet /\ ToldMove(v) /\ CarryMove(v)
  <2>1. step \in Steps
    BY DEF Steps
  <2>2. /\ Located' /\ OnlyProc(v) /\ proc'[v].pc = step /\ proc'[v].percent = proc[v].percent
    BY <1>1, <1>3, <2>1, GotoEffect
  <2>3. ToldMove(v) /\ CarryMove(v)
    BY <1>1, <2>2 DEF ToldMove, CarryMove, Settles
  <2> QED BY <1>1, <2>2, <2>3, OneIsQuiet
<1> QED BY <1>2, <1>3

LEMMA CheckerTurnsEffect ==
    ASSUME SInv, NEW v \in Checkers,
           Located', OnlyProc(v), Quiet, ToldMove(v), CarryMove(v),
           UNCHANGED <<amount, cancelled, settlement, legsRun, refunds, inTransit, crashes>>,
           [Next]_ledgerVars, \A p \in PaymentIds : BookMove(p) /\ ShareMove(p)
    PROVE  Effect
<1>1. v \in Procs /\ v \notin Admins
  BY CheckersCarryNothing
<1>2. Surroundings'
  BY DEF SInv, Surroundings
<1>3. PostsMove
  BY DEF PostsMove
<1> QED BY <1>1, <1>2, <1>3, OneMoves

LEMMA InitiateRefundEffect ==
    ASSUME SInv, NEW v \in Checkers, InitiateRefund(v) PROVE Effect
<1>1. v \in Procs
  BY DEF Procs
<1>2. CASE ClaimForSubmission(proc[v].row) /\ Goto(v, "post")
  BY <1>1, <1>2, ClaimEffect DEF InitiateRefund
<1>3. CASE Stop(v) /\ UNCHANGED payments
  BY <1>3, CheckerTurns, CheckerTurnsEffect, TableStays DEF InitiateRefund
<1> QED BY <1>2, <1>3 DEF InitiateRefund

LEMMA RereadRowEffect ==
    ASSUME SInv, NEW v \in Checkers, RereadRow(v) PROVE Effect
<1>1. Goto(v, "list") \/ Stop(v)
  BY DEF RereadRow
<1>2. Located' /\ OnlyProc(v) /\ Quiet /\ ToldMove(v) /\ CarryMove(v)
  BY <1>1, CheckerTurns DEF RereadRow, OnARow
<1> QED BY <1>2, CheckerTurnsEffect, TableStays DEF RereadRow

LEMMA ListInVainEffect ==
    ASSUME SInv, NEW v \in Checkers, ListInVain(v) PROVE Effect
<1>1. Located' /\ OnlyProc(v) /\ Quiet /\ ToldMove(v) /\ CarryMove(v)
  BY CheckerTurns DEF ListInVain, OnARow
<1> QED BY <1>1, CheckerTurnsEffect, TableStays DEF ListInVain

LEMMA ListRefundsEffect ==
    ASSUME SInv, NEW v \in Checkers, ListRefunds(v) PROVE Effect
<1>1. v \in Procs /\ ~Settles(v) /\ Located /\ Surroundings
  BY CheckersCarryNothing DEF SInv
<1>2. UNCHANGED <<payments, amount, cancelled, settlement, legsRun, refunds, inTransit, crashes>>
  BY DEF ListRefunds
<1>3. PICK i \in DOMAIN refunds :
         /\ refunds[i].note = proc[v].row
         /\ proc' = [proc EXCEPT ![v].pc = "match", ![v].answer = refunds[i].status]
  BY DEF ListRefunds
<1>4. refunds[i] \in Refund
  BY <1>1 DEF Surroundings
<1>5. refunds[i].status \in Answers
  BY <1>4 DEF Refund, Answers
<1>6. proc[v].pc \in OnARow
  BY DEF ListRefunds, OnARow
<1>7. /\ Located' /\ OnlyProc(v) /\ proc'[v].pc = "match" /\ proc'[v].row = proc[v].row
      /\ proc'[v].percent = proc[v].percent /\ proc'[v].answer = refunds[i].status
  BY <1>1, <1>3, <1>5, <1>6, AnswerEffect
<1>8. Quiet
  BY <1>1, <1>2, <1>7, OneIsQuiet
<1>9. ToldMove(v) /\ CarryMove(v)
  BY <1>1, <1>3, <1>7 DEF ToldMove, CarryMove, Settles, Noted
<1> QED BY <1>2, <1>7, <1>8, <1>9, CheckerTurnsEffect, TableStays

LEMMA ApplyVerificationEffect ==
    ASSUME SInv, NEW v \in Checkers, ApplyVerification(v) PROVE Effect
<1>1. v \in Procs /\ proc[v].pc \in {"apply", "match"} /\ Told(v) /\ Placed(proc[v])
  BY DEF Procs, SInv, Located, ApplyVerification
<1>2. proc[v].row \in PaymentIds /\ proc[v].pc \in OnARow
  BY <1>1 DEF Placed, OnARow
<1>3. UNCHANGED <<amount, cancelled, settlement, legsRun, refunds, inTransit, crashes>>
  BY DEF ApplyVerification
<1>4. Stop(v) \/ Goto(v, "backoff")
  BY DEF ApplyVerification
<1>5. Located' /\ OnlyProc(v) /\ Quiet /\ ToldMove(v) /\ CarryMove(v)
  BY <1>2, <1>3, <1>4, CheckerTurns
<1>6. \/ ClassifyResponse(proc[v].row, proc[v].answer)
      \/ proc[v].answer \in {"processed", "failed"} /\ SettleRow(proc[v].row, proc[v].answer)
      \/ UNCHANGED payments
  BY DEF ApplyVerification
<1>7. CASE proc[v].answer \in {"processed", "failed"} /\ SettleRow(proc[v].row, proc[v].answer)
  <2>1. \E i \in DOMAIN refunds :
           Noted(i, proc[v].row) /\ refunds[i].status = proc[v].answer
    BY <1>1, <1>7 DEF Told
  <2>2. /\ [Next]_ledgerVars
        /\ \A q \in PaymentIds : BookMove(q) /\ ShareMove(q)
    BY <1>2, <1>3, <1>5, <1>7, <2>1, SettleTable
  <2> QED BY <1>3, <1>5, <2>2, CheckerTurnsEffect
<1>8. CASE ClassifyResponse(proc[v].row, proc[v].answer)
  <2>1. /\ [Next]_ledgerVars
        /\ \A q \in PaymentIds : BookMove(q) /\ ShareMove(q)
    BY <1>1, <1>3, <1>5, <1>8, ClassifyTable
  <2> QED BY <1>3, <1>5, <2>1, CheckerTurnsEffect
<1>9. CASE UNCHANGED payments
  BY <1>3, <1>5, <1>9, CheckerTurnsEffect, TableStays
<1> QED BY <1>6, <1>7, <1>8, <1>9

LEMMA BackOffRowEffect ==
    ASSUME SInv, NEW v \in Checkers, BackOffRow(v) PROVE Effect
<1>1. v \in Procs /\ Placed(proc[v]) /\ TypeOK
  BY DEF Procs, SInv, IInv, Located
<1>2. proc[v].row \in PaymentIds
  BY <1>1 DEF Placed, OnARow, BackOffRow
<1>3. Writes(proc[v].row, StatusOf(proc[v].row))
  BY <1>1, <1>2, StatementWrites DEF BackOffRow
<1>4. UNCHANGED <<amount, cancelled, settlement, legsRun, refunds, inTransit, crashes>>
  BY DEF BackOffRow
<1>5. /\ [Next]_ledgerVars
      /\ \A q \in PaymentIds : BookMove(q) /\ ShareMove(q)
  BY <1>2, <1>3, <1>4, HarmlessTable
<1>6. Located' /\ OnlyProc(v) /\ Quiet /\ ToldMove(v) /\ CarryMove(v)
  BY CheckerTurns DEF BackOffRow
<1> QED BY <1>4, <1>5, <1>6, CheckerTurnsEffect

-----------------------------------------------------------------------------
(* Paystack, its webhooks, time and crashes.                               *)
LEMMA LateArrivalEffect ==
    ASSUME SInv, NEW p \in PaymentIds, LateArrival(p) PROVE Effect
<1>1. UNCHANGED <<payments, amount, cancelled, settlement, legsRun, proc, crashes>>
  BY DEF LateArrival
<1>2. Arrives(p)
  BY DEF LateArrival, MakeRefund, Makes, Arrives
<1>3. refunds' \in Seq(Refund)
  <2>1. CASE UNCHANGED refunds
    BY <2>1 DEF SInv, Surroundings
  <2>2. ASSUME NEW s \in RefundStatuses, Makes(p, s) PROVE refunds' \in Seq(Refund)
    <3>1. [note |-> p, status |-> s] \in Refund
      BY DEF Refund
    <3> QED BY <2>2, <3>1 DEF Makes, SInv, Surroundings
  <2> QED BY <1>2, <2>1, <2>2 DEF Arrives
<1>4. Surroundings'
  BY <1>1, <1>2, <1>3 DEF SInv, Surroundings, Arrives
<1>5. PostsMove
  BY <1>2 DEF PostsMove
<1> QED BY <1>1, <1>4, <1>5, NobodyMoves, TableStays

LEMMA RefundProgressesEffect ==
    ASSUME SInv, NEW i \in 1..MaxRefunds, NEW s \in RefundStatuses, RefundProgresses(i, s)
    PROVE  Effect
<1>1. UNCHANGED <<payments, amount, cancelled, settlement, legsRun, proc, inTransit, crashes>>
  BY DEF RefundProgresses
<1>2. Progresses(i)
  BY DEF RefundProgresses, Progresses
<1>3. refunds \in Seq(Refund) /\ i \in DOMAIN refunds
  BY <1>2 DEF SInv, Surroundings, Progresses
<1>4. refunds[i] \in Refund
  BY <1>3
<1>5. [refunds[i] EXCEPT !.status = s] \in Refund
  BY <1>4 DEF Refund
<1>6. refunds' = [refunds EXCEPT ![i] = [refunds[i] EXCEPT !.status = s]]
  BY <1>3 DEF RefundProgresses
<1>7. refunds' \in Seq(Refund)
  BY <1>3, <1>5, <1>6
<1>8. Surroundings'
  BY <1>1, <1>7 DEF SInv, Surroundings
<1>9. PostsMove
  BY <1>2, <1>3 DEF PostsMove
<1> QED BY <1>1, <1>8, <1>9, NobodyMoves, TableStays

LEMMA DeliverWebhookEffect ==
    ASSUME SInv, NEW i \in 1..MaxRefunds, DeliverWebhook(i) PROVE Effect
<1>1. UNCHANGED <<amount, cancelled, settlement, legsRun, proc, refunds, inTransit, crashes>>
  BY DEF DeliverWebhook
<1>2. i \in DOMAIN refunds /\ refunds \in Seq(Refund)
  BY DEF DeliverWebhook, SInv, Surroundings
<1>3. refunds[i].note \in PaymentIds
  <2>1. refunds[i] \in Refund
    BY <1>2
  <2> QED BY <2>1 DEF Refund
<1>4. Quiet
  BY <1>1, StillIsQuiet
<1>5. /\ [Next]_ledgerVars
      /\ \A q \in PaymentIds : BookMove(q) /\ ShareMove(q)
  BY <1>1, <1>2, <1>3, <1>4, SettleTable DEF DeliverWebhook, Noted
<1>6. Surroundings'
  BY <1>1 DEF SInv, Surroundings
<1>7. PostsMove
  BY <1>4 DEF PostsMove
<1> QED BY <1>1, <1>5, <1>6, <1>7, NobodyMoves

LEMMA TimePassesEffect ==
    ASSUME SInv, NEW p \in PaymentIds, TimePasses(p) PROVE Effect
<1>1. UNCHANGED <<amount, cancelled, settlement, legsRun, proc, refunds, inTransit, crashes>>
  BY DEF TimePasses
<1>2. Writes(p, StatusOf(p))
  BY StatementWrites DEF TimePasses, SInv, IInv
<1>3. /\ [Next]_ledgerVars
      /\ \A q \in PaymentIds : BookMove(q) /\ ShareMove(q)
  BY <1>1, <1>2, HarmlessTable
<1>4. Surroundings'
  BY <1>1 DEF SInv, Surroundings
<1>5. PostsMove
  BY <1>1, StillIsQuiet DEF PostsMove
<1> QED BY <1>1, <1>3, <1>4, <1>5, NobodyMoves

LEMMA CrashEffect ==
    ASSUME SInv, NEW w \in Procs, Crash(w) PROVE Effect
<1>1. Located /\ Surroundings /\ Stop(w)
  BY DEF SInv, Crash
<1>2. /\ UNCHANGED <<payments, amount, cancelled, settlement, legsRun, refunds, inTransit>>
      /\ crashes' = crashes + 1 /\ crashes < MaxCrashes
  BY DEF Crash
<1>3. Located' /\ OnlyProc(w) /\ proc'[w] = Idle
  BY <1>1, StopEffect
<1>4. crashes \in Nat /\ crashes' \in 0..MaxCrashes /\ crashes' # 0
  BY <1>1, <1>2, BoundAssumption DEF Surroundings
<1>5. Surroundings'
  BY <1>1, <1>2, <1>4 DEF Surroundings
<1>6. PostsMove
  BY <1>2, <1>3, IdlePlaced, OneIsQuiet DEF PostsMove
<1>7. \A x \in Procs : ToldMove(x) /\ CarryMove(x)
  BY <1>3, StopCarries DEF OnlyProc, ToldMove, CarryMove
<1> QED BY <1>2, <1>3, <1>4, <1>5, <1>6, <1>7, TableStays DEF Effect, LegsMove

LEMMA EveryStep ==
    ASSUME SInv, [SettlementNext]_settlementVars
    PROVE  Effect
<1>1. CASE UNCHANGED settlementVars
  <2>1. UNCHANGED <<payments, amount, cancelled, settlement, legsRun, proc, refunds, inTransit,
                    crashes>>
    BY <1>1 DEF settlementVars
  <2>2. Surroundings'
    BY <2>1 DEF SInv, Surroundings
  <2>3. PostsMove
    BY <2>1, StillIsQuiet DEF PostsMove
  <2> QED BY <2>1, <2>2, <2>3, NobodyMoves, TableStays
<1>2. CASE SetStatus
  BY <1>2, SetStatusEffect
<1>3. ASSUME NEW w \in Admins, RefundDeposit(w) \/ AdminStep(w)
      PROVE  Effect
  <2>1. w \in Procs
    BY DEF Procs
  <2> QED BY <1>3, <2>1, RefundDepositEffect, ClaimSettlementEffect, InsertRefundEffect,
             SubmitRefundEffect, PostRefundEffect, ApplyResponseEffect, PayoutLegEffect
          DEF AdminStep
<1>4. ASSUME NEW w \in Admins, NEW percent \in Percents, ResolveSettlement(w, percent)
      PROVE  Effect
  BY <1>4, ResolveSettlementEffect
<1>5. ASSUME NEW v \in Checkers, CheckerStep(v)
      PROVE  Effect
  <2>1. v \in Procs
    BY DEF Procs
  <2> QED BY <1>5, <2>1, InitiateRefundEffect, RereadRowEffect, ListRefundsEffect,
             ListInVainEffect, PostRefundEffect, ApplyVerificationEffect, BackOffRowEffect
          DEF CheckerStep
<1>6. ASSUME NEW v \in Checkers, NEW p \in PaymentIds, PickDueRow(v, p)
      PROVE  Effect
  BY <1>6, PickDueRowEffect
<1>7. ASSUME NEW p \in PaymentIds,
             LateArrival(p) \/ TimePasses(p) \/ PayoutMoves(p) \/ RetryPayout(p)
      PROVE  Effect
  BY <1>7, LateArrivalEffect, TimePassesEffect, PayoutMovesEffect, RetryPayoutEffect
<1>8. ASSUME NEW i \in 1..MaxRefunds,
             DeliverWebhook(i) \/ \E s \in RefundStatuses : RefundProgresses(i, s)
      PROVE  Effect
  BY <1>8, DeliverWebhookEffect, RefundProgressesEffect
<1>9. ASSUME NEW w \in Procs, Crash(w)
      PROVE  Effect
  BY <1>9, CrashEffect
<1> QED BY <1>1, <1>2, <1>3, <1>4, <1>5, <1>6, <1>7, <1>8, <1>9 DEF SettlementNext

-----------------------------------------------------------------------------
(* What every effect keeps.                                                *)

(* How the list of refunds grows.                                          *)
Appended(k, p, s) ==
    /\ k \notin DOMAIN refunds /\ DOMAIN refunds' = DOMAIN refunds \cup {k}
    /\ \A j \in DOMAIN refunds : refunds'[j] = refunds[j]
    /\ refunds'[k].note = p /\ refunds'[k].status = s

LEMMA MakesAppends ==
    ASSUME SInv, NEW p \in PaymentIds, NEW s \in RefundStatuses, Makes(p, s)
    PROVE  \E k \in DOMAIN refunds' : Appended(k, p, s)
<1> DEFINE k == Len(refunds) + 1
<1>1. [note |-> p, status |-> s] \in Refund
  BY DEF Makes, Refund
<1>2. refunds \in Seq(Refund)
  BY DEF SInv, Surroundings
<1>3. /\ DOMAIN refunds' = DOMAIN refunds \cup {k} /\ k \notin DOMAIN refunds
      /\ \A j \in DOMAIN refunds : refunds'[j] = refunds[j]
      /\ refunds'[k] = [note |-> p, status |-> s]
  BY <1>1, <1>2 DEF Makes
<1> HIDE DEF k
<1> QED BY <1>3 DEF Appended

LEMMA MakesNotes ==
    ASSUME SInv, NEW q \in PaymentIds, NEW s \in RefundStatuses, Makes(q, s),
           NEW p \in PaymentIds
    PROVE  /\ p # q => \A i \in DOMAIN refunds' : Noted(i, p)' => Noted(i, p)
           /\ (\A i \in DOMAIN refunds : ~Noted(i, p)) =>
                 \A i, j \in DOMAIN refunds' : Noted(i, p)' /\ Noted(j, p)' => j = i
<1>1. PICK k \in DOMAIN refunds' : Appended(k, q, s)
  BY MakesAppends
<1> QED BY <1>1 DEF Appended, Noted

(* A refund is never of another row, and a settled one stays as it is.     *)
StandsAs(j) ==
    /\ j \in DOMAIN refunds' /\ refunds'[j].note = refunds[j].note
    /\ refunds[j].status \in {"processed", "failed"} => refunds'[j].status = refunds[j].status

(* ... and a row that is spent gets none any more.                         *)
StaysSpent(p) ==
    /\ Spent(p)'
    /\ \A j \in DOMAIN refunds' : refunds'[j].note = p => Noted(j, p)

LEMMA ProgressKeepsNotes ==
    ASSUME refunds \in Seq(Refund), NEW i \in DOMAIN refunds, Progresses(i)
    PROVE  /\ DOMAIN refunds' = DOMAIN refunds
           /\ \A j \in DOMAIN refunds : StandsAs(j)
<1>1. PICK s \in RefundStatuses : refunds' = [refunds EXCEPT ![i].status = s]
  BY DEF Progresses
<1>2. DOMAIN refunds' = DOMAIN refunds
  BY <1>1
<1>3. \A j \in DOMAIN refunds : refunds[j] \in Refund
  OBVIOUS
<1>4. ASSUME NEW j \in DOMAIN refunds PROVE StandsAs(j)
  <2>1. CASE j # i
    BY <1>1, <1>2, <2>1 DEF StandsAs
  <2>2. CASE j = i
    <3>1. refunds'[j] = [refunds[j] EXCEPT !.status = s]
      BY <1>1, <2>2
    <3>2. refunds'[j].note = refunds[j].note
      BY <1>3, <3>1 DEF Refund
    <3> QED BY <1>2, <2>2, <3>2 DEF StandsAs, Progresses
  <2> QED BY <2>1, <2>2
<1> QED BY <1>2, <1>4

LEMMA RefundsStand ==
    ASSUME SInv, PostsMove, [Next]_ledgerVars
    PROVE  /\ \A j \in DOMAIN refunds : StandsAs(j)
           /\ \A p \in PaymentIds : Past(p) /\ Spent(p) => StaysSpent(p)
<1>1. OnePost /\ Located /\ refunds \in Seq(Refund) /\ IInv
  BY DEF SInv, Surroundings
<1>2. CASE Quiet
  <2>1. \A j \in DOMAIN refunds : StandsAs(j)
    BY <1>2 DEF Quiet, StandsAs
  <2>2. \A p \in PaymentIds : Spent(p) => StaysSpent(p)
    BY <1>2 DEF Quiet, StaysSpent, Spent, At, Noted
  <2> QED BY <2>1, <2>2
<1>3. ASSUME NEW w \in Procs, Claims(w)
      PROVE  /\ \A j \in DOMAIN refunds : StandsAs(j)
             /\ \A p \in PaymentIds : Past(p) /\ Spent(p) => StaysSpent(p)
  <2>1. \A j \in DOMAIN refunds : StandsAs(j)
    BY <1>3 DEF Claims, StandsAs
  <2>2. ASSUME NEW p \in PaymentIds, Past(p), Spent(p)
        PROVE  StaysSpent(p)
    <3>1. p # proc[w].row
      BY <1>3, <2>2 DEF Claims, Past
    <3>2. \A x \in Procs : ~At(x, p)'
      BY <1>3, <2>2, <3>1 DEF Claims, OnlyProc, Spent, At
    <3> QED BY <1>3, <2>2, <3>2 DEF Claims, StaysSpent, Spent, Noted
  <2> QED BY <2>1, <2>2
<1>4. ASSUME NEW w \in Procs, Posts(w)
      PROVE  /\ \A j \in DOMAIN refunds : StandsAs(j)
             /\ \A p \in PaymentIds : Past(p) /\ Spent(p) => StaysSpent(p)
  <2>1. proc[w].row \in PaymentIds /\ At(w, proc[w].row)
    BY <1>1, <1>4 DEF Posts, Located, Placed, OnARow, At
  <2>2. ASSUME NEW p \in PaymentIds, Spent(p)
        PROVE  p # proc[w].row /\ Spent(p)'
    <3>1. p # proc[w].row
      BY <2>1, <2>2 DEF Spent
    <3>2. \A x \in Procs : ~At(x, p)'
      BY <1>4, <2>2 DEF Posts, OnlyProc, Spent, At
    <3> QED BY <1>4, <2>2, <3>1, <3>2 DEF Posts, Spent
  <2>3. CASE UNCHANGED refunds
    BY <2>2, <2>3 DEF StandsAs, StaysSpent, Noted
  <2>4. ASSUME NEW s \in RefundStatuses, Makes(proc[w].row, s)
        PROVE  /\ \A j \in DOMAIN refunds : StandsAs(j)
               /\ \A p \in PaymentIds : Past(p) /\ Spent(p) => StaysSpent(p)
    <3>1. PICK k \in DOMAIN refunds' : Appended(k, proc[w].row, s)
      BY <2>1, <2>4, MakesAppends
    <3>2. \A j \in DOMAIN refunds : StandsAs(j)
      BY <3>1 DEF Appended, StandsAs
    <3>3. ASSUME NEW p \in PaymentIds, Spent(p) PROVE StaysSpent(p)
      BY <2>2, <3>1, <3>3 DEF Appended, StaysSpent, Noted
    <3> QED BY <3>2, <3>3
  <2> QED BY <1>4, <2>3, <2>4 DEF Posts
<1>5. ASSUME NEW q \in PaymentIds, Arrives(q)
      PROVE  /\ \A j \in DOMAIN refunds : StandsAs(j)
             /\ \A p \in PaymentIds : Past(p) /\ Spent(p) => StaysSpent(p)
  <2>1. ASSUME NEW p \in PaymentIds, Spent(p)
        PROVE  p # q /\ Spent(p)'
    BY <1>5, <2>1 DEF Arrives, Spent, At
  <2>2. CASE UNCHANGED refunds
    BY <2>1, <2>2 DEF StandsAs, StaysSpent, Noted
  <2>3. ASSUME NEW s \in RefundStatuses, Makes(q, s)
        PROVE  /\ \A j \in DOMAIN refunds : StandsAs(j)
               /\ \A p \in PaymentIds : Past(p) /\ Spent(p) => StaysSpent(p)
    <3>1. PICK k \in DOMAIN refunds' : Appended(k, q, s)
      BY <2>3, MakesAppends
    <3>2. \A j \in DOMAIN refunds : StandsAs(j)
      BY <3>1 DEF Appended, StandsAs
    <3>3. ASSUME NEW p \in PaymentIds, Spent(p) PROVE StaysSpent(p)
      BY <2>1, <3>1, <3>3 DEF Appended, StaysSpent, Noted
    <3> QED BY <3>2, <3>3
  <2> QED BY <1>5, <2>2, <2>3 DEF Arrives
<1>6. ASSUME NEW i \in DOMAIN refunds, Progresses(i)
      PROVE  /\ \A j \in DOMAIN refunds : StandsAs(j)
             /\ \A p \in PaymentIds : Past(p) /\ Spent(p) => StaysSpent(p)
  <2>1. /\ DOMAIN refunds' = DOMAIN refunds
        /\ \A j \in DOMAIN refunds : StandsAs(j)
    BY <1>1, <1>6, ProgressKeepsNotes
  <2>2. \A p \in PaymentIds : Spent(p) => Spent(p)'
    BY <1>6 DEF Progresses, Spent, At
  <2> QED BY <2>1, <2>2 DEF StandsAs, StaysSpent, Noted
<1> QED BY <1>2, <1>3, <1>4, <1>5, <1>6 DEF PostsMove

-----------------------------------------------------------------------------
LEMMA OnePostKept == ASSUME SInv, Effect PROVE OnePost'
<1> DEFINE Kept(p) ==
             /\ \A w \in Procs : At(w, p)' =>
                   /\ Past(p)' /\ p \notin inTransit'
                   /\ \A x \in Procs : At(x, p)' => x = w
             /\ p \in inTransit' => Past(p)'
             /\ \A i \in DOMAIN refunds' : Noted(i, p)' =>
                   /\ Past(p)' /\ Spent(p)'
                   /\ \A j \in DOMAIN refunds' : Noted(j, p)' => j = i
<1> SUFFICES ASSUME NEW p \in PaymentIds PROVE Kept(p)
  BY DEF OnePost
<1>1. Past(p) => Past(p)'
  BY LedgerKeeps DEF SInv, Effect
<1>2. /\ \A w \in Procs : At(w, p) =>
            /\ Past(p) /\ p \notin inTransit
            /\ \A x \in Procs : At(x, p) => x = w
      /\ p \in inTransit => Past(p)
      /\ \A i \in DOMAIN refunds : Noted(i, p) =>
            /\ Past(p) /\ Spent(p)
            /\ \A j \in DOMAIN refunds : Noted(j, p) => j = i
  BY DEF OnePost, SInv
<1>3. CASE Quiet
  BY <1>1, <1>2, <1>3 DEF Quiet, At, Noted, Spent
<1>4. ASSUME NEW w \in Procs, Claims(w) PROVE Kept(p)
  <2>1. CASE p = proc[w].row
    <3>1. ~Past(p) /\ Past(p)'
      BY <1>4, <2>1 DEF Claims, Past, StatusOf
    <3>2. /\ p \notin inTransit /\ \A x \in Procs : ~At(x, p)
          /\ \A i \in DOMAIN refunds : ~Noted(i, p)
      BY <1>2, <3>1
    <3> QED BY <1>4, <3>1, <3>2 DEF Claims, OnlyProc, At, Noted
  <2>2. CASE p # proc[w].row
    BY <1>1, <1>2, <1>4, <2>2 DEF Claims, OnlyProc, At, Noted, Spent
  <2> QED BY <2>1, <2>2
<1>5. ASSUME NEW w \in Procs, Posts(w) PROVE Kept(p)
  <2>1. proc[w].row \in PaymentIds /\ At(w, proc[w].row)
    BY <1>5 DEF Posts, SInv, Located, Placed, OnARow, At
  <2>2. \A x \in Procs : At(x, p)' => At(x, p) /\ x # w
    BY <1>5 DEF Posts, OnlyProc, At
  <2>3. \/ UNCHANGED refunds
        \/ UNCHANGED inTransit /\ \E s \in RefundStatuses : Makes(proc[w].row, s)
    BY <1>5 DEF Posts
  <2>4. CASE p # proc[w].row
    <3>1. p \in inTransit' <=> p \in inTransit
      BY <1>5, <2>4 DEF Posts
    <3>2. \A i \in DOMAIN refunds' : Noted(i, p)' => Noted(i, p)
      <4>1. CASE UNCHANGED refunds
        BY <4>1 DEF Noted
      <4>2. ASSUME NEW s \in RefundStatuses, Makes(proc[w].row, s)
            PROVE  \A i \in DOMAIN refunds' : Noted(i, p)' => Noted(i, p)
        BY <2>1, <2>4, <4>2, MakesNotes
      <4> QED BY <2>3, <4>1, <4>2
    <3> QED BY <1>1, <1>2, <2>2, <3>1, <3>2 DEF Spent, Noted
  <2>5. CASE p = proc[w].row
    <3>1. /\ Past(p)' /\ p \notin inTransit
          /\ \A x \in Procs : ~At(x, p)'
          /\ \A i \in DOMAIN refunds : ~Noted(i, p)
      BY <1>1, <1>2, <2>1, <2>2, <2>5 DEF Spent
    <3>2. CASE UNCHANGED refunds
      BY <3>1, <3>2 DEF Noted
    <3>3. ASSUME NEW s \in RefundStatuses, UNCHANGED inTransit, Makes(p, s)
          PROVE  Kept(p)
      <4>1. \A i, j \in DOMAIN refunds' : Noted(i, p)' /\ Noted(j, p)' => j = i
        BY <3>1, <3>3, MakesNotes
      <4> QED BY <3>1, <3>3, <4>1 DEF Spent
    <3> QED BY <2>3, <2>5, <3>2, <3>3
  <2> QED BY <2>4, <2>5
<1>6. ASSUME NEW q \in PaymentIds, Arrives(q) PROVE Kept(p)
  <2>1. \A x \in Procs : At(x, p)' <=> At(x, p)
    BY <1>6 DEF Arrives, At
  <2>2. CASE p # q
    <3>1. p \in inTransit' <=> p \in inTransit
      BY <1>6, <2>2 DEF Arrives
    <3>2. \A i \in DOMAIN refunds' : Noted(i, p)' => Noted(i, p)
      <4>1. CASE UNCHANGED refunds
        BY <4>1 DEF Noted
      <4>2. ASSUME NEW s \in RefundStatuses, Makes(q, s)
            PROVE  \A i \in DOMAIN refunds' : Noted(i, p)' => Noted(i, p)
        BY <2>2, <4>2, MakesNotes
      <4> QED BY <1>6, <4>1, <4>2 DEF Arrives
    <3> QED BY <1>1, <1>2, <2>1, <3>1, <3>2 DEF Spent, Noted
  <2>3. CASE p = q
    <3>1. /\ Past(p)' /\ p \notin inTransit'
          /\ \A x \in Procs : ~At(x, p)'
          /\ \A i \in DOMAIN refunds : ~Noted(i, p)
      BY <1>1, <1>2, <1>6, <2>1, <2>3 DEF Arrives, Spent
    <3>2. CASE UNCHANGED refunds
      BY <3>1, <3>2 DEF Noted
    <3>3. ASSUME NEW s \in RefundStatuses, Makes(p, s)
          PROVE  Kept(p)
      <4>1. \A i, j \in DOMAIN refunds' : Noted(i, p)' /\ Noted(j, p)' => j = i
        BY <3>1, <3>3, MakesNotes
      <4> QED BY <3>1, <4>1 DEF Spent
    <3> QED BY <1>6, <2>3, <3>2, <3>3 DEF Arrives
  <2> QED BY <2>2, <2>3
<1>7. ASSUME NEW i \in DOMAIN refunds, Progresses(i) PROVE Kept(p)
  <2>1. refunds \in Seq(Refund)
    BY DEF SInv, Surroundings
  <2>2. \A j \in DOMAIN refunds' : Noted(j, p)' => Noted(j, p)
    BY <1>7, <2>1, ProgressKeepsNotes DEF StandsAs, Noted
  <2>3. /\ UNCHANGED inTransit
        /\ \A x \in Procs : At(x, p)' <=> At(x, p)
    BY <1>7 DEF Progresses, At
  <2> QED BY <1>1, <1>2, <2>2, <2>3 DEF Spent, Noted
<1> HIDE DEF Kept
<1> QED BY <1>3, <1>4, <1>5, <1>6, <1>7 DEF Effect, PostsMove

LEMMA ToldKept ==
    ASSUME SInv, Effect, NEW w \in Procs
    PROVE  Told(w)'
<1>1. Told(w) /\ OnePost /\ Located
  BY DEF SInv
<1>2. /\ \A j \in DOMAIN refunds : StandsAs(j)
      /\ \A q \in PaymentIds : Past(q) /\ Spent(q) => StaysSpent(q)
  BY RefundsStand DEF Effect
<1>3. \A q \in PaymentIds : Past(q) => Past(q)'
  BY LedgerKeeps DEF SInv, Effect
<1> SUFFICES ASSUME proc'[w].pc \in {"apply", "match"}, NEW p \in PaymentIds, p = proc'[w].row
             PROVE  /\ Past(p)'
                    /\ proc'[w].answer \in {"processed", "failed"} =>
                          \E i \in DOMAIN refunds' :
                             Noted(i, p)' /\ refunds'[i].status = proc'[w].answer
                    /\ proc'[w].answer = "rejected" /\ ~UnreadableAnswers =>
                          Spent(p)' /\ \A i \in DOMAIN refunds' : ~Noted(i, p)'
  <2>1. proc'[w].pc \in {"apply", "match"} => proc'[w].row \in PaymentIds
    BY DEF Effect, Located, Placed, OnARow
  <2> QED BY <2>1 DEF Told, Noted, Past, StatusOf, Spent, At
(* What is known of a row's refund stays true of it.                       *)
<1>4. ASSUME Past(p), NEW i \in DOMAIN refunds, Noted(i, p),
             refunds[i].status \in {"processed", "failed"}
      PROVE  i \in DOMAIN refunds' /\ Noted(i, p)' /\ refunds'[i].status = refunds[i].status
  BY <1>2, <1>4 DEF StandsAs, Noted
<1>5. ASSUME Past(p), Spent(p), \A i \in DOMAIN refunds : ~Noted(i, p)
      PROVE  Spent(p)' /\ \A i \in DOMAIN refunds' : ~Noted(i, p)'
  BY <1>2, <1>5 DEF StaysSpent, Noted
<1>6. CASE proc'[w] = proc[w]
  BY <1>1, <1>3, <1>4, <1>5, <1>6 DEF Told
<1>7. CASE Posts(w)
  <2>1. proc[w].row = p /\ At(w, p)
    BY <1>7 DEF Posts, At
  <2>2. Past(p) /\ p \notin inTransit /\ \A i \in DOMAIN refunds : ~Noted(i, p)
    BY <1>1, <2>1 DEF OnePost, Spent
  <2>3. \A x \in Procs : ~At(x, p)'
    BY <1>1, <1>7, <2>1 DEF OnePost, Posts, OnlyProc, At
  <2>4. ASSUME NEW s \in RefundStatuses, Makes(p, s),
               \/ proc'[w].answer \in {s, "ambiguous"}
               \/ UnreadableAnswers /\ proc'[w].answer = "rejected"
        PROVE  /\ proc'[w].answer \in {"processed", "failed"} =>
                     \E i \in DOMAIN refunds' :
                        Noted(i, p)' /\ refunds'[i].status = proc'[w].answer
               /\ proc'[w].answer = "rejected" => UnreadableAnswers
    <3>1. PICK k \in DOMAIN refunds' : Appended(k, p, s)
      BY <2>4, MakesAppends
    <3>2. Noted(k, p)' /\ refunds'[k].status = s
      BY <3>1 DEF Appended, Noted
    <3>3. s # "failed" /\ s # "rejected"
      BY <2>4 DEF Makes, RefundStatuses
    <3> QED BY <2>4, <3>2, <3>3
  <2>5. CASE proc'[w].answer = "rejected" /\ UNCHANGED <<refunds, inTransit>>
    BY <1>3, <2>2, <2>3, <2>5 DEF Spent, Noted
  <2>6. CASE proc'[w].answer = "ambiguous"
    BY <1>3, <2>2, <2>6
  <2> QED BY <1>3, <1>7, <2>1, <2>2, <2>4, <2>5, <2>6 DEF Posts
<1>8. ASSUME NEW i \in DOMAIN refunds, Noted(i, p), refunds[i].status = proc'[w].answer
      PROVE  /\ Past(p)'
             /\ proc'[w].answer \in {"processed", "failed"} =>
                   \E j \in DOMAIN refunds' :
                      Noted(j, p)' /\ refunds'[j].status = proc'[w].answer
             /\ proc'[w].answer # "rejected"
  <2>1. Past(p)
    BY <1>1, <1>8 DEF OnePost
  <2>2. refunds[i] \in Refund
    BY <1>8 DEF SInv, Surroundings
  <2> QED BY <1>3, <1>4, <1>8, <2>1, <2>2 DEF Refund, RefundStatuses
<1> QED BY <1>6, <1>7, <1>8 DEF Effect, ToldMove

LEMMA BookKept ==
    ASSUME SInv, Effect, NEW p \in PaymentIds
    PROVE  Book(p)'
<1>1. Book(p)
  BY DEF SInv
<1>2. /\ \A j \in DOMAIN refunds : StandsAs(j)
      /\ Past(p) /\ Spent(p) => StaysSpent(p)
  BY RefundsStand DEF Effect
<1>3. ASSUME Exists(p)', payments'[p].type = "REFUND", payments'[p].status = "SUCCEEDED"
      PROVE  \E i \in DOMAIN refunds' : Noted(i, p)' /\ refunds'[i].status = "processed"
  <2>1. \E i \in DOMAIN refunds : Noted(i, p) /\ refunds[i].status = "processed"
    BY <1>1, <1>3 DEF Effect, BookMove, Book, StatusOf
  <2> QED BY <1>2, <2>1 DEF StandsAs, Noted
<1>4. ASSUME Exists(p)', payments'[p].type = "REFUND", payments'[p].status = "FAILED",
             ~UnreadableAnswers
      PROVE  /\ Spent(p)'
             /\ \A i \in DOMAIN refunds' : Noted(i, p)' => refunds'[i].status = "failed"
  <2>1. /\ Past(p) /\ Spent(p)
        /\ \A i \in DOMAIN refunds : Noted(i, p) => refunds[i].status = "failed"
    BY <1>1, <1>4 DEF Effect, BookMove, Book, StatusOf, Past
  <2> QED BY <1>2, <2>1 DEF StandsAs, StaysSpent, Noted
<1> QED BY <1>3, <1>4 DEF Book, StatusOf

LEMMA CarriedKept ==
    ASSUME SInv, Effect, NEW w \in Procs
    PROVE  Carried(w)'
<1>1. Carried(w) /\ CarryMove(w)
  BY DEF SInv, Effect
<1>2. settlement' = settlement \/ settlement = NoDecision
  BY DEF Effect, LegsMove, Decides
<1>3. Settles(w) /\ proc[w].pc # "decide" =>
         settlement = proc[w].percent /\ settlement' = settlement
  BY <1>1, <1>2 DEF Carried, Settles
<1>4. CASE proc'[w] = proc[w]
  BY <1>1, <1>3, <1>4 DEF Carried, Settles
<1>5. CASE proc'[w].percent = NoDecision /\ proc'[w].pc \notin {"decide", "payout"}
  BY <1>5 DEF Carried, Settles
<1>6. CASE w \in Admins /\ proc'[w].pc = "decide" /\ proc'[w].percent # NoDecision
  BY <1>6 DEF Carried, Settles
<1>7. CASE /\ Settles(w) /\ proc'[w].percent = proc[w].percent
           /\ proc'[w].pc \notin {"idle", "decide"}
           /\ proc[w].pc = "decide" => settlement' = proc[w].percent
  BY <1>1, <1>3, <1>7 DEF Carried, Settles
<1> QED BY <1>1, <1>4, <1>5, <1>6, <1>7 DEF CarryMove

LEMMA ShareKept ==
    ASSUME SInv, Effect, NEW p \in PaymentIds
    PROVE  Share(p)'
<1>1. Share(p) /\ ShareMove(p)
  BY DEF SInv, Effect
<1>2. settlement' = settlement \/ settlement = NoDecision
  BY DEF Effect, LegsMove, Decides
<1> QED BY <1>1, <1>2 DEF Share, ShareMove, Exists, StatusOf

LEMMA LegsKept == ASSUME SInv, Effect PROVE LegsUnderWay'
<1> SUFFICES ASSUME settlement' # NoDecision, crashes' = 0
             PROVE  /\ RefundShare(Splittable, settlement') > 0 =>
                          \/ "refund" \in legsRun'
                          \/ \E w \in Admins : Settles(w)' /\ proc'[w].pc = "insert"
                    /\ PayoutShare(Splittable, settlement') > 0 =>
                          \/ "payout" \in legsRun'
                          \/ \E w \in Admins : Settles(w)' /\ proc'[w].pc \in BeforePayout
  BY DEF LegsUnderWay, RefundShare, PayoutShare, Rounded, Splittable, FeeKeptOut
<1>1. /\ crashes = 0 /\ legsRun \subseteq legsRun'
      /\ \A w \in Admins : Carries(w) /\ Carried(w)
  BY DEF Effect, LegsMove, SInv, Procs
<1>2. settlement \in Percents \cup {NoDecision} /\ settlement' \in Percents
  BY DEF SInv, Effect, Surroundings
<1>3. RefundShare(Splittable, settlement') \in Nat /\ PayoutShare(Splittable, settlement') \in Nat
  BY <1>2, SharesAddUp
<1>4. CASE settlement' = settlement
  <2>1. LegsUnderWay
    BY DEF SInv
  <2>2. ASSUME RefundShare(Splittable, settlement) > 0
        PROVE  \/ "refund" \in legsRun'
               \/ \E w \in Admins : Settles(w)' /\ proc'[w].pc = "insert"
    <3>1. CASE "refund" \in legsRun
      BY <1>1, <3>1
    <3>2. ASSUME NEW w \in Admins, Settles(w), proc[w].pc = "insert"
          PROVE  \/ "refund" \in legsRun'
                 \/ Settles(w)' /\ proc'[w].pc = "insert"
      BY <1>1, <3>2 DEF Carries, Settles
    <3> QED BY <1>1, <1>4, <2>1, <2>2, <3>1, <3>2 DEF LegsUnderWay
  <2>3. ASSUME PayoutShare(Splittable, settlement) > 0
        PROVE  \/ "payout" \in legsRun'
               \/ \E w \in Admins : Settles(w)' /\ proc'[w].pc \in BeforePayout
    <3>1. CASE "payout" \in legsRun
      BY <1>1, <3>1
    <3>2. ASSUME NEW w \in Admins, Settles(w), proc[w].pc \in BeforePayout
          PROVE  \/ "payout" \in legsRun'
                 \/ Settles(w)' /\ proc'[w].pc \in BeforePayout
      <4>1. settlement = proc[w].percent
        BY <1>1, <3>2 DEF Carried, BeforePayout
      <4>2. ~(PayoutShare(Splittable, proc[w].percent) <= 0)
        BY <1>3, <1>4, <2>3, <4>1
      <4> QED BY <1>1, <3>2, <4>2 DEF Carries, Settles
    <3> QED BY <1>1, <1>4, <2>1, <2>3, <3>1, <3>2 DEF LegsUnderWay
  <2> QED BY <1>4, <2>2, <2>3
<1>5. ASSUME NEW w \in Admins, proc[w].pc = "decide", Decides(w)
      PROVE  /\ RefundShare(Splittable, settlement') > 0 =>
                   Settles(w)' /\ proc'[w].pc = "insert"
             /\ PayoutShare(Splittable, settlement') > 0 =>
                   Settles(w)' /\ proc'[w].pc \in BeforePayout
  <2>1. Settles(w)
    BY <1>1, <1>5 DEF Carried
  <2>2. PayoutShare(Splittable, settlement') > 0 => ~(PayoutShare(Splittable, settlement') <= 0)
    BY <1>3
  <2> QED BY <1>5, <2>1, <2>2 DEF Decides, Settles, BeforePayout
<1> QED BY <1>4, <1>5 DEF Effect, LegsMove

-----------------------------------------------------------------------------
LEMMA InitSInv == SettlementInit => SInv
<1> SUFFICES ASSUME SettlementInit PROVE SInv
  OBVIOUS
<1>1. IInv
  BY InitIInv DEF SettlementInit
<1>2. /\ \A w \in Procs : proc[w] = Idle
      /\ \A p \in PaymentIds : ~Exists(p)
      /\ refunds = << >> /\ inTransit = {} /\ settlement = NoDecision
  BY DEF SettlementInit, Init, AbsentRow, Exists, StatusOf
<1>3. Located
  BY IdlePlaced DEF SettlementInit, Located, Placed
<1>4. Surroundings
  BY BoundAssumption DEF SettlementInit, Surroundings
<1>5. OnePost
  BY <1>2, IdlePlaced DEF OnePost, At, Noted
<1>6. \A w \in Procs : Told(w) /\ Carried(w)
  BY <1>2, IdlePlaced DEF Told, Carried, Settles
<1>7. \A p \in PaymentIds : Book(p) /\ Share(p)
  BY <1>2 DEF Book, Share
<1>8. LegsUnderWay
  BY <1>2 DEF LegsUnderWay
<1> QED BY <1>1, <1>3, <1>4, <1>5, <1>6, <1>7, <1>8 DEF SInv

LEMMA StepSInv == SInv /\ [SettlementNext]_settlementVars => SInv'
<1> SUFFICES ASSUME SInv, [SettlementNext]_settlementVars
             PROVE  SInv'
  OBVIOUS
<1>1. Effect
  BY EveryStep
<1>2. IInv'
  BY <1>1, StepIInv DEF SInv, Effect
<1>3. Located' /\ Surroundings'
  BY <1>1 DEF Effect
<1>4. OnePost' /\ LegsUnderWay'
  BY <1>1, OnePostKept, LegsKept
<1>5. \A w \in Procs : Told(w)' /\ Carried(w)'
  BY <1>1, ToldKept, CarriedKept
<1>6. \A p \in PaymentIds : Book(p)' /\ Share(p)'
  BY <1>1, BookKept, ShareKept
<1> QED BY <1>2, <1>3, <1>4, <1>5, <1>6 DEF SInv

LEMMA SettlementInvariant == SettlementSpec => []SInv
  BY InitSInv, StepSInv, PTL DEF SettlementSpec

-----------------------------------------------------------------------------
(* Every variable of Settlement keeps its type: no share is negative, and  *)
(* no process holds a row that is not one.                                 *)
THEOREM SettlementTypeCorrect == SettlementSpec => []SettlementTypeOK
<1>1. SInv => SettlementTypeOK
  BY DEF SInv, IInv, Located, Surroundings, Refund, SettlementTypeOK
<1> QED BY <1>1, SettlementInvariant, PTL

(* Paystack is asked for each refund once, ever: not by the administrator  *)
(* and the reconciler both, not again by whoever finds no answer on        *)
(* record, and not by a POST that arrives after its caller gave it up.     *)
THEOREM RefundAskedOnce == SettlementSpec => []OneRefundPerAttempt
<1>1. SInv => OneRefundPerAttempt
  <2> SUFFICES ASSUME SInv, NEW i \in DOMAIN refunds, NEW j \in DOMAIN refunds,
                      refunds[i].note = refunds[j].note
               PROVE  i = j
    BY DEF OneRefundPerAttempt
  <2>1. refunds[i] \in Refund
    BY DEF SInv, Surroundings
  <2>2. refunds[i].note \in PaymentIds
    BY <2>1 DEF Refund
  <2> QED BY <2>2 DEF SInv, OnePost, Noted
<1> QED BY <1>1, SettlementInvariant, PTL

(* A settled refund row says what became of its own refund, provided that  *)
(* Paystack never answers a refund it has made with a body that cannot be  *)
(* parsed: that answer is taken for a refusal.                             *)
THEOREM RefundBooksAreRight ==
    ASSUME ~UnreadableAnswers
    PROVE  SettlementSpec => []RefundBooksMatch
<1>1. SInv => RefundBooksMatch
  <2> SUFFICES ASSUME SInv, NEW p \in RefundRows
               PROVE  /\ StatusOf(p) = "SUCCEEDED" =>
                            \E i \in DOMAIN refunds :
                               refunds[i] = [note |-> p, status |-> "processed"]
                      /\ StatusOf(p) = "FAILED" =>
                            \A i \in DOMAIN refunds : refunds[i].note = p => ~Live(i)
    BY DEF RefundBooksMatch
  <2>1. /\ p \in PaymentIds /\ Book(p) /\ Exists(p) /\ payments[p].type = "REFUND"
        /\ \A i \in DOMAIN refunds : refunds[i] \in Refund
    BY DEF SInv, Surroundings, RefundRows, RowsOf
  <2>2. ASSUME NEW i \in DOMAIN refunds, Noted(i, p), refunds[i].status = "processed"
        PROVE  refunds[i] = [note |-> p, status |-> "processed"]
    BY <2>1, <2>2 DEF Refund, Noted
  <2> QED BY <2>1, <2>2 DEF Book, Noted, Live
<1> QED BY <1>1, SettlementInvariant, PTL

(* Every row of a settlement carries its share of the one decision on      *)
(* record, however many administrators submit however many percentages.    *)
THEOREM LegsAlwaysFollow == SettlementSpec => []LegsFollowDecision
<1>1. SInv => LegsFollowDecision
  <2> SUFFICES ASSUME SInv, NEW p \in RefundRows \cup PayRows, ~WholeRefund(p)
               PROVE  /\ settlement # NoDecision
                      /\ amount[p] = IF p \in RefundRows
                                       THEN RefundShare(Splittable, settlement)
                                       ELSE PayoutShare(Splittable, settlement)
    BY DEF LegsFollowDecision
  <2>1. p \in PaymentIds /\ Share(p) /\ Exists(p)
    BY DEF SInv, RefundRows, PayRows, RowsOf
  <2>2. p \in RefundRows => payments[p].type = "REFUND" /\ amount[p] # DepositAmount
    BY DEF RefundRows, RowsOf, WholeRefund
  <2>3. p \notin RefundRows => payments[p].type = "PAYOUT"
    BY DEF PayRows, RowsOf
  <2> QED BY <2>1, <2>2, <2>3 DEF Share
<1> QED BY <1>1, SettlementInvariant, PTL

(* Short of a crash no leg of a settlement is dropped: when nobody carries *)
(* it out any more, every leg it has was got to.                           *)
THEOREM NoLegIsDropped == SettlementSpec => []BothLegsRun
<1>1. SInv => BothLegsRun
  BY DEF SInv, LegsUnderWay, BeforePayout, BothLegsRun
<1> QED BY <1>1, SettlementInvariant, PTL

-----------------------------------------------------------------------------
(* What a settlement gives out.  It has one decision, hence one refund     *)
(* row, and the payout's own attempts come one after the other.            *)
Shares(w) == w \in Admins /\ Settles(w) /\ proc[w].pc = "insert"

OnRefunds ==
    /\ \A w \in Procs : proc[w].pc \in OnARow => proc[w].row \in RefundRows
    /\ inTransit \subseteq RefundRows
    /\ \A i \in DOMAIN refunds : refunds[i].note \in RefundRows

OneShare ==
    /\ \A p, q \in RefundRows : amount[p] # DepositAmount /\ amount[q] # DepositAmount => p = q
    /\ \A w \in Procs : Shares(w) =>
          /\ \A p \in RefundRows : amount[p] = DepositAmount
          /\ \A x \in Procs : Shares(x) => x = w

OnePayout ==
    \A p, q \in PayRows :
        StatusOf(p) \in ActiveOrSucceeded /\ StatusOf(q) \in ActiveOrSucceeded => p = q

ConsInv == OnRefunds /\ OneShare /\ OnePayout

(* What a step does to the set of rows: nothing, or it inserts one.        *)
Touches == UNCHANGED payments \/ \E p \in PaymentIds : OnlyPayment(p) /\ Exists(p)

Inserts(p, t) ==
    /\ ~Exists(p) /\ OnlyPayment(p)
    /\ \A q \in PaymentIds \ {p} : amount'[q] = amount[q]
    /\ payments'[p].request = Request /\ payments'[p].type = t
    /\ payments'[p].status = "PENDING"

InsertsRefund(w, p) ==
    /\ proc[w].pc = "insert" /\ proc'[w].pc = "submit"
    /\ Inserts(p, "REFUND")
    /\ amount'[p] = DepositAmount \/ Shares(w)

InsertsPayout(p) ==
    /\ Inserts(p, "PAYOUT")
    /\ \A q \in PayRows : StatusOf(q) \notin ActiveOrSucceeded

RowsMove ==
    \/ Touches /\ UNCHANGED amount
    \/ \E p \in PaymentIds : (\E w \in Procs : InsertsRefund(w, p)) \/ InsertsPayout(p)

(* And to a process: the row it goes on with, and who goes on to insert.   *)
RowMove(w) ==
    \/ proc'[w] = proc[w]
    \/ proc'[w].pc \notin OnARow \cup {"insert"}
    \/ /\ proc'[w].pc \in OnARow
       /\ proc'[w].row \in RefundRows' \/ (proc[w].pc \in OnARow /\ proc'[w].row = proc[w].row)
    \/ /\ proc'[w].pc = "insert"
       /\ \/ proc'[w].percent = NoDecision
          \/ proc[w].pc = "decide" /\ settlement = NoDecision

Grows ==
    /\ RowsMove
    /\ \A w \in Procs : RowMove(w)
    /\ UNCHANGED proc \/ \E w \in Procs : OnlyProc(w)

LEMMA OneGrows ==
    ASSUME NEW w \in Procs, OnlyProc(w), RowMove(w), RowsMove
    PROVE  Grows
  BY DEF OnlyProc, RowMove, Grows

LEMMA NobodyGrows ==
    ASSUME UNCHANGED proc, RowsMove
    PROVE  Grows
  BY DEF RowMove, Grows

LEMMA WritesTouch ==
    ASSUME NEW p \in PaymentIds, NEW s, Writes(p, s)
    PROVE  Touches
  BY DEF Writes, Touches

LEMMA RefundStatementsTouch ==
    ASSUME SInv, NEW p \in PaymentIds, NEW s,
           SettleRow(p, s) \/ ClassifyResponse(p, s)
    PROVE  Touches
<1>1. TypeOK
  BY DEF SInv, IInv
<1>2. "SUCCEEDED" \in Verdicts /\ "FAILED" \in Verdicts
  BY DEF Verdicts
<1>3. ASSUME NEW x, SettleRow(p, x) PROVE Touches
  BY <1>1, <1>2, <1>3, StatementWrites, WritesTouch DEF SettleRow, Touches
<1>4. ASSUME IfSubmitted(p, RecordRejection(p, NoReason)) PROVE Touches
  <2>1. RecordRejection(p, NoReason) \/ UNCHANGED payments
    BY <1>4 DEF IfSubmitted
  <2> QED BY <1>1, <2>1, StatementWrites, WritesTouch DEF Touches
<1>5. ASSUME IfSubmitted(p, RecordBlocked(p, "NEEDS_CUSTOMER_DETAILS")) PROVE Touches
  <2>1. RecordBlocked(p, "NEEDS_CUSTOMER_DETAILS") \/ UNCHANGED payments
    BY <1>5 DEF IfSubmitted
  <2> QED BY <1>1, <2>1, RefundReasons, StatementWrites, WritesTouch DEF Touches
<1>6. CASE UNCHANGED payments
  BY <1>6 DEF Touches
<1> QED BY <1>3, <1>4, <1>5, <1>6 DEF ClassifyResponse

LEMMA AfterRefundGrows ==
    ASSUME SInv, NEW w \in Admins, AfterRefund(w),
           proc[w].pc = "decide" => settlement' = proc[w].percent, RowsMove
    PROVE  Grows
<1>1. OnlyProc(w) /\ proc'[w].pc \in {"idle", "payout"} /\ w \in Procs
  BY AfterRefundEffect DEF Procs
<1>2. RowMove(w)
  BY <1>1 DEF RowMove, OnARow
<1> QED BY <1>1, <1>2, OneGrows

LEMMA StopGrows ==
    ASSUME SInv, NEW w \in Procs, Stop(w), RowsMove
    PROVE  Grows
<1>1. OnlyProc(w) /\ proc'[w] = Idle
  BY StopEffect DEF SInv
<1>2. RowMove(w)
  BY <1>1, IdlePlaced DEF RowMove, OnARow
<1> QED BY <1>1, <1>2, OneGrows

LEMMA GotoGrows ==
    ASSUME SInv, NEW w \in Procs, NEW step \in OnARow, Goto(w, step), proc[w].pc \in OnARow,
           RowsMove
    PROVE  Grows
<1>1. step \in Steps
  BY DEF OnARow, Steps
<1>2. OnlyProc(w) /\ proc'[w].pc = step /\ proc'[w].row = proc[w].row
  BY <1>1, GotoEffect DEF SInv
<1>3. RowMove(w)
  BY <1>2 DEF RowMove
<1> QED BY <1>2, <1>3, OneGrows

LEMMA AnswerGrows ==
    ASSUME SInv, NEW w \in Procs, NEW step \in {"apply", "match"}, NEW a \in Answers,
           proc[w].pc \in OnARow, proc' = [proc EXCEPT ![w].pc = step, ![w].answer = a],
           RowsMove
    PROVE  Grows
<1>1. OnlyProc(w) /\ proc'[w].pc = step /\ proc'[w].row = proc[w].row
  BY AnswerEffect DEF SInv
<1>2. RowMove(w)
  BY <1>1 DEF RowMove, OnARow
<1> QED BY <1>1, <1>2, OneGrows

-----------------------------------------------------------------------------
LEMMA RefundDepositGrows ==
    ASSUME SInv, NEW w \in Admins, RefundDeposit(w) PROVE Grows
<1>1. w \in Procs /\ Located /\ ~Settles(w)
  BY DEF SInv, Procs, Carried, RefundDeposit
<1>2. Goto(w, "insert") /\ "insert" \in Steps /\ "insert" \notin OnARow
  BY DEF RefundDeposit, Steps, OnARow
<1>3. OnlyProc(w) /\ proc'[w].pc = "insert" /\ proc'[w].percent = proc[w].percent
  BY <1>1, <1>2, GotoEffect
<1>4. RowMove(w)
  BY <1>1, <1>3 DEF RowMove, Settles
<1>5. RowsMove
  BY DEF RefundDeposit, RowsMove, Touches
<1> QED BY <1>1, <1>3, <1>4, <1>5, OneGrows

LEMMA ResolveSettlementGrows ==
    ASSUME SInv, NEW w \in Admins, NEW percent \in Percents, ResolveSettlement(w, percent)
    PROVE  Grows
<1>1. w \in Procs /\ proc \in [Procs -> Process]
  BY DEF SInv, Located, Procs
<1>2. proc' = [proc EXCEPT ![w].pc = "decide", ![w].percent = percent]
  BY DEF ResolveSettlement
<1>3. proc[w] \in Process
  BY <1>1
<1>4. proc'[w] = [proc[w] EXCEPT !.pc = "decide", !.percent = percent]
  BY <1>1, <1>2
<1>5. proc'[w].pc = "decide"
  BY <1>3, <1>4 DEF Process
<1>6. OnlyProc(w)
  BY <1>1, <1>2 DEF OnlyProc
<1>7. RowMove(w)
  BY <1>5 DEF RowMove, OnARow
<1>8. RowsMove
  BY DEF ResolveSettlement, RowsMove, Touches
<1> QED BY <1>1, <1>6, <1>7, <1>8, OneGrows

LEMMA ClaimSettlementGrows ==
    ASSUME SInv, NEW w \in Admins, ClaimSettlement(w) PROVE Grows
<1>1. w \in Procs /\ Located /\ proc[w].pc = "decide"
  BY DEF SInv, Procs, ClaimSettlement
<1>2. RowsMove
  BY DEF ClaimSettlement, RowsMove, Touches
<1>3. CASE SettlementEligible /\ settlement' = proc[w].percent /\ Goto(w, "insert")
  <2>1. "insert" \in Steps /\ "insert" \notin OnARow
    BY DEF Steps, OnARow
  <2>2. OnlyProc(w) /\ proc'[w].pc = "insert"
    BY <1>1, <1>3, <2>1, GotoEffect
  <2>3. settlement = NoDecision
    BY <1>3 DEF SettlementEligible
  <2>4. RowMove(w)
    BY <1>1, <2>2, <2>3 DEF RowMove
  <2> QED BY <1>1, <1>2, <2>2, <2>4, OneGrows
<1>4. CASE settlement' = proc[w].percent /\ AfterRefund(w)
  BY <1>2, <1>4, AfterRefundGrows
<1>5. CASE Stop(w)
  BY <1>1, <1>2, <1>5, StopGrows
<1> QED BY <1>3, <1>4, <1>5 DEF ClaimSettlement

LEMMA CreateInserts ==
    ASSUME SInv, NEW p \in PaymentIds, NEW t \in {"REFUND", "PAYOUT"}, Create(p, Request, t),
           NEW n, amount' = [amount EXCEPT ![p] = n]
    PROVE  Inserts(p, t) /\ amount'[p] = n
<1>1. TypeOK /\ amount \in [PaymentIds -> Nat]
  BY DEF SInv, IInv, Surroundings
<1>2. OnlyPayment(p) /\ ~Exists(p) /\ payments'[p] = NewRow(Request, t)
  BY <1>1 DEF TypeOK, Create, OnlyPayment
<1>3. amount'[p] = n /\ \A q \in PaymentIds \ {p} : amount'[q] = amount[q]
  BY <1>1
<1> QED BY <1>2, <1>3 DEF Inserts, NewRow

LEMMA InsertRefundGrows ==
    ASSUME SInv, NEW w \in Admins, InsertRefund(w) PROVE Grows
<1>1. w \in Procs /\ Located /\ proc[w].pc = "insert"
  BY DEF SInv, Procs, InsertRefund
<1>2. ASSUME NEW p \in PaymentIds, Create(p, Request, "REFUND"),
             amount' = [amount EXCEPT ![p] = RefundAmount(w)],
             proc' = [proc EXCEPT ![w].pc = "submit", ![w].row = p]
      PROVE  Grows
  <2>1. "submit" \in Steps /\ "submit" \in OnARow
    BY DEF Steps, OnARow
  <2>2. OnlyProc(w) /\ proc'[w].pc = "submit" /\ proc'[w].row = p
    BY <1>1, <1>2, <2>1, TakeEffect
  <2>3. Inserts(p, "REFUND") /\ amount'[p] = RefundAmount(w)
    BY <1>2, CreateInserts
  <2>4. amount'[p] = DepositAmount \/ Shares(w)
    BY <1>1, <2>3 DEF RefundAmount, Shares
  <2>5. RowsMove
    BY <1>1, <2>2, <2>3, <2>4 DEF RowsMove, InsertsRefund
  <2>6. p \in RefundRows'
    BY <2>3 DEF Inserts, RefundRows, RowsOf, Exists, StatusOf
  <2>7. RowMove(w)
    BY <2>1, <2>2, <2>6 DEF RowMove
  <2> QED BY <1>1, <2>2, <2>5, <2>7, OneGrows
<1>3. ASSUME AfterRefund(w), UNCHANGED <<payments, amount>>
      PROVE  Grows
  <2>1. RowsMove
    BY <1>3 DEF RowsMove, Touches
  <2> QED BY <1>1, <1>3, <2>1, AfterRefundGrows
<1> QED BY <1>2, <1>3 DEF InsertRefund

LEMMA SubmitRefundGrows ==
    ASSUME SInv, NEW w \in Admins, SubmitRefund(w) PROVE Grows
<1>1. w \in Procs /\ TypeOK /\ proc[w].pc = "submit" /\ Placed(proc[w])
  BY DEF SInv, IInv, Located, Procs, SubmitRefund
<1>2. proc[w].row \in PaymentIds /\ proc[w].pc \in OnARow /\ "post" \in OnARow
  BY <1>1 DEF Placed, OnARow
<1>3. CASE ClaimForSubmission(proc[w].row) /\ Goto(w, "post")
  <2>1. Touches
    BY <1>1, <1>2, <1>3, StatementWrites, WritesTouch
  <2>2. RowsMove
    BY <2>1 DEF SubmitRefund, RowsMove
  <2> QED BY <1>1, <1>2, <1>3, <2>2, GotoGrows
<1>4. CASE AfterRefund(w) /\ UNCHANGED payments
  <2>1. RowsMove
    BY <1>4 DEF SubmitRefund, RowsMove, Touches
  <2> QED BY <1>1, <1>4, <2>1, AfterRefundGrows
<1> QED BY <1>3, <1>4 DEF SubmitRefund

LEMMA PostRefundGrows ==
    ASSUME SInv, NEW w \in Procs, PostRefund(w) PROVE Grows
<1>1. proc[w].pc \in OnARow
  BY DEF PostRefund, OnARow
<1>2. PICK a \in Answers : proc' = [proc EXCEPT ![w].pc = "apply", ![w].answer = a]
  BY DEF PostRefund, Answers
<1>3. RowsMove
  BY DEF PostRefund, RowsMove, Touches
<1> QED BY <1>1, <1>2, <1>3, AnswerGrows

LEMMA ApplyResponseGrows ==
    ASSUME SInv, NEW w \in Admins, ApplyResponse(w) PROVE Grows
<1>1. Placed(proc[w]) /\ proc[w].pc = "apply"
  BY DEF SInv, Located, Procs, ApplyResponse
<1>2. proc[w].row \in PaymentIds
  BY <1>1 DEF Placed, OnARow
<1>3. Touches
  BY <1>2, RefundStatementsTouch DEF ApplyResponse
<1>4. RowsMove
  BY <1>3 DEF ApplyResponse, RowsMove
<1> QED BY <1>1, <1>4, AfterRefundGrows DEF ApplyResponse

LEMMA PayoutLegGrows ==
    ASSUME SInv, NEW w \in Admins, PayoutLeg(w) PROVE Grows
<1>1. w \in Procs
  BY DEF Procs
<1>2. ASSUME NEW p \in PaymentIds, Create(p, Request, "PAYOUT"),
             \A q \in PayRows : StatusOf(q) \notin ActiveOrSucceeded,
             amount' = [amount EXCEPT ![p] = PayoutShare(Splittable, proc[w].percent)]
      PROVE  RowsMove
  BY <1>2, CreateInserts DEF RowsMove, InsertsPayout
<1>3. ASSUME UNCHANGED <<payments, amount>>
      PROVE  RowsMove
  BY <1>3 DEF RowsMove, Touches
<1>4. RowsMove /\ Stop(w)
  <2>1. \/ \E p \in PaymentIds :
              /\ Create(p, Request, "PAYOUT")
              /\ \A q \in PayRows : StatusOf(q) \notin ActiveOrSucceeded
              /\ amount' = [amount EXCEPT ![p] = PayoutShare(Splittable, proc[w].percent)]
        \/ UNCHANGED <<payments, amount>>
    BY Zenon DEF PayoutLeg
  <2>2. Stop(w)
    BY DEF PayoutLeg
  <2> QED BY <1>2, <1>3, <2>1, <2>2
<1> QED BY <1>1, <1>4, StopGrows

-----------------------------------------------------------------------------
LEMMA PayoutMovesGrows ==
    ASSUME SInv, NEW p \in PaymentIds, PayoutMoves(p) PROVE Grows
<1>1. TypeOK /\ "SUCCEEDED" \in Verdicts /\ "FAILED" \in Verdicts
  BY DEF SInv, IInv, Verdicts
<1>2. Touches
  BY <1>1, RefundReasons, StatementWrites, WritesTouch DEF PayoutMoves
<1>3. UNCHANGED <<amount, proc>>
  BY DEF PayoutMoves
<1>4. RowsMove
  BY <1>2, <1>3 DEF RowsMove
<1> QED BY <1>3, <1>4, NobodyGrows

LEMMA RetryPayoutGrows ==
    ASSUME SInv, NEW p \in PaymentIds, RetryPayout(p) PROVE Grows
<1>1. PICK r \in PaymentIds :
         Create(r, Request, "PAYOUT") /\ amount' = [amount EXCEPT ![r] = amount[p]]
  BY DEF RetryPayout
<1>2. Inserts(r, "PAYOUT")
  BY <1>1, CreateInserts
<1>3. \A q \in PayRows : StatusOf(q) \notin ActiveOrSucceeded
  BY <1>1 DEF RetryPayout, Create, InFlightIndexAllows, PayRows, ActiveOrSucceeded
<1>4. RowsMove
  BY <1>2, <1>3 DEF RowsMove, InsertsPayout
<1> QED BY <1>4, NobodyGrows DEF RetryPayout

LEMMA PickDueRowGrows ==
    ASSUME SInv, NEW v \in Checkers, NEW p \in PaymentIds, PickDueRow(v, p) PROVE Grows
<1>1. v \in Procs /\ Located
  BY DEF SInv, Procs
<1>2. PICK step \in {"initiate", "verify"} :
         proc' = [proc EXCEPT ![v].pc = step, ![v].row = p]
  BY DEF PickDueRow
<1>3. step \in Steps /\ step \in OnARow
  BY DEF Steps, OnARow
<1>4. OnlyProc(v) /\ proc'[v].pc = step /\ proc'[v].row = p
  BY <1>1, <1>2, <1>3, TakeEffect
<1>5. p \in RefundRows'
  BY DEF PickDueRow, RefundRows, RowsOf, Exists, StatusOf
<1>6. RowMove(v)
  BY <1>3, <1>4, <1>5 DEF RowMove
<1>7. RowsMove
  BY DEF PickDueRow, RowsMove, Touches
<1> QED BY <1>1, <1>4, <1>6, <1>7, OneGrows

LEMMA CheckerGrows ==
    ASSUME SInv, NEW v \in Checkers, CheckerStep(v) PROVE Grows
<1>1. v \in Procs /\ TypeOK /\ Placed(proc[v]) /\ Surroundings
  BY DEF SInv, IInv, Located, Procs
<1>2. proc[v].pc \in OnARow => proc[v].row \in PaymentIds
  BY <1>1 DEF Placed
<1>3. CASE InitiateRefund(v)
  <2>1. proc[v].pc \in OnARow /\ "post" \in OnARow
    BY <1>3 DEF InitiateRefund, OnARow
  <2>2. Touches
    BY <1>1, <1>2, <1>3, <2>1, StatementWrites, WritesTouch DEF InitiateRefund, Touches
  <2>3. RowsMove
    BY <1>3, <2>2 DEF InitiateRefund, RowsMove
  <2> QED BY <1>1, <1>3, <2>1, <2>3, GotoGrows, StopGrows DEF InitiateRefund
<1>4. CASE RereadRow(v)
  <2>1. proc[v].pc \in OnARow /\ "list" \in OnARow
    BY <1>4 DEF RereadRow, OnARow
  <2>2. RowsMove
    BY <1>4 DEF RereadRow, RowsMove, Touches
  <2> QED BY <1>1, <1>4, <2>1, <2>2, GotoGrows, StopGrows DEF RereadRow
<1>5. CASE ListInVain(v)
  <2>1. proc[v].pc \in OnARow /\ "backoff" \in OnARow
    BY <1>5 DEF ListInVain, OnARow
  <2>2. RowsMove
    BY <1>5 DEF ListInVain, RowsMove, Touches
  <2> QED BY <1>1, <1>5, <2>1, <2>2, GotoGrows DEF ListInVain
<1>6. CASE ListRefunds(v)
  <2>1. proc[v].pc \in OnARow
    BY <1>6 DEF ListRefunds, OnARow
  <2>2. PICK i \in DOMAIN refunds :
           proc' = [proc EXCEPT ![v].pc = "match", ![v].answer = refunds[i].status]
    BY <1>6 DEF ListRefunds
  <2>3. refunds[i] \in Refund
    BY <1>1 DEF Surroundings
  <2>4. refunds[i].status \in Answers
    BY <2>3 DEF Refund, Answers
  <2>5. RowsMove
    BY <1>6 DEF ListRefunds, RowsMove, Touches
  <2> QED BY <1>1, <2>1, <2>2, <2>4, <2>5, AnswerGrows
<1>7. CASE PostRefund(v)
  BY <1>1, <1>7, PostRefundGrows
<1>8. CASE ApplyVerification(v)
  <2>1. proc[v].pc \in OnARow /\ "backoff" \in OnARow
    BY <1>8 DEF ApplyVerification, OnARow
  <2>2. Touches
    BY <1>2, <1>8, <2>1, RefundStatementsTouch DEF ApplyVerification, Touches
  <2>3. RowsMove
    BY <1>8, <2>2 DEF ApplyVerification, RowsMove
  <2>4. Goto(v, "backoff") \/ Stop(v)
    BY <1>8 DEF ApplyVerification
  <2> QED BY <1>1, <2>1, <2>3, <2>4, GotoGrows, StopGrows
<1>9. CASE BackOffRow(v)
  <2>1. proc[v].pc \in OnARow
    BY <1>9 DEF BackOffRow, OnARow
  <2>2. Touches
    BY <1>1, <1>2, <1>9, <2>1, StatementWrites, WritesTouch DEF BackOffRow
  <2>3. RowsMove
    BY <1>9, <2>2 DEF BackOffRow, RowsMove
  <2> QED BY <1>1, <1>9, <2>3, StopGrows DEF BackOffRow
<1> QED BY <1>3, <1>4, <1>5, <1>6, <1>7, <1>8, <1>9 DEF CheckerStep

LEMMA DeliverWebhookGrows ==
    ASSUME SInv, NEW i, DeliverWebhook(i) PROVE Grows
<1>1. refunds[i] \in Refund
  BY DEF SInv, Surroundings, DeliverWebhook
<1>2. refunds[i].note \in PaymentIds
  BY <1>1 DEF Refund
<1>3. Touches
  BY <1>2, RefundStatementsTouch DEF DeliverWebhook
<1> QED BY <1>3, NobodyGrows DEF DeliverWebhook, RowsMove

LEMMA SurroundingsGrow ==
    ASSUME SInv, NEW p \in PaymentIds, LateArrival(p) \/ TimePasses(p)
    PROVE  Grows
<1>1. CASE LateArrival(p)
  BY <1>1, NobodyGrows DEF LateArrival, RowsMove, Touches
<1>2. CASE TimePasses(p)
  <2>1. Touches
    BY <1>2, StatementWrites, WritesTouch DEF TimePasses, SInv, IInv
  <2> QED BY <1>2, <2>1, NobodyGrows DEF TimePasses, RowsMove
<1> QED BY <1>1, <1>2

LEMMA EveryStepGrows ==
    ASSUME SInv, [SettlementNext]_settlementVars
    PROVE  Grows
<1>1. CASE UNCHANGED settlementVars \/ SetStatus
  BY <1>1, NobodyGrows DEF settlementVars, SetStatus, RowsMove, Touches
<1>2. ASSUME NEW w \in Admins, RefundDeposit(w) \/ AdminStep(w)
      PROVE  Grows
  <2>1. w \in Procs
    BY DEF Procs
  <2> QED BY <1>2, <2>1, RefundDepositGrows, ClaimSettlementGrows, InsertRefundGrows,
             SubmitRefundGrows, PostRefundGrows, ApplyResponseGrows, PayoutLegGrows
          DEF AdminStep
<1>3. ASSUME NEW w \in Admins, NEW percent \in Percents, ResolveSettlement(w, percent)
      PROVE  Grows
  BY <1>3, ResolveSettlementGrows
<1>4. ASSUME NEW v \in Checkers, CheckerStep(v) PROVE Grows
  BY <1>4, CheckerGrows
<1>5. ASSUME NEW v \in Checkers, NEW p \in PaymentIds, PickDueRow(v, p) PROVE Grows
  BY <1>5, PickDueRowGrows
<1>6. ASSUME NEW p \in PaymentIds,
             LateArrival(p) \/ TimePasses(p) \/ PayoutMoves(p) \/ RetryPayout(p)
      PROVE  Grows
  BY <1>6, SurroundingsGrow, PayoutMovesGrows, RetryPayoutGrows
<1>7. ASSUME NEW i \in 1..MaxRefunds,
             DeliverWebhook(i) \/ \E s \in RefundStatuses : RefundProgresses(i, s)
      PROVE  Grows
  BY <1>7, DeliverWebhookGrows, NobodyGrows DEF RefundProgresses, RowsMove, Touches
<1>8. ASSUME NEW w \in Procs, Crash(w) PROVE Grows
  BY <1>8, StopGrows DEF Crash, RowsMove, Touches
<1> QED BY <1>1, <1>2, <1>3, <1>4, <1>5, <1>6, <1>7, <1>8 DEF SettlementNext

-----------------------------------------------------------------------------
(* What the rows were, they still are.                                     *)
LEMMA RowsStay ==
    ASSUME SInv, Effect
    PROVE  RefundRows \subseteq RefundRows' /\ PayRows \subseteq PayRows'
  BY LedgerKeeps DEF SInv, Effect, RefundRows, PayRows, RowsOf

(* A step that inserts nothing adds no row, and brings none back to life.  *)
LEMMA TouchesAddNothing ==
    ASSUME SInv, Effect, Touches
    PROVE  /\ RefundRows' = RefundRows /\ PayRows' = PayRows
           /\ \A p \in PayRows :
                 StatusOf(p)' \in ActiveOrSucceeded => StatusOf(p) \in ActiveOrSucceeded
<1>1. \A p \in PaymentIds :
         /\ Exists(p) => /\ Exists(p)'
                         /\ payments'[p].type = payments[p].type
                         /\ payments'[p].request = payments[p].request
         /\ StatusOf(p) \in Terminal => StatusOf(p)' = StatusOf(p)
  BY LedgerKeeps DEF SInv, Effect
<1>2. \A p \in PaymentIds : Exists(p)' => Exists(p)
  BY DEF Touches, OnlyPayment, Exists, StatusOf
<1>3. RefundRows' = RefundRows /\ PayRows' = PayRows
  BY <1>1, <1>2 DEF RefundRows, PayRows, RowsOf
<1>4. ASSUME NEW p \in PayRows, StatusOf(p)' \in ActiveOrSucceeded
      PROVE  StatusOf(p) \in ActiveOrSucceeded
  <2>1. p \in PaymentIds /\ Exists(p)
    BY DEF PayRows, RowsOf
  <2>2. payments[p] \in Row
    BY <2>1 DEF SInv, IInv, TypeOK
  <2>3. StatusOf(p) \in InFlight \cup Terminal
    BY <2>1, <2>2 DEF Row, Exists, StatusOf, PaymentStatuses
  <2> QED BY <1>1, <1>4, <2>1, <2>3 DEF ActiveOrSucceeded, InFlight, Terminal
<1> QED BY <1>3, <1>4

(* A row inserted is the only new one.                                     *)
LEMMA InsertsOne ==
    ASSUME NEW p \in PaymentIds, NEW t \in {"REFUND", "PAYOUT"}, Inserts(p, t)
    PROVE  /\ p \notin RefundRows \cup PayRows
           /\ RefundRows' = IF t = "REFUND" THEN RefundRows \cup {p} ELSE RefundRows
           /\ PayRows' = IF t = "PAYOUT" THEN PayRows \cup {p} ELSE PayRows
           /\ \A q \in RefundRows \cup PayRows : amount'[q] = amount[q]
           /\ \A q \in PayRows : StatusOf(q)' = StatusOf(q)
<1>1. \A q \in PaymentIds \ {p} : payments'[q] = payments[q] /\ amount'[q] = amount[q]
  BY DEF Inserts, OnlyPayment
<1>2. ~Exists(p) /\ Exists(p)' /\ payments'[p].request = Request /\ payments'[p].type = t
  BY DEF Inserts, Exists, StatusOf
<1>3. p \notin RefundRows \cup PayRows
  BY <1>2 DEF RefundRows, PayRows, RowsOf
<1>4. RefundRows' = IF t = "REFUND" THEN RefundRows \cup {p} ELSE RefundRows
  BY <1>1, <1>2 DEF RefundRows, RowsOf, Exists, StatusOf
<1>5. PayRows' = IF t = "PAYOUT" THEN PayRows \cup {p} ELSE PayRows
  BY <1>1, <1>2 DEF PayRows, RowsOf, Exists, StatusOf
<1>6. \A q \in RefundRows \cup PayRows : q \in PaymentIds \ {p}
  BY <1>3 DEF RefundRows, PayRows, RowsOf
<1> QED BY <1>1, <1>3, <1>4, <1>5, <1>6 DEF StatusOf

LEMMA OnRefundsKept ==
    ASSUME SInv, Effect, Grows, OnRefunds
    PROVE  OnRefunds'
<1>1. RefundRows \subseteq RefundRows' /\ refunds \in Seq(Refund)
  BY RowsStay DEF SInv, Surroundings
<1>2. ASSUME NEW w \in Procs, proc'[w].pc \in OnARow
      PROVE  proc'[w].row \in RefundRows'
  <2>1. RowMove(w) /\ "insert" \notin OnARow
    BY DEF Grows, OnARow
  <2> QED BY <1>1, <1>2, <2>1 DEF RowMove, OnRefunds
<1>3. /\ inTransit' \subseteq RefundRows'
      /\ \A i \in DOMAIN refunds' : refunds'[i].note \in RefundRows'
  <2>1. ASSUME NEW p \in RefundRows, NEW s \in RefundStatuses, Makes(p, s)
        PROVE  \A i \in DOMAIN refunds' : refunds'[i].note \in RefundRows'
    <3>1. p \in PaymentIds
      BY DEF RefundRows, RowsOf
    <3>2. PICK k \in DOMAIN refunds' : Appended(k, p, s)
      BY <2>1, <3>1, MakesAppends
    <3> QED BY <1>1, <3>2 DEF Appended, OnRefunds
  <2>2. CASE Quiet
    BY <1>1, <2>2 DEF Quiet, OnRefunds
  <2>3. CASE \E w \in Procs : Claims(w)
    BY <1>1, <2>3 DEF Claims, OnRefunds
  <2>4. ASSUME NEW w \in Procs, Posts(w)
        PROVE  /\ inTransit' \subseteq RefundRows'
               /\ \A i \in DOMAIN refunds' : refunds'[i].note \in RefundRows'
    <3>1. proc[w].row \in RefundRows
      BY <2>4 DEF Posts, OnRefunds, OnARow
    <3>2. inTransit' \subseteq RefundRows'
      BY <1>1, <2>4, <3>1 DEF Posts, OnRefunds
    <3>3. \A i \in DOMAIN refunds' : refunds'[i].note \in RefundRows'
      BY <1>1, <2>1, <2>4, <3>1 DEF Posts, OnRefunds
    <3> QED BY <3>2, <3>3
  <2>5. ASSUME NEW p \in PaymentIds, Arrives(p)
        PROVE  /\ inTransit' \subseteq RefundRows'
               /\ \A i \in DOMAIN refunds' : refunds'[i].note \in RefundRows'
    <3>1. p \in RefundRows
      BY <2>5 DEF Arrives, OnRefunds
    <3>2. inTransit' \subseteq RefundRows'
      BY <1>1, <2>5 DEF Arrives, OnRefunds
    <3>3. \A i \in DOMAIN refunds' : refunds'[i].note \in RefundRows'
      BY <1>1, <2>1, <2>5, <3>1 DEF Arrives, OnRefunds
    <3> QED BY <3>2, <3>3
  <2>6. ASSUME NEW i \in DOMAIN refunds, Progresses(i)
        PROVE  /\ inTransit' \subseteq RefundRows'
               /\ \A j \in DOMAIN refunds' : refunds'[j].note \in RefundRows'
    <3>1. DOMAIN refunds' = DOMAIN refunds /\ \A j \in DOMAIN refunds : StandsAs(j)
      BY <1>1, <2>6, ProgressKeepsNotes
    <3> QED BY <1>1, <2>6, <3>1 DEF Progresses, StandsAs, OnRefunds
  <2> QED BY <2>2, <2>3, <2>4, <2>5, <2>6 DEF Effect, PostsMove
<1> QED BY <1>2, <1>3 DEF OnRefunds

(* Who inserts the settlement's refund was there before, or has just made  *)
(* its decision, before which there was no such row and no such process.   *)
LEMMA SharesBegin ==
    ASSUME SInv, Effect, Grows, NEW w \in Procs, Shares(w)'
    PROVE  \/ Shares(w)
           \/ /\ proc[w].pc = "decide" /\ settlement = NoDecision
              /\ \A x \in Procs : ~Shares(x)
              /\ \A p \in RefundRows : amount[p] = DepositAmount
<1>1. RowMove(w) /\ "insert" \notin OnARow
  BY DEF Grows, OnARow
<1>2. proc'[w].pc = "insert" /\ proc'[w].percent # NoDecision /\ w \in Admins
  BY DEF Shares, Settles
<1>3. CASE proc'[w] = proc[w]
  BY <1>2, <1>3 DEF Shares, Settles
<1>4. CASE proc[w].pc = "decide" /\ settlement = NoDecision
  <2>1. ASSUME NEW x \in Procs PROVE ~Shares(x)
    BY <1>4 DEF SInv, Carried, Shares, Settles
  <2>2. ASSUME NEW p \in RefundRows PROVE amount[p] = DepositAmount
    BY <1>4 DEF SInv, Share, RefundRows, RowsOf
  <2> QED BY <1>4, <2>1, <2>2
<1> QED BY <1>1, <1>2, <1>3, <1>4 DEF RowMove

LEMMA OneShares ==
    ASSUME SInv, Effect, Grows, OneShare, NEW w \in Procs, Shares(w)', NEW x \in Procs, Shares(x)'
    PROVE  x = w
<1>1. ASSUME NEW a \in Procs, proc'[a] = proc[a], Shares(a)' PROVE Shares(a)
  BY <1>1 DEF Shares, Settles
<1>2. proc'[w] = proc[w] \/ proc'[x] = proc[x] \/ x = w
  BY DEF Grows, OnlyProc
<1>3. Shares(w) /\ Shares(x) => x = w
  BY DEF OneShare
<1> QED BY <1>1, <1>2, <1>3, SharesBegin

LEMMA OneShareKept ==
    ASSUME SInv, Effect, Grows, OneShare
    PROVE  OneShare'
<1> DEFINE Whole(p) == amount[p] = DepositAmount
<1>1. CASE Touches /\ UNCHANGED amount
  <2>1. RefundRows' = RefundRows
    BY <1>1, TouchesAddNothing
  <2>2. ASSUME NEW w \in Procs, Shares(w)' PROVE \A p \in RefundRows' : Whole(p)'
    BY <1>1, <2>1, <2>2, SharesBegin DEF OneShare
  <2>3. \A p, q \in RefundRows' : ~Whole(p)' /\ ~Whole(q)' => p = q
    BY <1>1, <2>1 DEF OneShare
  <2> QED BY <2>2, <2>3, OneShares DEF OneShare
<1>2. ASSUME NEW p \in PaymentIds, InsertsPayout(p) PROVE OneShare'
  <2>1. RefundRows' = RefundRows /\ \A q \in RefundRows : amount'[q] = amount[q]
    BY <1>2, InsertsOne DEF InsertsPayout
  <2>2. ASSUME NEW w \in Procs, Shares(w)' PROVE \A q \in RefundRows' : Whole(q)'
    BY <2>1, <2>2, SharesBegin DEF OneShare
  <2>3. \A q, r \in RefundRows' : ~Whole(q)' /\ ~Whole(r)' => q = r
    BY <2>1 DEF OneShare
  <2> QED BY <2>2, <2>3, OneShares DEF OneShare
<1>3. ASSUME NEW p \in PaymentIds, NEW x \in Procs, InsertsRefund(x, p) PROVE OneShare'
  <2>1. /\ RefundRows' = RefundRows \cup {p} /\ p \notin RefundRows
        /\ \A q \in RefundRows : amount'[q] = amount[q]
    BY <1>3, InsertsOne DEF InsertsRefund
  <2>2. Whole(p)' \/ Shares(x)
    BY <1>3 DEF InsertsRefund
  <2>3. \A q \in RefundRows : Whole(q)' <=> Whole(q)
    BY <2>1
  <2>4. Shares(x) => \A q \in RefundRows : Whole(q)
    BY DEF OneShare
  <2>5. \A q, r \in RefundRows' : ~Whole(q)' /\ ~Whole(r)' => q = r
    <3>1. \A q, r \in RefundRows : ~Whole(q) /\ ~Whole(r) => q = r
      BY DEF OneShare
    <3> HIDE DEF Whole
    <3> QED BY <2>1, <2>2, <2>3, <2>4, <3>1
  <2>6. ASSUME NEW w \in Procs, Shares(w)' PROVE \A q \in RefundRows' : Whole(q)'
    <3>1. ~Shares(x)'
      BY <1>3 DEF InsertsRefund, Shares
    <3>2. \A q \in RefundRows : Whole(q)
      BY <2>6, SharesBegin DEF OneShare
    <3>3. ~Shares(x)
      <4>1. CASE Shares(w)
        BY <2>6, <3>1, <4>1 DEF OneShare
      <4> QED BY <2>6, <4>1, SharesBegin
    <3> HIDE DEF Whole
    <3> QED BY <2>1, <2>2, <2>3, <3>2, <3>3
  <2> QED BY <2>5, <2>6, OneShares DEF OneShare
<1> QED BY <1>1, <1>2, <1>3 DEF Grows, RowsMove

LEMMA OnePayoutKept ==
    ASSUME SInv, Effect, Grows, OnePayout
    PROVE  OnePayout'
<1> DEFINE Counts(p) == StatusOf(p) \in ActiveOrSucceeded
<1>1. CASE Touches
  <2>1. PayRows' = PayRows /\ \A p \in PayRows : Counts(p)' => Counts(p)
    BY <1>1, TouchesAddNothing DEF ActiveOrSucceeded
  <2> QED BY <2>1 DEF OnePayout, ActiveOrSucceeded
<1>2. ASSUME NEW p \in PaymentIds, InsertsPayout(p) PROVE OnePayout'
  <2>1. PayRows' = PayRows \cup {p} /\ \A q \in PayRows : StatusOf(q)' = StatusOf(q)
    BY <1>2, InsertsOne DEF InsertsPayout
  <2>2. \A q \in PayRows : ~Counts(q)'
    BY <1>2, <2>1 DEF InsertsPayout, ActiveOrSucceeded
  <2> QED BY <2>1, <2>2 DEF OnePayout, ActiveOrSucceeded
<1>3. ASSUME NEW p \in PaymentIds, NEW x \in Procs, InsertsRefund(x, p) PROVE OnePayout'
  <2>1. PayRows' = PayRows /\ \A q \in PayRows : StatusOf(q)' = StatusOf(q)
    BY <1>3, InsertsOne DEF InsertsRefund
  <2> QED BY <2>1 DEF OnePayout, ActiveOrSucceeded
<1> QED BY <1>1, <1>2, <1>3 DEF Grows, RowsMove

LEMMA ConsInvariant == SettlementSpec => []ConsInv
<1>1. SettlementInit => ConsInv
  <2> SUFFICES ASSUME SettlementInit PROVE ConsInv
    OBVIOUS
  <2>1. /\ \A w \in Procs : proc[w] = Idle
        /\ RefundRows = {} /\ PayRows = {} /\ inTransit = {} /\ refunds = << >>
    BY DEF SettlementInit, Init, AbsentRow, RefundRows, PayRows, RowsOf, Exists, StatusOf
  <2>2. OnRefunds
    BY <2>1, IdlePlaced DEF OnRefunds, OnARow
  <2>3. OneShare /\ OnePayout
    BY <2>1, IdlePlaced DEF OneShare, OnePayout, Shares
  <2> QED BY <2>2, <2>3 DEF ConsInv
<1>2. SInv /\ ConsInv /\ [SettlementNext]_settlementVars => ConsInv'
  BY EveryStep, EveryStepGrows, OnRefundsKept, OneShareKept, OnePayoutKept DEF ConsInv
<1> QED BY <1>1, <1>2, SettlementInvariant, PTL DEF SettlementSpec

-----------------------------------------------------------------------------
(* A sum over nothing, or over one thing.                                  *)
LiveRefunds == {i \in DOMAIN refunds : Live(i)}
PayoutsOut  == {p \in PayRows : StatusOf(p) \in ActiveOrSucceeded}

LEMMA ChosenOfOne ==
    ASSUME NEW x
    PROVE  /\ (CHOOSE y \in {x} : TRUE) = x
           /\ \A s \in SUBSET {x} : s = {} \/ s = {x}
           /\ {x} \ {CHOOSE y \in {x} : TRUE} = {}
  OBVIOUS

LEMMA NothingRefunded == ASSUME LiveRefunds = {} PROVE Refunded = 0
  BY DEF Refunded, LiveRefunds, MapThenSumSet, MapThenFoldSet

LEMMA NothingPaidOut == ASSUME PayoutsOut = {} PROVE PaidOut = 0
  BY DEF PaidOut, PayoutsOut, MapThenSumSet, MapThenFoldSet

LEMMA OneRefunded ==
    ASSUME NEW i, LiveRefunds = {i}, amount[refunds[i].note] \in Nat
    PROVE  Refunded = amount[refunds[i].note]
<1> DEFINE Is(sum) ==
             sum = [s \in SUBSET {i} |->
                      IF s = {} THEN 0
                      ELSE amount[refunds[CHOOSE y \in s : TRUE].note]
                             + sum[s \ {CHOOSE y \in s : TRUE}]]
           n == amount[refunds[i].note]
           g == [s \in SUBSET {i} |-> IF s = {} THEN 0 ELSE n]
           h == CHOOSE sum : Is(sum)
<1>1. Is(g)
  <2>1. \A s \in SUBSET {i} :
           s # {} => s \ {CHOOSE y \in s : TRUE} = {} /\ (CHOOSE y \in s : TRUE) = i
    BY ChosenOfOne
  <2>2. g[{}] = 0
    OBVIOUS
  <2>3. \A s \in SUBSET {i} :
           (IF s = {} THEN 0 ELSE n)
              = IF s = {} THEN 0
                ELSE amount[refunds[CHOOSE y \in s : TRUE].note] + g[s \ {CHOOSE y \in s : TRUE}]
    <3> HIDE DEF g
    <3> QED BY <2>1, <2>2
  <2> QED BY <2>3, Zenon
<1>2. Refunded = h[{i}]
  BY Zenon DEF Refunded, LiveRefunds, MapThenSumSet, MapThenFoldSet
<1>3. Is(h)
  BY <1>1, Zenon
<1> HIDE DEF h
<1>4. h[{}] = 0
  BY <1>3
<1>5. h[{i}] = n + 0
  BY <1>3, <1>4, ChosenOfOne
<1> QED BY <1>2, <1>5

LEMMA OnePaidOut ==
    ASSUME NEW p, PayoutsOut = {p}, amount[p] \in Nat
    PROVE  PaidOut = amount[p]
<1> DEFINE Is(sum) ==
             sum = [s \in SUBSET {p} |->
                      IF s = {} THEN 0
                      ELSE amount[CHOOSE y \in s : TRUE] + sum[s \ {CHOOSE y \in s : TRUE}]]
           g == [s \in SUBSET {p} |-> IF s = {} THEN 0 ELSE amount[p]]
           h == CHOOSE sum : Is(sum)
<1>1. Is(g)
  <2>1. \A s \in SUBSET {p} :
           s # {} => s \ {CHOOSE y \in s : TRUE} = {} /\ (CHOOSE y \in s : TRUE) = p
    BY ChosenOfOne
  <2>2. g[{}] = 0
    OBVIOUS
  <2>3. \A s \in SUBSET {p} :
           (IF s = {} THEN 0 ELSE amount[p])
              = IF s = {} THEN 0
                ELSE amount[CHOOSE y \in s : TRUE] + g[s \ {CHOOSE y \in s : TRUE}]
    <3> HIDE DEF g
    <3> QED BY <2>1, <2>2
  <2> QED BY <2>3, Zenon
<1>2. PaidOut = h[{p}]
  BY Zenon DEF PaidOut, PayoutsOut, MapThenSumSet, MapThenFoldSet
<1>3. Is(h)
  BY <1>1, Zenon
<1> HIDE DEF h
<1>4. h[{}] = 0
  BY <1>3
<1>5. h[{p}] = amount[p] + 0
  BY <1>3, <1>4, ChosenOfOne
<1> QED BY <1>2, <1>5

(* What a settlement refunds and pays out, or still may, is at most what   *)
(* is left of the deposit after the fee, for every split, rounding, retry, *)
(* lost answer and crash, as long as no whole refund was made beside it.   *)
THEOREM SettlementAlwaysConserves == SettlementSpec => []SettlementConserves
<1>1. SInv /\ ConsInv => SettlementConserves
  <2> SUFFICES ASSUME SInv, ConsInv, settlement # NoDecision,
                      \A p \in PaymentIds : ~WholeRefund(p)
               PROVE  Refunded + PaidOut <= Splittable
    BY DEF SettlementConserves
  <2> DEFINE back == RefundShare(Splittable, settlement)
             out  == PayoutShare(Splittable, settlement)
  <2>1. settlement \in Percents
    BY DEF SInv, Surroundings
  <2>2. back \in Nat /\ out \in Nat /\ back + out = Splittable
    BY <2>1, SharesAddUp
  <2>3. \A p \in RefundRows : amount[p] = back /\ amount[p] # DepositAmount
    BY DEF SInv, Share, WholeRefund, RefundRows, RowsOf
  <2>4. \A p \in PayRows : amount[p] = out
    BY DEF SInv, Share, PayRows, RowsOf
  <2> HIDE DEF back, out
  <2>5. Refunded \in {0, back}
    <3>1. \A i \in LiveRefunds : i \in DOMAIN refunds /\ refunds[i].note \in RefundRows
      BY DEF ConsInv, OnRefunds, LiveRefunds
    <3>2. \A p, q \in RefundRows : p = q
      BY <2>3 DEF ConsInv, OneShare
    <3>3. ASSUME NEW i \in LiveRefunds, NEW j \in LiveRefunds PROVE i = j
      <4>1. refunds[i].note \in PaymentIds /\ Noted(i, refunds[i].note)
        BY <3>1 DEF RefundRows, RowsOf, Noted
      <4>2. Noted(j, refunds[i].note)
        BY <3>1, <3>2 DEF Noted
      <4> QED BY <3>1, <4>1, <4>2 DEF SInv, OnePost
    <3>4. CASE LiveRefunds = {}
      BY <3>4, NothingRefunded
    <3>5. ASSUME NEW i \in LiveRefunds PROVE Refunded = back
      <4>1. LiveRefunds = {i}
        BY <3>3
      <4> QED BY <2>2, <2>3, <3>1, <4>1, OneRefunded
    <3> QED BY <3>4, <3>5
  <2>6. PaidOut \in {0, out}
    <3>1. \A p, q \in PayoutsOut : p = q
      BY DEF ConsInv, OnePayout, PayoutsOut
    <3>2. CASE PayoutsOut = {}
      BY <3>2, NothingPaidOut
    <3>3. ASSUME NEW p \in PayoutsOut PROVE PaidOut = out
      <4>1. PayoutsOut = {p} /\ p \in PayRows
        BY <3>1 DEF PayoutsOut
      <4> QED BY <2>2, <2>4, <4>1, OnePaidOut
    <3> QED BY <3>2, <3>3
  <2> QED BY <2>2, <2>5, <2>6
<1> QED BY <1>1, SettlementInvariant, ConsInvariant, PTL

-----------------------------------------------------------------------------
(* Whatever this program does to a payment is a statement of the ledger,   *)
(* so that all that is proved of the ledger holds of a settlement's rows.  *)
THEOREM SettlementFollowsLedger == SettlementSpec => Spec
<1>1. SettlementInit => Init
  BY DEF SettlementInit
<1>2. SInv /\ [SettlementNext]_settlementVars => [Next]_ledgerVars
  BY EveryStep DEF Effect
<1> QED BY <1>1, <1>2, SettlementInvariant, PTL DEF SettlementSpec, Spec

=============================================================================
