------------------------------ MODULE Accounts ------------------------------
(***************************************************************************)
(* User and operator accounts: who joins whose team, and deletion, which   *)
(* must not take away a party to a live request, leave an operator unpaid, *)
(* or leave erased media behind.                                           *)
(*                                                                         *)
(* Every guarded writer is a transaction that begins by locking rows: an   *)
(* UPDATE of updatedAt WHERE deletedAt IS NULL, which waits for the row    *)
(* and then looks at it again.  Transactions are READ COMMITTED: what they *)
(* read is whatever is committed by then, and writers that take no lock    *)
(* move between their reads and the commit.  A transaction takes its last  *)
(* lock in the step that reads under it, as it never waits afterwards: one *)
(* with a single lock and a single read is a single step.                  *)
(***************************************************************************)
EXTENDS Naturals, Sequences, FiniteSets

CONSTANTS
    Users,          \* rows of User, in the order of their ids
    Operators,      \* rows of Operator
    Objects,        \* the media modelled, by the role that uploaded it
    Owner,          \* who owns every operator at first
    Staff,          \* an administrator, whose row nobody deletes
    Procs,          \* concurrent handlers
    NoUser, NoOperator, NoProc

Roles == {"CUSTOMER", "OPERATOR"}

ASSUME UserOrder == Users \subseteq Nat /\ IsFiniteSet(Users)
ASSUME ObjectAssumption == Objects \subseteq Roles
ASSUME OwnerAssumption == Owner \in Users
ASSUME NameAssumption ==
    /\ Users \cap Operators = {} /\ NoProc \notin Procs
    /\ NoUser \notin Users /\ Staff \notin Users /\ NoOperator \notin Operators

VARIABLES
    user,       \* each User row: CUSTOMER or OPERATOR, or deleted
    operator,   \* each Operator row: live or deleted
    members,    \* OperatorMember: <<user, operator, role>>
    request,    \* the RescueRequest, its parties and its payments
    media,      \* RequestMedia rows
    stored,     \* the objects S3 holds
    outbox,     \* PendingMediaDeletion rows
    erased,     \* history: the objects a deletion took on
    lock,       \* the handler holding each row, or NoProc
    proc        \* where each handler is, and its locals

accounts == <<user, operator, members>>
storage  == <<media, stored, outbox, erased>>
running  == <<lock, proc>>
vars     == <<accounts, request, storage, running>>

Rows == Users \cup Operators

IsDeleted(row)  == IF row \in Users THEN user[row] = "deleted"
                                    ELSE operator[row] = "deleted"
LiveUser(u)     == user[u] \in Roles
LiveOperator(o) == operator[o] = "live"

TeamOf(o)      == {m[1] : m \in {n \in members : n[2] = o}}
Managers(o)    == {m[1] : m \in {n \in members : n[2] = o /\ n[3] = "OWNER"}}
LiveTeamsOf(u) == {m[2] : m \in {n \in members : n[1] = u /\ LiveOperator(n[2])}}

(* A handler that runs: the account it acts as or found, the account it    *)
(* adds or removes, the operator it is about, the rows still to lock, the  *)
(* members it read, the status and operator it read, the objects to erase. *)
Idle == [op |-> "idle", who |-> NoUser, target |-> NoUser, at |-> NoOperator,
         todo |-> << >>, team |-> {}, seen |-> << >>, keys |-> {}]

NoRequest == [status |-> "none", customer |-> NoUser, operator |-> NoOperator,
              disputed |-> FALSE, deposit |-> "none", refund |-> "none",
              payout |-> "none", settled |-> FALSE]

Init ==
    /\ user \in [Users -> Roles] /\ user[Owner] = "OPERATOR"
    /\ operator = [o \in Operators |-> "live"]
    /\ members = {<<Owner, o, "OWNER">> : o \in Operators}
    /\ request = NoRequest
    /\ media = {} /\ stored = {} /\ outbox = {} /\ erased = {}
    /\ lock = [row \in Rows |-> NoProc]
    /\ proc = [p \in Procs |-> Idle]

-----------------------------------------------------------------------------
(* Transactions.                                                           *)
Begins(p, locals) == proc[p] = Idle /\ proc' = [proc EXCEPT ![p] = locals]

(* UPDATE ... WHERE id = row AND deletedAt IS NULL, its count 1.           *)
Lockable(row) == lock[row] = NoProc /\ ~IsDeleted(row)

Released(p) == [row \in Rows |-> IF lock[row] = p THEN NoProc ELSE lock[row]]

(* A transaction that ends: committed, refused, or rolled back.            *)
End(p) == lock' = Released(p) /\ proc' = [proc EXCEPT ![p] = Idle]

Refuse(p) == End(p) /\ UNCHANGED <<accounts, request, storage>>

(* p runs op and gets the last of its rows.                                *)
Locks(p, op) ==
    proc[p].op = op /\ Len(proc[p].todo) = 1 /\ Lockable(proc[p].todo[1])

(* A deleted row ends the transaction, unless it is a member's of the      *)
(* operator being deleted.                                                 *)
LeavesOut(p, row) == proc[p].op = "deleteOperator" /\ row \in Users

LockRow(p) ==
    /\ Len(proc[p].todo) > 1
    /\ LET row == Head(proc[p].todo)
       IN  /\ lock[row] = NoProc /\ (IsDeleted(row) => LeavesOut(p, row))
           /\ lock' = IF IsDeleted(row) THEN lock ELSE [lock EXCEPT ![row] = p]
    /\ proc' = [proc EXCEPT ![p].todo = Tail(@)]
    /\ UNCHANGED <<accounts, request, storage>>

FindRowDeleted(p) ==
    /\ proc[p].todo # << >>
    /\ LET row == Head(proc[p].todo)
       IN  lock[row] = NoProc /\ IsDeleted(row) /\ ~LeavesOut(p, row)
    /\ Refuse(p)

(* The process dies, or Postgres ends a circle of waiting transactions     *)
(* with this one: addMember locks a user after an operator.                *)
RollBack(p) == proc[p] # Idle /\ Refuse(p)

-----------------------------------------------------------------------------
(* Teams.  `actor` has passed the controller's check, an unlocked read of  *)
(* its membership, which staff need not have.                              *)
ActsFor(actor, team) == actor = Staff \/ actor \in team

LocksOf(actor, o) == IF actor = Staff THEN <<o>> ELSE <<actor, o>>

RowsToAddButTheTarget(actor, o, u) == LocksOf(actor, o)         \* mutant

RowsToAdd(actor, o, u) == LocksOf(actor, o) \o <<u>>

BeginTeamChange(p) ==
    /\ \E o \in Operators, actor \in Users \cup {Staff}, u \in Users :
        /\ ActsFor(actor, Managers(o))
        /\ LET change == [Idle EXCEPT !.who = actor, !.at = o, !.target = u]
           IN  \/ Begins(p, [change EXCEPT !.op = "addMember",
                                           !.todo = RowsToAdd(actor, o, u)])
               \/ Begins(p, [change EXCEPT !.op = "removeMember",
                                           !.todo = LocksOf(actor, o)])
    /\ UNCHANGED <<accounts, request, storage, lock>>

(* The membership is read again once both locks are held.  Only an OWNER   *)
(* gets here, whom nothing removes: the refusal never comes.               *)
StillActs(p) == ActsFor(proc[p].who, TeamOf(proc[p].at))

AddMember(p) ==
    /\ Locks(p, "addMember") /\ StillActs(p)
    /\ \E role \in {"OWNER", "STAFF"} :
          members' = IF proc[p].target \in TeamOf(proc[p].at) THEN members
                     ELSE members \cup {<<proc[p].target, proc[p].at, role>>}
    /\ End(p)
    /\ UNCHANGED <<user, operator, request, storage>>

RemoveAnyMember(p) ==                                           \* mutant
    /\ Locks(p, "removeMember") /\ StillActs(p)
    /\ members' = {m \in members : m[1] # proc[p].target \/ m[2] # proc[p].at}
    /\ End(p)
    /\ UNCHANGED <<user, operator, request, storage>>

RemoveMember(p) ==
    /\ Locks(p, "removeMember") /\ StillActs(p)
    /\ members' = members \ {<<proc[p].target, proc[p].at, "STAFF">>}
    /\ End(p)
    /\ UNCHANGED <<user, operator, request, storage>>

-----------------------------------------------------------------------------
(* Requests, as far as deletion looks at them.                             *)
Open  == request.status \in {"DISPATCHING", "ASSIGNED", "IN_DISPUTE"}
Paid  == request.deposit \in {"SUCCEEDED", "late"}

Writes(step) == request' = step /\ UNCHANGED <<accounts, storage, running>>

(* The last answer of the intake, from whatever account the message was    *)
(* routed to.                                                              *)
CreateRequest ==
    /\ request.status = "none"
    /\ \E u \in Users :
        /\ Lockable(u)
        /\ Writes([NoRequest EXCEPT !.status = "DISPATCHING", !.customer = u])

(* assignOperator and handleQuoteSelected: both parties locked, the        *)
(* request claimed as it was read, the deposit's row inserted.             *)
BeginAssign(p) ==
    /\ request.status \in {"DISPATCHING", "ASSIGNED"}
    /\ \E o \in Operators :
        /\ Begins(p, [Idle EXCEPT !.op = "assign", !.at = o,
                         !.todo = <<request.customer, o>>,
                         !.seen = <<request.status, request.operator>>])
    /\ UNCHANGED <<accounts, request, storage, lock>>

AssignOperator(p) ==
    /\ Locks(p, "assign")
    /\ request' = IF /\ proc[p].seen = <<request.status, request.operator>>
                     /\ request.deposit # "live"
                  THEN [request EXCEPT !.status = "ASSIGNED", !.deposit = "live",
                                       !.operator = proc[p].at]
                  ELSE request
    /\ End(p)
    /\ UNCHANGED <<accounts, storage>>

(* raiseDispute: the customer, then the operator the request has by then.  *)
Disputed == IF request.disputed THEN request
            ELSE [request EXCEPT !.disputed = TRUE, !.status = "IN_DISPUTE"]

DisputeUnassigned ==
    /\ request.status # "none" /\ request.operator = NoOperator
    /\ Lockable(request.customer)
    /\ Writes(Disputed)

BeginDispute(p) ==
    /\ request.operator \in Operators /\ Lockable(request.customer)
    /\ Begins(p, [Idle EXCEPT !.op = "dispute", !.todo = <<request.operator>>])
    /\ lock' = [lock EXCEPT ![request.customer] = p]
    /\ UNCHANGED <<accounts, request, storage>>

RaiseDispute(p) ==
    /\ Locks(p, "dispute")
    /\ request' = Disputed
    /\ End(p)
    /\ UNCHANGED <<accounts, storage>>

(* PaymentLedger.create for a refund: the customer locked.                 *)
CreateRefund ==
    /\ request.status = "CANCELLED" /\ Paid /\ request.refund = "none"
    /\ Lockable(request.customer)
    /\ Writes([request EXCEPT !.refund = "live"])

(* What other handlers do to the request, none of them holding a lock on   *)
(* its parties.  A deposit that lands when the request has moved on is     *)
(* late.                                                                   *)
DepositSettles ==
    /\ request.deposit = "live"
    /\ Writes([request EXCEPT !.deposit = IF request.status = "ASSIGNED"
                                          THEN "SUCCEEDED" ELSE "late"])

DepositFails == request.deposit = "live" /\ Writes([request EXCEPT !.deposit = "none"])

DepositExpires ==
    /\ request.status = "ASSIGNED" /\ ~Paid
    /\ Writes([request EXCEPT !.status = "DISPATCHING", !.operator = NoOperator])

JobSettles ==
    /\ request.status = "ASSIGNED" /\ Paid
    /\ Writes([request EXCEPT !.status = "COMPLETED"])

CancelRequest ==
    /\ Open \/ request.status = "COMPLETED"
    /\ Writes([request EXCEPT !.status = "CANCELLED"])

ResolveDispute ==
    /\ request.disputed
    /\ Writes([request EXCEPT !.status = "COMPLETED", !.disputed = FALSE])

ClaimSettlement ==
    /\ request.status = "CANCELLED" /\ request.operator \in Operators
    /\ Paid /\ ~request.settled
    /\ Writes([request EXCEPT !.settled = TRUE])

RefundSettles == request.refund = "live" /\ Writes([request EXCEPT !.refund = "none"])

(* The payout of a finished job, whenever its row was inserted.            *)
PayoutSucceeds ==
    /\ \/ request.status = "COMPLETED"
       \/ request.status = "CANCELLED" /\ request.settled
    /\ request.operator \in Operators /\ request.payout # "SUCCEEDED"
    /\ Writes([request EXCEPT !.payout = "SUCCEEDED"])

RequestMovesOn ==
    \/ CreateRequest \/ DisputeUnassigned \/ CreateRefund
    \/ DepositSettles \/ DepositFails \/ DepositExpires \/ JobSettles
    \/ CancelRequest \/ ResolveDispute \/ ClaimSettlement \/ RefundSettles
    \/ PayoutSucceeds

-----------------------------------------------------------------------------
(* Deletion.                                                               *)
BlockingByStatus(u) == request.customer = u /\ Open             \* mutant

(* ACTIVE_OR_PENDING_REQUEST_FILTER, for the requests of one customer.     *)
Blocking(u) ==
    /\ request.customer = u
    /\ Open \/ request.disputed \/ request.deposit = "live" \/ request.refund = "live"

CustomersMedia(us) == IF request.customer \in us THEN media \cap {"CUSTOMER"} ELSE {}

OperatorsMedia(o) == IF request.operator = o THEN media \cap {"OPERATOR"} ELSE {}

AnonymizeUsers(us) ==
    user' = [u \in Users |-> IF u \in us THEN "deleted" ELSE user[u]]

QueueAfterCommit(p, objects) ==                                 \* mutant
    /\ media' = media \ objects
    /\ erased' = erased \cup objects
    /\ lock' = Released(p)
    /\ proc' = [proc EXCEPT ![p] =
                   IF objects = {} THEN Idle
                   ELSE [Idle EXCEPT !.op = "eraseMedia", !.keys = objects]]
    /\ UNCHANGED <<stored, outbox>>

(* The rows go, their objects are left to whoever reads the outbox: first  *)
(* of all this handler, once it has committed.                             *)
QueueMedia(p, objects) ==
    /\ media' = media \ objects
    /\ outbox' = outbox \cup objects
    /\ erased' = erased \cup objects
    /\ lock' = Released(p)
    /\ proc' = [proc EXCEPT ![p] =
                   IF objects = {} THEN Idle
                   ELSE [Idle EXCEPT !.op = "eraseMedia", !.keys = objects]]
    /\ UNCHANGED stored

UserMayGo(u) == LiveTeamsOf(u) = {} /\ ~Blocking(u)

CheckUser(p) ==
    /\ \E u \in Users :
        /\ Lockable(u) /\ UserMayGo(u)
        /\ Begins(p, [Idle EXCEPT !.op = "deleteUser", !.who = u])
        /\ lock' = [lock EXCEPT ![u] = p]
    /\ UNCHANGED <<accounts, request, storage>>

DeleteUser(p) ==
    /\ proc[p].op = "deleteUser"
    /\ AnonymizeUsers({proc[p].who})
    /\ QueueMedia(p, CustomersMedia({proc[p].who}))
    /\ UNCHANGED <<operator, members, request>>

(* The members are read before anything is locked, then locked in the      *)
(* order of their ids, the operator last.                                  *)
InIdOrder(team) == {s \in [1..Cardinality(team) -> team] :
                       \A i, j \in DOMAIN s : i < j => s[i] < s[j]}

BeginDeleteOperator(p) ==
    /\ \E o \in Operators : \E rows \in InIdOrder(TeamOf(o)) :
          Begins(p, [Idle EXCEPT !.op = "deleteOperator", !.at = o,
                                 !.team = TeamOf(o), !.todo = rows \o <<o>>])
    /\ UNCHANGED <<accounts, request, storage, lock>>

OperatorMayGoUnpaid(o) ==                                       \* mutant
    request.operator = o => ~Open /\ ~request.disputed

(* No request of its own still active or disputed, no completed one whose  *)
(* payout has not succeeded, no cancelled one whose paid deposit has not   *)
(* been settled.                                                           *)
OperatorMayGo(o) ==
    request.operator = o =>
        /\ ~Open /\ ~request.disputed
        /\ request.status = "COMPLETED" => request.payout = "SUCCEEDED"
        /\ request.status = "CANCELLED" /\ Paid => request.settled

CheckOperator(p) ==
    /\ Locks(p, "deleteOperator")
    /\ IF OperatorMayGo(proc[p].at)
       THEN /\ proc' = [proc EXCEPT ![p].todo = << >>]
            /\ lock' = [lock EXCEPT ![proc[p].at] = p]
       ELSE End(p)
    /\ UNCHANGED <<accounts, request, storage>>

(* The members who go with it: locked, so not deleted before, and with no  *)
(* other live team.                                                        *)
Cascaded(p) == {u \in TeamOf(proc[p].at) : /\ lock[u] = p /\ user[u] = "OPERATOR"
                                           /\ LiveTeamsOf(u) = {proc[p].at}}

TeamMayGoWhoeverJoined(p) == \A u \in Cascaded(p) : ~Blocking(u) \* mutant

(* A member who joined meanwhile, or one with business of their own, ends  *)
(* the deletion.                                                           *)
TeamMayGo(p) == /\ TeamOf(proc[p].at) \subseteq proc[p].team
                /\ \A u \in Cascaded(p) : ~Blocking(u)

DeleteOperator(p) ==
    /\ proc[p].op = "deleteOperator" /\ proc[p].todo = << >>
    /\ TeamMayGo(p)
    /\ LET o == proc[p].at
       IN  /\ operator' = [operator EXCEPT ![o] = "deleted"]
           /\ AnonymizeUsers(Cascaded(p))
           /\ QueueMedia(p, OperatorsMedia(o) \cup CustomersMedia(Cascaded(p)))
    /\ UNCHANGED <<members, request>>

-----------------------------------------------------------------------------
(* Media.  captureMediaAttachment stores an object and creates its row,    *)
(* asking nothing of the accounts; a key is never used twice.              *)
CaptureMedia ==
    /\ request.status # "none"
    /\ \E object \in Objects \ (media \cup erased) :
          media' = media \cup {object} /\ stored' = stored \cup {object}
    /\ UNCHANGED <<accounts, request, outbox, erased, running>>

(* RetryMediaDeletionCheck, hourly, takes what the outbox has.             *)
BeginRetry(p) ==
    /\ outbox # {}
    /\ Begins(p, [Idle EXCEPT !.op = "eraseMedia", !.keys = outbox])
    /\ UNCHANGED <<accounts, request, storage, lock>>

(* For each key in turn: S3's object, which may refuse to go, then its     *)
(* row.  An object that is gone, like a row that is, makes no difference.  *)
Erasing(p, locals) ==
    proc' = [proc EXCEPT ![p] = IF locals.keys = {} /\ locals.seen = << >>
                                THEN Idle ELSE locals]

EraseObject(p) ==
    /\ proc[p].op = "eraseMedia" /\ proc[p].seen = << >>
    /\ \E object \in proc[p].keys :
        /\ stored' = stored \ {object}
        /\ Erasing(p, [proc[p] EXCEPT !.keys = @ \ {object}, !.seen = <<object>>])
    /\ UNCHANGED <<accounts, request, media, outbox, erased, lock>>

ObjectStays(p) ==
    /\ proc[p].op = "eraseMedia" /\ proc[p].seen = << >>
    /\ \E object \in proc[p].keys :
        Erasing(p, [proc[p] EXCEPT !.keys = @ \ {object}])
    /\ UNCHANGED <<accounts, request, storage, lock>>

EraseRow(p) ==
    /\ proc[p].op = "eraseMedia" /\ proc[p].seen # << >>
    /\ outbox' = outbox \ {proc[p].seen[1]}
    /\ Erasing(p, [proc[p] EXCEPT !.seen = << >>])
    /\ UNCHANGED <<accounts, request, media, stored, erased, lock>>

-----------------------------------------------------------------------------
Next ==
    \/ \E p \in Procs :
        \/ LockRow(p) \/ FindRowDeleted(p) \/ RollBack(p)
        \/ BeginTeamChange(p) \/ AddMember(p) \/ RemoveMember(p)
        \/ BeginAssign(p) \/ AssignOperator(p) \/ BeginDispute(p) \/ RaiseDispute(p)
        \/ CheckUser(p) \/ DeleteUser(p)
        \/ BeginDeleteOperator(p) \/ CheckOperator(p) \/ DeleteOperator(p)
        \/ BeginRetry(p) \/ EraseObject(p) \/ ObjectStays(p) \/ EraseRow(p)
    \/ RequestMovesOn \/ CaptureMedia

AccountsSpec == Init /\ [][Next]_vars

-----------------------------------------------------------------------------
(* Every row and every handler has its shape, a row is locked by a handler *)
(* that runs, and a deletion under way holds the rows it is about.         *)
AccountsTypeOK ==
    /\ user \in [Users -> Roles \cup {"deleted"}]
    /\ operator \in [Operators -> {"live", "deleted"}]
    /\ members \subseteq Users \X Operators \X {"OWNER", "STAFF"}
    /\ \A o \in Operators : <<Owner, o, "OWNER">> \in members
    /\ media \subseteq stored /\ media \cap outbox = {}
    /\ outbox \subseteq erased /\ erased \subseteq Objects
    /\ request.customer \in Users <=> request.status # "none"
    /\ \A row \in Rows : lock[row] # NoProc => proc[lock[row]] # Idle
    /\ \A p \in Procs : proc[p].op = "deleteUser" => lock[proc[p].who] = p

(* Whoever a request still needs is there: no step of a request and no     *)
(* deletion, however they interleave, leaves a request that is open, or in *)
(* dispute, or has the customer's money under way, to a deleted customer,  *)
(* nor an open or disputed one to a deleted operator.                      *)
NewWorkGoesToTheLiving ==
    /\ Open \/ request.disputed \/ "live" \in {request.deposit, request.refund}
           => user[request.customer] # "deleted"
    /\ (Open \/ request.disputed) /\ request.operator \in Operators
           => LiveOperator(request.operator)

(* Deletion forgets the operator's bank account for good, so it never      *)
(* takes an operator who finished or lost a job whose deposit was paid in  *)
(* time and was neither paid out nor settled.                              *)
NothingOwedIsDeleted ==
    request.operator \in Operators /\ request.deposit = "SUCCEEDED" =>
        LiveOperator(request.operator) \/ request.settled \/ request.payout = "SUCCEEDED"

(* A live operator's team is alive: who is joining it cannot be deleted    *)
(* meanwhile, nor who has joined it.                                       *)
MembersAreAlive ==
    \A m \in members : LiveOperator(m[2]) => LiveUser(m[1])

(* Deleting an operator deletes every account that had no other business,  *)
(* the members who joined while it waited included.                        *)
TeamGoesWithItsOperator ==
    [][\A o \in Operators : LiveOperator(o) /\ operator'[o] = "deleted" =>
          \A u \in TeamOf(o) : user[u] = "OPERATOR" /\ LiveTeamsOf(u) = {o}
                                   => user'[u] = "deleted"]_vars

(* Media a deletion took on is gone from S3, or is still in the outbox,    *)
(* whichever step the process died at and whatever S3 refused.             *)
ErasedMediaIsQueued == erased \subseteq outbox \cup (Objects \ stored)

=============================================================================
