--------------------------- MODULE AccountsProofs ---------------------------
(***************************************************************************)
(* Theorems about Accounts, for every set of users, operators and          *)
(* handlers, every interleaving, every crash and every deadlock's victim.  *)
(*                                                                         *)
(* The argument is one of locks.  A handler that is about to delete an     *)
(* account has looked at its business under a lock (Holds); whoever could  *)
(* give that account new business locks the same row first; so what was    *)
(* seen under the lock still holds when the deletion commits.              *)
(***************************************************************************)
EXTENDS Accounts, FiniteSetTheorems, SequenceTheorems, TLAPS

Ops == {"idle", "addMember", "removeMember", "assign", "dispute", "deleteUser",
        "deleteOperator", "eraseMedia"}

Statuses == {"none", "DISPATCHING", "ASSIGNED", "IN_DISPUTE", "COMPLETED", "CANCELLED"}

Requests == [status : Statuses, customer : Users \cup {NoUser},
             operator : Operators \cup {NoOperator}, disputed : BOOLEAN,
             deposit : {"none", "live", "SUCCEEDED", "late"},
             refund : {"none", "live"}, payout : {"none", "SUCCEEDED"},
             settled : BOOLEAN]

Locals == [op : Ops, who : Users \cup {NoUser, Staff}, target : Users \cup {NoUser},
           at : Operators \cup {NoOperator}, todo : Seq(Rows), team : SUBSET Users,
           seen : Seq(Statuses \cup Operators \cup {NoOperator} \cup Objects),
           keys : SUBSET Objects]

(* The tables, and the handlers with the rows they hold.                   *)
Tables ==
    /\ user \in [Users -> Roles \cup {"deleted"}]
    /\ operator \in [Operators -> {"live", "deleted"}]
    /\ members \subseteq Users \X Operators \X {"OWNER", "STAFF"}
    /\ request \in Requests
    /\ outbox \subseteq Objects /\ media \subseteq Objects

Handlers ==
    /\ lock \in [Rows -> Procs \cup {NoProc}]
    /\ proc \in [Procs -> Locals]

(* A row that is held is not deleted.                                      *)
HeldIsAlive == \A row \in Rows : lock[row] # NoProc => ~IsDeleted(row)

(* A request has a customer from its beginning, and nothing before.        *)
RequestBegins ==
    /\ request.status # "none" => request.customer \in Users
    /\ request.status = "none" => /\ request.operator = NoOperator
                                  /\ ~request.disputed
                                  /\ request.deposit = "none"
                                  /\ request.refund = "none"

(* No work with the operator, and nothing owed to it that was paid in time.*)
Clear(o) ==
    request.operator = o =>
        /\ ~Open /\ ~request.disputed
        /\ request.deposit = "SUCCEEDED" => request.settled \/ request.payout = "SUCCEEDED"

NoLiveTeam(u) == \A m \in members : m[1] = u => ~LiveOperator(m[2])

EndsWith(s, row) == s # << >> /\ s[Len(s)] = row

(* What a handler knows of the rows it holds, by what it is doing.         *)
DeletesUser(p) ==
    proc[p].op = "deleteUser" =>
        /\ proc[p].who \in Users /\ lock[proc[p].who] = p
        /\ NoLiveTeam(proc[p].who) /\ ~Blocking(proc[p].who)

DeletesOperator(p) ==
    proc[p].op = "deleteOperator" =>
        /\ proc[p].at \in Operators
        /\ IF proc[p].todo = << >>
           THEN lock[proc[p].at] = p /\ Clear(proc[p].at)
           ELSE EndsWith(proc[p].todo, proc[p].at)

AddsMember(p) ==
    proc[p].op = "addMember" =>
        /\ proc[p].target \in Users /\ proc[p].at \in Operators
        /\ EndsWith(proc[p].todo, proc[p].target)

Assigns(p) ==
    proc[p].op = "assign" =>
        /\ proc[p].at \in Operators /\ request.customer \in Users
        /\ request.status # "none"
        /\ \/ proc[p].todo = <<request.customer, proc[p].at>>
           \/ proc[p].todo = <<proc[p].at>> /\ lock[request.customer] = p

Disputes(p) ==
    proc[p].op = "dispute" =>
        /\ request.customer \in Users /\ lock[request.customer] = p
        /\ request.status # "none"
        /\ \E o \in Operators : proc[p].todo = <<o>> /\ request.operator \in {o, NoOperator}

Holds(p) == DeletesUser(p) /\ DeletesOperator(p) /\ AddsMember(p) /\ Assigns(p) /\ Disputes(p)

IInv ==
    /\ Tables /\ Handlers /\ HeldIsAlive /\ RequestBegins
    /\ NewWorkGoesToTheLiving /\ NothingOwedIsDeleted /\ MembersAreAlive
    /\ \A p \in Procs : Holds(p)

-----------------------------------------------------------------------------
(* What the steps of the others leave a handler.                           *)
LEMMA StillHolds ==
    ASSUME NEW p \in Procs, IInv, proc'[p] = proc[p],
           \A row \in Rows : lock[row] = p => lock'[row] = p,
           request.status # "none" =>
               request'.customer = request.customer /\ request'.status # "none",
           \A u \in Users : lock[u] = p /\ NoLiveTeam(u) => NoLiveTeam(u)',
           \A u \in Users : lock[u] = p /\ ~Blocking(u) => ~Blocking(u)',
           \A o \in Operators : lock[o] = p /\ Clear(o) => Clear(o)',
           request.status # "none" /\ lock[request.customer] = p =>
               request'.operator \in {request.operator, NoOperator}
    PROVE  Holds(p)'
<1>0. /\ Users \subseteq Rows /\ Operators \subseteq Rows
      /\ NoUser \notin Users /\ Holds(p)
  BY NameAssumption DEF Rows, IInv
<1>1. DeletesUser(p)'
  BY <1>0 DEF Holds, DeletesUser
<1>2. DeletesOperator(p)'
  BY <1>0 DEF Holds, DeletesOperator, EndsWith
<1>3. AddsMember(p)'
  BY <1>0 DEF Holds, AddsMember, EndsWith
<1>4. Assigns(p)'
  BY <1>0 DEF Holds, Assigns
<1>5. Disputes(p)'
  BY <1>0 DEF Holds, Disputes
<1> QED
  BY <1>1, <1>2, <1>3, <1>4, <1>5 DEF Holds

(* The locks a step of q may take and release.                             *)
LockMoves(q) ==
    \A row \in Rows :
        \/ lock'[row] = lock[row]
        \/ lock[row] = NoProc /\ lock'[row] = q /\ ~IsDeleted(row)
        \/ lock[row] = q /\ lock'[row] = NoProc

LEMMA OthersKeepTheirs ==
    ASSUME NEW q \in Procs, NEW p \in Procs, p # q, LockMoves(q)
    PROVE  \A row \in Rows : lock[row] = p => lock'[row] = p
  BY NameAssumption DEF LockMoves

(* A step of q that leaves accounts and request alone.                     *)
LEMMA QuietStep ==
    ASSUME IInv, NEW q \in Procs, NEW x \in Locals,
           proc' = [proc EXCEPT ![q] = x], UNCHANGED <<accounts, request>>,
           lock' \in [Rows -> Procs \cup {NoProc}], LockMoves(q),
           outbox' \subseteq Objects, UNCHANGED media, Holds(q)'
    PROVE  IInv'
<1>1. Tables' /\ Handlers' /\ RequestBegins' /\ MembersAreAlive'
  BY DEF IInv, Tables, Handlers, accounts, RequestBegins, MembersAreAlive, LiveUser, LiveOperator
<1>2. NewWorkGoesToTheLiving' /\ NothingOwedIsDeleted'
  BY DEF IInv, accounts, NewWorkGoesToTheLiving, NothingOwedIsDeleted, Open, LiveOperator
<1>3. HeldIsAlive'
  BY NameAssumption DEF IInv, accounts, HeldIsAlive, LockMoves, IsDeleted
<1>4. ASSUME NEW p \in Procs, p # q
      PROVE  Holds(p)'
  <2>1. proc'[p] = proc[p]
    BY <1>4 DEF IInv, Handlers
  <2>2. \A row \in Rows : lock[row] = p => lock'[row] = p
    BY <1>4, OthersKeepTheirs
  <2>3. \A u \in Users : NoLiveTeam(u)' <=> NoLiveTeam(u)
    BY DEF NoLiveTeam, LiveOperator, accounts
  <2>4. \A u \in Users : Blocking(u)' <=> Blocking(u)
    BY DEF Blocking, Open
  <2>5. \A o \in Operators : Clear(o)' <=> Clear(o)
    BY DEF Clear, Open
  <2> QED
    BY <2>1, <2>2, <2>3, <2>4, <2>5, StillHolds
<1> QED
  BY <1>1, <1>2, <1>3, <1>4 DEF IInv

(* A transaction that ends without writing.                                *)
LEMMA IdleHolds ==
    /\ Idle \in Locals
    /\ \A q \in Procs : proc'[q] = Idle => Holds(q)'
<1>1. Idle \in Locals
  BY DEF Idle, Locals, Ops
<1>2. ASSUME NEW q \in Procs, proc'[q] = Idle
      PROVE  Holds(q)'
  BY <1>2 DEF Idle, Holds, DeletesUser, DeletesOperator, AddsMember, Assigns, Disputes
<1> QED
  BY <1>1, <1>2

LEMMA EndMoves ==
    ASSUME IInv, NEW q \in Procs, lock' = Released(q)
    PROVE  LockMoves(q) /\ lock' \in [Rows -> Procs \cup {NoProc}]
  BY DEF IInv, Handlers, Released, LockMoves

LEMMA RefuseStep ==
    ASSUME IInv, NEW q \in Procs, Refuse(q)
    PROVE  IInv'
<1>1. /\ proc' = [proc EXCEPT ![q] = Idle] /\ lock' = Released(q)
      /\ UNCHANGED <<accounts, request, storage>>
  BY DEF Refuse, End
<1>2. proc'[q] = Idle
  BY <1>1 DEF IInv, Handlers
<1>3. outbox' \subseteq Objects /\ UNCHANGED media
  BY <1>1 DEF storage, IInv, Tables
<1> QED
  BY <1>1, <1>2, <1>3, IdleHolds, EndMoves, QuietStep

LEMMA TailEnds ==
    ASSUME NEW S, NEW s \in Seq(S), Len(s) > 1
    PROVE  /\ Head(s) \in S /\ Tail(s) \in Seq(S) /\ Tail(s) # << >>
           /\ Tail(s)[Len(Tail(s))] = s[Len(s)]
<1>1. Len(s) \in Nat /\ s # << >>
  BY LenProperties, EmptySeq
<1>2. /\ Head(s) \in S /\ Tail(s) \in Seq(S) /\ Len(Tail(s)) = Len(s) - 1
      /\ \A i \in 1..Len(Tail(s)) : Tail(s)[i] = s[i + 1]
  BY <1>1, HeadTailProperties
<1>3. Len(Tail(s)) \in 1..Len(Tail(s)) /\ Len(Tail(s)) + 1 = Len(s)
  BY <1>1, <1>2
<1> QED
  BY <1>2, <1>3, EmptySeq

LEMMA ShortSequences ==
    /\ Len(<< >>) = 0
    /\ \A a : Len(<<a>>) = 1 /\ <<a>>[1] = a /\ <<a>> # << >>
    /\ \A a, b : Len(<<a, b>>) = 2 /\ Head(<<a, b>>) = a /\ Tail(<<a, b>>) = <<b>>
  OBVIOUS

LEMMA LongSequences ==
    ASSUME NEW s, Len(s) > 1
    PROVE  s # << >> /\ \A a : s # <<a>>
<1>1. ASSUME s = << >> PROVE FALSE
  BY <1>1, ShortSequences
<1>2. ASSUME NEW a, s = <<a>> PROVE FALSE
  BY <1>2, ShortSequences
<1> QED
  BY <1>1, <1>2

LEMMA LockRowStep ==
    ASSUME IInv, NEW q \in Procs, LockRow(q)
    PROVE  IInv'
<1> DEFINE row == Head(proc[q].todo)
           x == [proc[q] EXCEPT !.todo = Tail(@)]
<1>1. /\ proc[q] \in Locals /\ Len(proc[q].todo) > 1 /\ lock[row] = NoProc
      /\ IsDeleted(row) => proc[q].op = "deleteOperator" /\ row \in Users
      /\ lock' = IF IsDeleted(row) THEN lock ELSE [lock EXCEPT ![row] = q]
      /\ proc' = [proc EXCEPT ![q] = x]
      /\ UNCHANGED <<accounts, request, storage>>
  BY DEF LockRow, LeavesOut, IInv, Handlers
<1>10. proc[q].todo # << >> /\ \A a : proc[q].todo # <<a>>
  BY <1>1, LongSequences
<1>2. row \in Rows /\ Tail(proc[q].todo) \in Seq(Rows) /\ Tail(proc[q].todo) # << >>
      /\ Tail(proc[q].todo)[Len(Tail(proc[q].todo))] = proc[q].todo[Len(proc[q].todo)]
  <2>1. proc[q].todo \in Seq(Rows)
    BY <1>1 DEF Locals
  <2> QED
    BY <1>1, <2>1, TailEnds
<1>3. /\ x \in Locals /\ x.op = proc[q].op /\ x.at = proc[q].at
      /\ x.target = proc[q].target /\ x.who = proc[q].who /\ x.todo = Tail(proc[q].todo)
  BY <1>1, <1>2 DEF Locals
<1>4. proc'[q] = x
  BY <1>1 DEF IInv, Handlers
<1> HIDE DEF x
<1>5. lock' \in [Rows -> Procs \cup {NoProc}] /\ LockMoves(q)
  BY <1>1, <1>2 DEF IInv, Handlers, LockMoves
<1>6. \A r \in Rows : lock[r] = q => lock'[r] = q
  BY <1>1, <1>2 DEF IInv, Handlers
<1>7. Holds(q) /\ Users \subseteq Rows /\ Operators \subseteq Rows
  BY DEF IInv, Rows
<1>8. Holds(q)'
  <2>1. DeletesUser(q)'
    <3> SUFFICES ASSUME proc[q].op = "deleteUser"
                 PROVE  /\ proc[q].who \in Users /\ lock'[proc[q].who] = q
                        /\ NoLiveTeam(proc[q].who)' /\ ~Blocking(proc[q].who)'
      BY <1>3, <1>4 DEF DeletesUser
    <3>1. /\ proc[q].who \in Users /\ lock[proc[q].who] = q
          /\ NoLiveTeam(proc[q].who) /\ ~Blocking(proc[q].who)
      BY <1>7 DEF Holds, DeletesUser
    <3>2. proc'[q].who = proc[q].who
      BY <1>3, <1>4
    <3> QED
      BY <1>1, <1>6, <1>7, <3>1, <3>2 DEF NoLiveTeam, LiveOperator, accounts, Blocking, Open
  <2>2. \A end \in Rows : EndsWith(proc[q].todo, end) => EndsWith(x.todo, end)
    BY <1>1, <1>2, <1>3 DEF EndsWith
  <2>5. proc[q].todo # << >> /\ proc'[q].todo # << >>
    BY <1>2, <1>3, <1>4, <1>10
  <2>6. DeletesOperator(q)'
    BY <1>3, <1>4, <1>7, <2>2, <2>5 DEF Holds, DeletesOperator, EndsWith
  <2>7. AddsMember(q)'
    BY <1>3, <1>4, <1>7, <2>2 DEF Holds, AddsMember, EndsWith
  <2>3. Assigns(q)'
    <3> SUFFICES ASSUME proc[q].op = "assign"
                 PROVE  Assigns(q)'
      BY <1>3, <1>4 DEF Assigns
    <3>1. /\ proc[q].at \in Operators /\ request.customer \in Users
          /\ request.status # "none"
          /\ proc[q].todo = <<request.customer, proc[q].at>>
      <4>1. proc[q].todo # <<proc[q].at>>
        BY <1>10
      <4> QED
        BY <1>7, <4>1 DEF Holds, Assigns
    <3>2. row = request.customer /\ Tail(proc[q].todo) = <<proc[q].at>>
      BY <3>1, ShortSequences
    <3>3. lock'[request.customer] = q
      BY <1>1, <1>2, <3>2 DEF IInv, Handlers
    <3> QED
      BY <1>1, <1>3, <1>4, <3>1, <3>2, <3>3 DEF Assigns
  <2>4. Disputes(q)'
    <3>1. \A o \in Operators : proc[q].todo # <<o>>
      BY <1>10
    <3> QED
      BY <1>3, <1>4, <1>7, <3>1 DEF Holds, Disputes
  <2> QED
    BY <2>1, <2>3, <2>4, <2>6, <2>7 DEF Holds
<1>9. outbox' \subseteq Objects /\ UNCHANGED media
  BY <1>1 DEF storage, IInv, Tables
<1> QED
  BY <1>1, <1>3, <1>5, <1>8, <1>9, QuietStep

LEMMA NoTeams ==
    \A u \in Users : (LiveTeamsOf(u) = {}) => NoLiveTeam(u)
  BY DEF LiveTeamsOf, NoLiveTeam

LEMMA Unlocked ==
    ASSUME IInv, NEW q \in Procs, UNCHANGED lock
    PROVE  LockMoves(q) /\ lock' \in [Rows -> Procs \cup {NoProc}]
  BY DEF IInv, Handlers, LockMoves

(* A handler that takes one lock on a row that is free.                    *)
LEMMA LockOne ==
    ASSUME IInv, NEW q \in Procs, NEW row \in Rows, Lockable(row),
           lock' = [lock EXCEPT ![row] = q]
    PROVE  /\ LockMoves(q) /\ lock' \in [Rows -> Procs \cup {NoProc}]
           /\ lock'[row] = q
  BY DEF IInv, Handlers, LockMoves, Lockable

LEMMA BeginStep ==
    ASSUME IInv, NEW q \in Procs, NEW x \in Locals, Begins(q, x),
           UNCHANGED <<accounts, request, storage>>,
           LockMoves(q), lock' \in [Rows -> Procs \cup {NoProc}],
           proc'[q] = x => Holds(q)'
    PROVE  IInv'
<1>1. proc' = [proc EXCEPT ![q] = x] /\ proc'[q] = x
  BY DEF Begins, IInv, Handlers
<1>2. outbox' \subseteq Objects /\ UNCHANGED media
  BY DEF storage, IInv, Tables
<1> QED
  BY <1>1, <1>2, QuietStep

(* What RowsToAdd ends with is the member to be.                           *)
LEMMA RowsOfATeamChange ==
    ASSUME NEW actor \in Users \cup {Staff}, NEW o \in Operators, NEW u \in Users
    PROVE  /\ LocksOf(actor, o) \in Seq(Rows) /\ RowsToAdd(actor, o, u) \in Seq(Rows)
           /\ EndsWith(RowsToAdd(actor, o, u), u)
<1>1. LocksOf(actor, o) \in Seq(Rows)
  <2>1. <<o>> \in Seq(Rows) /\ (actor \in Users => <<actor, o>> \in Seq(Rows))
    BY DEF Rows
  <2> QED
    BY <2>1 DEF LocksOf
<1>2. <<u>> \in Seq(Rows) /\ Len(<<u>>) = 1 /\ <<u>>[1] = u
  BY DEF Rows
<1>3. /\ RowsToAdd(actor, o, u) \in Seq(Rows)
      /\ Len(RowsToAdd(actor, o, u)) = Len(LocksOf(actor, o)) + 1
      /\ \A i \in 1..Len(LocksOf(actor, o)) + 1 : RowsToAdd(actor, o, u)[i] =
             IF i <= Len(LocksOf(actor, o)) THEN LocksOf(actor, o)[i]
             ELSE <<u>>[i - Len(LocksOf(actor, o))]
  BY <1>1, <1>2, ConcatProperties DEF RowsToAdd
<1>4. Len(LocksOf(actor, o)) \in Nat
  BY <1>1, LenProperties
<1>5. RowsToAdd(actor, o, u)[Len(RowsToAdd(actor, o, u))] = u
  BY <1>2, <1>3, <1>4
<1>6. RowsToAdd(actor, o, u) # << >>
  BY <1>3, <1>4, ShortSequences
<1> QED
  BY <1>1, <1>3, <1>5, <1>6 DEF EndsWith

LEMMA BeginTeamChangeStep ==
    ASSUME IInv, NEW q \in Procs, BeginTeamChange(q)
    PROVE  IInv'
<1>1. PICK o \in Operators, actor \in Users \cup {Staff}, u \in Users :
        LET change == [Idle EXCEPT !.who = actor, !.at = o, !.target = u]
        IN  \/ Begins(q, [change EXCEPT !.op = "addMember",
                                        !.todo = RowsToAdd(actor, o, u)])
            \/ Begins(q, [change EXCEPT !.op = "removeMember",
                                        !.todo = LocksOf(actor, o)])
  BY DEF BeginTeamChange
<1> DEFINE change == [Idle EXCEPT !.who = actor, !.at = o, !.target = u]
           a == [change EXCEPT !.op = "addMember", !.todo = RowsToAdd(actor, o, u)]
           r == [change EXCEPT !.op = "removeMember", !.todo = LocksOf(actor, o)]
<1>2. Begins(q, a) \/ Begins(q, r)
  BY <1>1
<1>8. /\ change \in Locals /\ change.target = u /\ change.at = o
      /\ LocksOf(actor, o) \in Seq(Rows) /\ RowsToAdd(actor, o, u) \in Seq(Rows)
  BY RowsOfATeamChange, IdleHolds DEF Locals, Ops
<1> HIDE DEF change
<1>3. a \in Locals /\ r \in Locals
  BY <1>8 DEF Locals, Ops
<1>4. a.op = "addMember" /\ a.target = u /\ a.at = o /\ a.todo = RowsToAdd(actor, o, u)
      /\ r.op = "removeMember"
  BY <1>8 DEF Locals
<1> HIDE DEF a, r
<1>5. proc'[q] = a \/ proc'[q] = r => Holds(q)'
  BY <1>4, RowsOfATeamChange
  DEF Holds, DeletesUser, DeletesOperator, AddsMember, Assigns, Disputes
<1>6. UNCHANGED <<accounts, request, storage, lock>>
  BY DEF BeginTeamChange
<1> QED
  BY <1>2, <1>3, <1>5, <1>6, Unlocked, BeginStep

LEMMA BeginAssignStep ==
    ASSUME IInv, NEW q \in Procs, BeginAssign(q)
    PROVE  IInv'
<1>1. PICK o \in Operators :
        Begins(q, [Idle EXCEPT !.op = "assign", !.at = o,
                      !.todo = <<request.customer, o>>,
                      !.seen = <<request.status, request.operator>>])
  BY DEF BeginAssign
<1> DEFINE x == [Idle EXCEPT !.op = "assign", !.at = o,
                     !.todo = <<request.customer, o>>,
                     !.seen = <<request.status, request.operator>>]
<1>2. Begins(q, x)
  BY <1>1
<1>3. request.customer \in Users /\ request.status # "none" /\ request \in Requests
  BY DEF BeginAssign, IInv, RequestBegins, Tables
<1>4. x \in Locals
  <2>1. <<request.customer, o>> \in Seq(Rows)
    BY <1>3 DEF Rows
  <2>2. <<request.status, request.operator>>
           \in Seq(Statuses \cup Operators \cup {NoOperator} \cup Objects)
    <3>1. request.status \in Statuses /\ request.operator \in Operators \cup {NoOperator}
      BY <1>3 DEF Requests
    <3> QED
      BY <3>1
  <2> QED
    BY <2>1, <2>2, IdleHolds DEF Locals, Ops
<1>5. x.op = "assign" /\ x.at = o /\ x.todo = <<request.customer, o>>
  BY DEF Idle
<1> HIDE DEF x
<1>6. UNCHANGED <<accounts, request, storage, lock>>
  BY DEF BeginAssign
<1>7. proc'[q] = x => Holds(q)'
  BY <1>3, <1>5, <1>6
  DEF Holds, DeletesUser, DeletesOperator, AddsMember, Assigns, Disputes
<1> QED
  BY <1>2, <1>4, <1>6, <1>7, Unlocked, BeginStep

LEMMA BeginDisputeStep ==
    ASSUME IInv, NEW q \in Procs, BeginDispute(q)
    PROVE  IInv'
<1> DEFINE x == [Idle EXCEPT !.op = "dispute", !.todo = <<request.operator>>]
<1>1. /\ Begins(q, x) /\ request.operator \in Operators /\ Lockable(request.customer)
      /\ lock' = [lock EXCEPT ![request.customer] = q]
      /\ UNCHANGED <<accounts, request, storage>>
  BY DEF BeginDispute
<1>2. request.status # "none" /\ request.customer \in Users
  BY <1>1, NameAssumption DEF IInv, RequestBegins
<1>3. x \in Locals
  <2>1. <<request.operator>> \in Seq(Rows)
    BY <1>1 DEF Rows
  <2> QED
    BY <2>1, IdleHolds DEF Locals, Ops
<1>4. x.op = "dispute" /\ x.todo = <<request.operator>>
  BY DEF Idle
<1> HIDE DEF x
<1>5. /\ LockMoves(q) /\ lock' \in [Rows -> Procs \cup {NoProc}]
      /\ lock'[request.customer] = q
  BY <1>1, <1>2, LockOne DEF Rows
<1>6. proc'[q] = x => Holds(q)'
  BY <1>1, <1>2, <1>4, <1>5
  DEF Holds, DeletesUser, DeletesOperator, AddsMember, Assigns, Disputes
<1> QED
  BY <1>1, <1>3, <1>5, <1>6, BeginStep

LEMMA CheckUserStep ==
    ASSUME IInv, NEW q \in Procs, CheckUser(q)
    PROVE  IInv'
<1>1. PICK u \in Users :
        /\ Lockable(u) /\ UserMayGo(u)
        /\ Begins(q, [Idle EXCEPT !.op = "deleteUser", !.who = u])
        /\ lock' = [lock EXCEPT ![u] = q]
  BY DEF CheckUser
<1> DEFINE x == [Idle EXCEPT !.op = "deleteUser", !.who = u]
<1>2. Begins(q, x)
  BY <1>1
<1>3. x \in Locals
  BY IdleHolds DEF Locals, Ops
<1>4. x.op = "deleteUser" /\ x.who = u
  BY DEF Idle
<1> HIDE DEF x
<1>5. UNCHANGED <<accounts, request, storage>>
  BY DEF CheckUser
<1>6. /\ LockMoves(q) /\ lock' \in [Rows -> Procs \cup {NoProc}] /\ lock'[u] = q
  BY <1>1, LockOne DEF Rows
<1>7. NoLiveTeam(u)' /\ ~Blocking(u)'
  BY <1>1, <1>5, NoTeams DEF UserMayGo, NoLiveTeam, LiveOperator, accounts, Blocking, Open
<1>8. proc'[q] = x => Holds(q)'
  BY <1>4, <1>6, <1>7
  DEF Holds, DeletesUser, DeletesOperator, AddsMember, Assigns, Disputes
<1> QED
  BY <1>2, <1>3, <1>5, <1>6, <1>8, BeginStep

(* The rows a deletion locks are the team's, then the operator's.          *)
LEMMA RowsOfATeam ==
    ASSUME IInv, NEW o \in Operators, NEW rows \in InIdOrder(TeamOf(o))
    PROVE  rows \o <<o>> \in Seq(Rows) /\ EndsWith(rows \o <<o>>, o)
<1>1. TeamOf(o) \subseteq Users
  BY DEF IInv, Tables, TeamOf
<1>2. Cardinality(TeamOf(o)) \in Nat
  BY <1>1, UserOrder, FS_Subset, FS_CardinalityType
<1>3. rows \in Seq(Rows)
  <2>1. rows \in [1..Cardinality(TeamOf(o)) -> Rows]
    BY <1>1 DEF InIdOrder, Rows
  <2> QED
    BY <1>2, <2>1
<1>4. <<o>> \in Seq(Rows) /\ Len(<<o>>) = 1 /\ <<o>>[1] = o
  BY DEF Rows
<1>5. /\ rows \o <<o>> \in Seq(Rows) /\ Len(rows \o <<o>>) = Len(rows) + 1
      /\ \A i \in 1..Len(rows) + 1 : (rows \o <<o>>)[i] =
             IF i <= Len(rows) THEN rows[i] ELSE <<o>>[i - Len(rows)]
  BY <1>3, <1>4, ConcatProperties
<1>6. Len(rows) \in Nat
  BY <1>3, LenProperties
<1>7. (rows \o <<o>>)[Len(rows \o <<o>>)] = o
  BY <1>4, <1>5, <1>6
<1>8. rows \o <<o>> # << >>
  BY <1>5, <1>6, ShortSequences
<1> QED
  BY <1>5, <1>7, <1>8 DEF EndsWith

LEMMA BeginDeleteOperatorStep ==
    ASSUME IInv, NEW q \in Procs, BeginDeleteOperator(q)
    PROVE  IInv'
<1>1. PICK o \in Operators : \E rows \in InIdOrder(TeamOf(o)) :
        Begins(q, [Idle EXCEPT !.op = "deleteOperator", !.at = o,
                               !.team = TeamOf(o), !.todo = rows \o <<o>>])
  BY DEF BeginDeleteOperator
<1>2. PICK rows \in InIdOrder(TeamOf(o)) :
        Begins(q, [Idle EXCEPT !.op = "deleteOperator", !.at = o,
                               !.team = TeamOf(o), !.todo = rows \o <<o>>])
  BY <1>1
<1> DEFINE todo == rows \o <<o>>
           x == [Idle EXCEPT !.op = "deleteOperator", !.at = o,
                             !.team = TeamOf(o), !.todo = todo]
<1>3. Begins(q, x)
  BY <1>2
<1>4. todo \in Seq(Rows) /\ EndsWith(todo, o) /\ todo # << >>
  BY RowsOfATeam DEF EndsWith
<1>5. TeamOf(o) \in SUBSET Users
  BY DEF IInv, Tables, TeamOf
<1> HIDE DEF todo
<1>6. x \in Locals
  BY <1>4, <1>5, IdleHolds DEF Locals, Ops
<1>7. x.op = "deleteOperator" /\ x.at = o /\ x.todo = todo
  BY DEF Idle
<1> HIDE DEF x
<1>8. proc'[q] = x => Holds(q)'
  BY <1>4, <1>7
  DEF Holds, DeletesUser, DeletesOperator, AddsMember, Assigns, Disputes, EndsWith
<1>9. UNCHANGED <<accounts, request, storage, lock>>
  BY DEF BeginDeleteOperator
<1> QED
  BY <1>3, <1>6, <1>8, <1>9, Unlocked, BeginStep

LEMMA ClearToGo ==
    ASSUME IInv, NEW o \in Operators, OperatorMayGo(o)
    PROVE  Clear(o)
  BY NameAssumption
  DEF IInv, Tables, Requests, Statuses, RequestBegins, OperatorMayGo, Clear, Open, Paid

LEMMA CheckOperatorStep ==
    ASSUME IInv, NEW q \in Procs, CheckOperator(q)
    PROVE  IInv'
<1>1. CASE ~OperatorMayGo(proc[q].at)
  <2>1. Refuse(q)
    BY <1>1 DEF CheckOperator, Refuse
  <2> QED
    BY <2>1, RefuseStep
<1>2. CASE OperatorMayGo(proc[q].at)
  <2> DEFINE x == [proc[q] EXCEPT !.todo = << >>]
  <2>1. /\ proc[q].op = "deleteOperator" /\ Len(proc[q].todo) = 1
        /\ Lockable(proc[q].todo[1])
        /\ proc' = [proc EXCEPT ![q] = x]
        /\ lock' = [lock EXCEPT ![proc[q].at] = q]
        /\ UNCHANGED <<accounts, request, storage>>
    BY <1>2 DEF CheckOperator, Locks
  <2>2. proc[q] \in Locals /\ proc'[q] = x
    BY <2>1 DEF IInv, Handlers
  <2>3. x \in Locals
    BY <2>2, EmptySeq DEF Locals
  <2>4. x.op = "deleteOperator" /\ x.at = proc[q].at /\ x.todo = << >>
    BY <2>1, <2>2 DEF Locals
  <2> HIDE DEF x
  <2>5. proc[q].at \in Operators /\ proc[q].todo[1] = proc[q].at
    <3>1. proc[q].todo # << >>
      BY <2>1, ShortSequences
    <3> QED
      BY <2>1, <3>1 DEF IInv, Holds, DeletesOperator, EndsWith
  <2>6. /\ LockMoves(q) /\ lock' \in [Rows -> Procs \cup {NoProc}]
        /\ lock'[proc[q].at] = q
    BY <2>1, <2>5, LockOne DEF Rows
  <2>7. Clear(proc[q].at)
    BY <1>2, <2>5, ClearToGo
  <2>9. Holds(q)'
    BY <2>2, <2>4, <2>5, <2>6, <2>7, <2>1
    DEF Holds, DeletesUser, DeletesOperator, AddsMember, Assigns, Disputes, Clear, Open
  <2>10. outbox' \subseteq Objects /\ UNCHANGED media
    BY <2>1 DEF storage, IInv, Tables
  <2> QED
    BY <2>1, <2>3, <2>6, <2>9, <2>10, QuietStep
<1> QED
  BY <1>1, <1>2

(* The steps that erase media: the handler stays at it, or is done.        *)
LEMMA EraserGoesOn ==
    ASSUME IInv, NEW q \in Procs, BeginRetry(q) \/ EraseObject(q) \/ ObjectStays(q) \/ EraseRow(q)
    PROVE  \E x \in Locals : /\ x.op \in {"idle", "eraseMedia"}
                            /\ proc' = [proc EXCEPT ![q] = x]
<1>0. proc[q] \in Locals /\ outbox \subseteq Objects /\ Idle.op = "idle"
  BY DEF IInv, Handlers, Tables, Idle
<1>1. CASE BeginRetry(q)
  <2> DEFINE x == [Idle EXCEPT !.op = "eraseMedia", !.keys = outbox]
  <2>1. x \in Locals /\ x.op = "eraseMedia"
    BY <1>0, IdleHolds DEF Locals, Ops
  <2> QED
    BY <1>1, <2>1 DEF BeginRetry, Begins
<1>2. CASE EraseObject(q)
  <2>1. PICK object \in proc[q].keys :
          Erasing(q, [proc[q] EXCEPT !.keys = @ \ {object}, !.seen = <<object>>])
    BY <1>2 DEF EraseObject
  <2> DEFINE x == [proc[q] EXCEPT !.keys = @ \ {object}, !.seen = <<object>>]
  <2>2. proc[q].op = "eraseMedia" /\ object \in Objects
    BY <1>0, <1>2 DEF EraseObject, Locals
  <2>3. <<object>> \in Seq(Statuses \cup Operators \cup {NoOperator} \cup Objects)
    BY <2>2
  <2>4. x \in Locals /\ x.op = "eraseMedia"
    BY <1>0, <2>2, <2>3 DEF Locals
  <2>5. proc' = [proc EXCEPT ![q] = x] \/ proc' = [proc EXCEPT ![q] = Idle]
    BY <2>1 DEF Erasing
  <2> QED
    BY <1>0, <2>4, <2>5, IdleHolds
<1>3. CASE ObjectStays(q)
  <2>1. PICK object \in proc[q].keys :
          Erasing(q, [proc[q] EXCEPT !.keys = @ \ {object}])
    BY <1>3 DEF ObjectStays
  <2> DEFINE x == [proc[q] EXCEPT !.keys = @ \ {object}]
  <2>2. x \in Locals /\ x.op = "eraseMedia"
    BY <1>0, <1>3 DEF ObjectStays, Locals
  <2>3. proc' = [proc EXCEPT ![q] = x] \/ proc' = [proc EXCEPT ![q] = Idle]
    BY <2>1 DEF Erasing
  <2> QED
    BY <1>0, <2>2, <2>3, IdleHolds
<1>4. CASE EraseRow(q)
  <2> DEFINE x == [proc[q] EXCEPT !.seen = << >>]
  <2>1. x \in Locals /\ x.op = "eraseMedia"
    BY <1>0, <1>4, EmptySeq DEF EraseRow, Locals
  <2>2. proc' = [proc EXCEPT ![q] = x] \/ proc' = [proc EXCEPT ![q] = Idle]
    BY <1>4 DEF EraseRow, Erasing
  <2> QED
    BY <1>0, <2>1, <2>2, IdleHolds
<1> QED
  BY <1>1, <1>2, <1>3, <1>4

LEMMA EraseSteps ==
    ASSUME IInv, NEW q \in Procs, BeginRetry(q) \/ EraseObject(q) \/ ObjectStays(q) \/ EraseRow(q)
    PROVE  IInv'
<1>2. PICK x \in Locals : /\ x.op \in {"idle", "eraseMedia"}
                          /\ proc' = [proc EXCEPT ![q] = x]
  BY EraserGoesOn
<1>3. UNCHANGED <<accounts, request, lock, media>> /\ outbox' \subseteq Objects
  BY DEF BeginRetry, EraseObject, ObjectStays, EraseRow, storage, IInv, Tables
<1>4. proc'[q] = x
  BY <1>2 DEF IInv, Handlers
<1>5. Holds(q)'
  BY <1>2, <1>4 DEF Holds, DeletesUser, DeletesOperator, AddsMember, Assigns, Disputes
<1> QED
  BY <1>2, <1>3, <1>5, Unlocked, QuietStep

-----------------------------------------------------------------------------
(* What handlers that hold no row do to the request.                       *)
LEMMA RequestStep ==
    ASSUME IInv, UNCHANGED <<accounts, storage, running>>, request' \in Requests,
           RequestBegins', NewWorkGoesToTheLiving', NothingOwedIsDeleted',
           request.status # "none" =>
               /\ request'.customer = request.customer /\ request'.status # "none"
               /\ request'.operator \in {request.operator, NoOperator},
           \A u \in Users : lock[u] # NoProc /\ ~Blocking(u) => ~Blocking(u)',
           \A o \in Operators : Clear(o) => Clear(o)'
    PROVE  IInv'
<1>1. Tables' /\ Handlers' /\ MembersAreAlive' /\ HeldIsAlive'
  BY DEF IInv, Tables, Handlers, accounts, storage, running, MembersAreAlive,
         LiveUser, LiveOperator, HeldIsAlive, IsDeleted
<1>2. ASSUME NEW p \in Procs
      PROVE  Holds(p)'
  <2>1. proc'[p] = proc[p] /\ \A row \in Rows : lock[row] = p => lock'[row] = p
    BY DEF running
  <2>2. \A u \in Users : NoLiveTeam(u)' <=> NoLiveTeam(u)
    BY DEF NoLiveTeam, LiveOperator, accounts
  <2>3. \A u \in Users : lock[u] = p /\ ~Blocking(u) => ~Blocking(u)'
    BY NameAssumption
  <2> QED
    BY <2>1, <2>2, <2>3, StillHolds
<1> QED
  BY <1>1, <1>2 DEF IInv

LEMMA RequestMovesOnStep ==
    ASSUME IInv, RequestMovesOn
    PROVE  IInv'
<1> DEFINE Goal ==
      /\ request' \in Requests
      /\ RequestBegins' /\ NewWorkGoesToTheLiving' /\ NothingOwedIsDeleted'
      /\ request.status # "none" =>
            /\ request'.customer = request.customer /\ request'.status # "none"
            /\ request'.operator \in {request.operator, NoOperator}
      /\ \A u \in Users : lock[u] # NoProc /\ ~Blocking(u) => ~Blocking(u)'
      /\ \A o \in Operators : Clear(o) => Clear(o)'
<1>0. /\ request \in Requests /\ RequestBegins
      /\ NewWorkGoesToTheLiving /\ NothingOwedIsDeleted /\ HeldIsAlive
      /\ NoUser \notin Users /\ NoOperator \notin Operators
      /\ Users \subseteq Rows /\ Operators \subseteq Rows
      /\ UNCHANGED <<accounts, storage, running>>
  BY NameAssumption
  DEF IInv, Tables, Rows, RequestMovesOn, Writes, CreateRequest, DisputeUnassigned,
      CreateRefund, DepositSettles, DepositFails, DepositExpires, JobSettles,
      CancelRequest, ResolveDispute, ClaimSettlement, RefundSettles, PayoutSucceeds
<1> USE DEF RequestBegins, NewWorkGoesToTheLiving, NothingOwedIsDeleted, Blocking,
            Clear, Open, Paid, LiveOperator, Writes, accounts
<1>1. CASE CreateRequest
  <2>1. PICK u \in Users : /\ Lockable(u) /\ request.status = "none"
                           /\ request' = [NoRequest EXCEPT !.status = "DISPATCHING", !.customer = u]
    BY <1>1 DEF CreateRequest
  <2>2. /\ request' \in Requests /\ request'.status = "DISPATCHING"
        /\ request'.customer = u /\ request'.operator = NoOperator
        /\ request'.deposit = "none" /\ request'.refund = "none" /\ ~request'.disputed
    BY <2>1 DEF NoRequest, Requests, Statuses
  <2>3. lock[u] = NoProc /\ user[u] # "deleted"
    BY <2>1 DEF Lockable, IsDeleted
  <2>4. Goal
    BY <1>0, <2>1, <2>2, <2>3
  <2> QED
    BY <1>0, <2>4, RequestStep
<1>2. CASE DisputeUnassigned
  <2>1. /\ request.status # "none" /\ request.operator = NoOperator
        /\ lock[request.customer] = NoProc /\ user[request.customer] # "deleted"
        /\ request.customer \in Users
    BY <1>0, <1>2 DEF DisputeUnassigned, Lockable, IsDeleted
  <2>2. /\ request' \in Requests /\ request'.status # "none"
        /\ request'.customer = request.customer /\ request'.operator = NoOperator
    BY <1>0, <1>2, <2>1 DEF DisputeUnassigned, Disputed, Requests, Statuses
  <2>3. Goal
    BY <1>0, <2>1, <2>2
  <2> QED
    BY <1>0, <2>3, RequestStep
<1>3. CASE CreateRefund
  <2>1. /\ request.status = "CANCELLED" /\ request.customer \in Users
        /\ lock[request.customer] = NoProc /\ user[request.customer] # "deleted"
        /\ request' = [request EXCEPT !.refund = "live"]
    BY <1>0, <1>3 DEF CreateRefund, Lockable, IsDeleted
  <2>2. Goal
    BY <1>0, <2>1 DEF Requests, Statuses
  <2> QED
    BY <1>0, <2>2, RequestStep
<1>4. CASE DepositSettles
  <2>1. Goal
    BY <1>0, <1>4 DEF DepositSettles, Requests, Statuses
  <2> QED
    BY <1>0, <2>1, RequestStep
<1>5. CASE DepositFails \/ RefundSettles
  <2>1. Goal
    BY <1>0, <1>5 DEF DepositFails, RefundSettles, Requests, Statuses
  <2> QED
    BY <1>0, <2>1, RequestStep
<1>6. CASE DepositExpires
  <2>1. /\ request.status = "ASSIGNED" /\ ~Paid /\ request' \in Requests
        /\ request' = [request EXCEPT !.status = "DISPATCHING", !.operator = NoOperator]
    BY <1>0, <1>6 DEF DepositExpires, Requests, Statuses
  <2>2. Goal
    BY <1>0, <2>1 DEF Requests
  <2> QED
    BY <1>0, <2>2, RequestStep
<1>9. CASE JobSettles
  <2>1. Goal
    BY <1>0, <1>9 DEF JobSettles, Requests, Statuses
  <2> QED
    BY <1>0, <2>1, RequestStep
<1>7. CASE CancelRequest \/ ResolveDispute
  <2>1. Goal
    BY <1>0, <1>7 DEF CancelRequest, ResolveDispute, Requests, Statuses
  <2> QED
    BY <1>0, <2>1, RequestStep
<1>8. CASE ClaimSettlement \/ PayoutSucceeds
  <2>1. Goal
    BY <1>0, <1>8 DEF ClaimSettlement, PayoutSucceeds, Requests, Statuses
  <2> QED
    BY <1>0, <2>1, RequestStep
<1> QED
  BY <1>1, <1>2, <1>3, <1>4, <1>5, <1>6, <1>7, <1>8, <1>9 DEF RequestMovesOn

-----------------------------------------------------------------------------
(* A transaction of q that writes and commits.                             *)
LEMMA CommitStep ==
    ASSUME IInv, NEW q \in Procs, NEW x \in Locals, x.op \in {"idle", "eraseMedia"},
           proc' = [proc EXCEPT ![q] = x], lock' = Released(q),
           Tables', HeldIsAlive', RequestBegins',
           NewWorkGoesToTheLiving', NothingOwedIsDeleted', MembersAreAlive',
           request.status # "none" =>
               /\ request'.customer = request.customer /\ request'.status # "none"
               /\ lock[request.customer] \notin {q, NoProc} =>
                     request'.operator \in {request.operator, NoOperator},
           \A u \in Users : lock[u] \notin {q, NoProc} =>
               /\ NoLiveTeam(u) => NoLiveTeam(u)'
               /\ ~Blocking(u) => ~Blocking(u)',
           \A o \in Operators : lock[o] \notin {q, NoProc} /\ Clear(o) => Clear(o)'
    PROVE  IInv'
<1>1. Handlers' /\ proc'[q] = x /\ LockMoves(q)
  BY EndMoves DEF IInv, Handlers
<1>2. Holds(q)'
  BY <1>1 DEF Holds, DeletesUser, DeletesOperator, AddsMember, Assigns, Disputes
<1>3. ASSUME NEW p \in Procs, p # q
      PROVE  Holds(p)'
  <2>1. proc'[p] = proc[p] /\ p \notin {q, NoProc}
    BY <1>3, NameAssumption DEF IInv, Handlers
  <2>2. \A row \in Rows : lock[row] = p => lock'[row] = p
    BY <1>1, <1>3, OthersKeepTheirs
  <2> QED
    BY <2>1, <2>2, StillHolds
<1> QED
  BY <1>1, <1>2, <1>3 DEF IInv

LEMMA ReleasedIsAlive ==
    ASSUME IInv, NEW q \in Procs, lock' = Released(q), UNCHANGED accounts
    PROVE  HeldIsAlive'
  BY DEF IInv, HeldIsAlive, Released, accounts, IsDeleted

LEMMA AssignOperatorStep ==
    ASSUME IInv, NEW q \in Procs, AssignOperator(q)
    PROVE  IInv'
<1> DEFINE o == proc[q].at
           assigned == [request EXCEPT !.status = "ASSIGNED", !.deposit = "live",
                                       !.operator = o]
<1>1. /\ proc[q].op = "assign" /\ Len(proc[q].todo) = 1 /\ Lockable(proc[q].todo[1])
      /\ request' = assigned \/ request' = request
      /\ lock' = Released(q) /\ proc' = [proc EXCEPT ![q] = Idle]
      /\ UNCHANGED <<accounts, storage>>
  BY DEF AssignOperator, Locks, End
<1>2. /\ o \in Operators /\ request.customer \in Users /\ request.status # "none"
      /\ proc[q].todo = <<o>> /\ lock[request.customer] = q
  <2>1. \A a, b : proc[q].todo # <<a, b>>
    <3> SUFFICES ASSUME NEW a, NEW b, proc[q].todo = <<a, b>> PROVE FALSE
      OBVIOUS
    <3> QED
      BY <1>1, ShortSequences
  <2> QED
    BY <1>1, <2>1 DEF IInv, Holds, Assigns
<1>3. lock[o] = NoProc /\ LiveOperator(o) /\ user[request.customer] # "deleted"
  <2>1. proc[q].todo[1] = o /\ o \notin Users
    BY <1>2, ShortSequences, NameAssumption
  <2>2. lock[o] = NoProc /\ operator[o] # "deleted"
    BY <1>1, <2>1 DEF Lockable, IsDeleted
  <2>3. operator[o] \in {"live", "deleted"}
    BY <1>2 DEF IInv, Tables
  <2>4. user[request.customer] # "deleted"
    BY <1>2, NameAssumption DEF IInv, HeldIsAlive, IsDeleted, Rows
  <2> QED
    BY <2>2, <2>3, <2>4 DEF LiveOperator
<1>4. request \in Requests /\ NoOperator \notin Operators /\ RequestBegins
      /\ NewWorkGoesToTheLiving /\ NothingOwedIsDeleted
  BY NameAssumption DEF IInv, Tables
<1> HIDE DEF o
<1>5. assigned \in Requests /\ assigned.status = "ASSIGNED" /\ assigned.deposit = "live"
      /\ assigned.operator = o /\ assigned.customer = request.customer
      /\ assigned.refund = request.refund /\ assigned.disputed = request.disputed
  BY <1>2, <1>4 DEF Requests, Statuses
<1> HIDE DEF assigned
<1>6. Tables' /\ HeldIsAlive' /\ RequestBegins' /\ MembersAreAlive'
  BY <1>1, <1>2, <1>4, <1>5, ReleasedIsAlive
  DEF IInv, Tables, accounts, storage, RequestBegins, MembersAreAlive, LiveUser, LiveOperator
<1>7. NewWorkGoesToTheLiving' /\ NothingOwedIsDeleted'
  BY <1>1, <1>2, <1>3, <1>4, <1>5
  DEF accounts, NewWorkGoesToTheLiving, NothingOwedIsDeleted, Open, LiveOperator
<1>8. request'.customer = request.customer /\ request'.status # "none"
  BY <1>1, <1>2, <1>5
<1>9. \A u \in Users : lock[u] \notin {q, NoProc} =>
               /\ NoLiveTeam(u) => NoLiveTeam(u)'
               /\ ~Blocking(u) => ~Blocking(u)'
  BY <1>1, <1>2, <1>8 DEF NoLiveTeam, LiveOperator, accounts, Blocking
<1>10. \A w \in Operators : lock[w] \notin {q, NoProc} /\ Clear(w) => Clear(w)'
  BY <1>1, <1>3, <1>5 DEF Clear, Open
<1> QED
  BY <1>1, <1>2, <1>6, <1>7, <1>8, <1>9, <1>10, IdleHolds, CommitStep DEF Idle

LEMMA RaiseDisputeStep ==
    ASSUME IInv, NEW q \in Procs, RaiseDispute(q)
    PROVE  IInv'
<1>1. /\ proc[q].op = "dispute" /\ Lockable(proc[q].todo[1]) /\ request' = Disputed
      /\ lock' = Released(q) /\ proc' = [proc EXCEPT ![q] = Idle]
      /\ UNCHANGED <<accounts, storage>>
  BY DEF RaiseDispute, Locks, End
<1>2. PICK o \in Operators : /\ proc[q].todo = <<o>>
                             /\ request.operator \in {o, NoOperator}
  BY <1>1 DEF IInv, Holds, Disputes
<1>3. /\ request.customer \in Users /\ request.status # "none"
      /\ lock[request.customer] = q
  BY <1>1 DEF IInv, Holds, Disputes
<1>4. lock[o] = NoProc /\ LiveOperator(o) /\ user[request.customer] # "deleted"
  <2>1. proc[q].todo[1] = o /\ o \notin Users
    BY <1>2, ShortSequences, NameAssumption
  <2>2. lock[o] = NoProc /\ operator[o] # "deleted"
    BY <1>1, <2>1 DEF Lockable, IsDeleted
  <2>3. operator[o] \in {"live", "deleted"}
    BY <1>2 DEF IInv, Tables
  <2>4. user[request.customer] # "deleted"
    BY <1>3, NameAssumption DEF IInv, HeldIsAlive, IsDeleted, Rows
  <2> QED
    BY <2>2, <2>3, <2>4 DEF LiveOperator
<1>5. request \in Requests /\ NoOperator \notin Operators /\ RequestBegins
      /\ NewWorkGoesToTheLiving /\ NothingOwedIsDeleted
  BY NameAssumption DEF IInv, Tables
<1>6. /\ request' \in Requests /\ request'.status # "none"
      /\ request'.customer = request.customer /\ request'.operator = request.operator
      /\ request'.deposit = request.deposit /\ request'.refund = request.refund
      /\ request'.payout = request.payout /\ request'.settled = request.settled
  BY <1>1, <1>3, <1>5 DEF Disputed, Requests, Statuses
<1>7. Tables' /\ HeldIsAlive' /\ RequestBegins' /\ MembersAreAlive'
  BY <1>1, <1>3, <1>5, <1>6, ReleasedIsAlive
  DEF IInv, Tables, accounts, storage, RequestBegins, MembersAreAlive, LiveUser, LiveOperator
<1>8. NewWorkGoesToTheLiving' /\ NothingOwedIsDeleted'
  BY <1>1, <1>2, <1>3, <1>4, <1>5, <1>6
  DEF accounts, NewWorkGoesToTheLiving, NothingOwedIsDeleted, Open, LiveOperator
<1>9. \A u \in Users : lock[u] \notin {q, NoProc} =>
               /\ NoLiveTeam(u) => NoLiveTeam(u)'
               /\ ~Blocking(u) => ~Blocking(u)'
  BY <1>1, <1>3, <1>6 DEF NoLiveTeam, LiveOperator, accounts, Blocking
<1>10. \A w \in Operators : lock[w] \notin {q, NoProc} /\ Clear(w) => Clear(w)'
  BY <1>2, <1>4, <1>5, <1>6 DEF Clear
<1> QED
  BY <1>1, <1>3, <1>6, <1>7, <1>8, <1>9, <1>10, IdleHolds, CommitStep DEF Idle

(* A change of the team: no row but members, and nobody joins who is held  *)
(* by another, or deleted.                                                 *)
LEMMA TeamStep ==
    ASSUME IInv, NEW q \in Procs, End(q),
           UNCHANGED <<user, operator, request, storage>>,
           members' \subseteq Users \X Operators \X {"OWNER", "STAFF"},
           \A m \in members' \ members : lock[m[1]] = NoProc /\ LiveUser(m[1])
    PROVE  IInv'
<1>1. lock' = Released(q) /\ proc' = [proc EXCEPT ![q] = Idle]
  BY DEF End
<1>2. Tables' /\ HeldIsAlive' /\ RequestBegins'
  BY <1>1 DEF IInv, Tables, HeldIsAlive, RequestBegins, storage, Released, IsDeleted
<1>3. NewWorkGoesToTheLiving' /\ NothingOwedIsDeleted'
  BY DEF IInv, NewWorkGoesToTheLiving, NothingOwedIsDeleted, Open, LiveOperator
<1>4. MembersAreAlive'
  BY DEF IInv, MembersAreAlive, LiveUser, LiveOperator
<1>5. \A u \in Users : lock[u] \notin {q, NoProc} =>
               /\ NoLiveTeam(u) => NoLiveTeam(u)'
               /\ ~Blocking(u) => ~Blocking(u)'
  BY DEF NoLiveTeam, LiveOperator, Blocking, Open
<1>6. \A o \in Operators : Clear(o) => Clear(o)'
  BY DEF Clear, Open
<1> QED
  BY <1>1, <1>2, <1>3, <1>4, <1>5, <1>6, IdleHolds, CommitStep DEF Idle

LEMMA AddMemberStep ==
    ASSUME IInv, NEW q \in Procs, AddMember(q)
    PROVE  IInv'
<1> DEFINE u == proc[q].target
<1>1. /\ proc[q].op = "addMember" /\ Len(proc[q].todo) = 1 /\ Lockable(proc[q].todo[1])
      /\ End(q) /\ UNCHANGED <<user, operator, request, storage>>
  BY DEF AddMember, Locks
<1>2. u \in Users /\ proc[q].at \in Operators /\ proc[q].todo[1] = u
  BY <1>1 DEF IInv, Holds, AddsMember, EndsWith
<1>3. lock[u] = NoProc /\ LiveUser(u)
  <2>1. lock[u] = NoProc /\ user[u] # "deleted"
    BY <1>1, <1>2 DEF Lockable, IsDeleted
  <2> QED
    BY <1>2, <2>1 DEF IInv, Tables, LiveUser
<1>4. CASE members' = members
  BY <1>1, <1>4, TeamStep DEF IInv, Tables
<1>5. CASE members' # members
  <2>1. PICK role \in {"OWNER", "STAFF"} :
          members' = members \cup {<<u, proc[q].at, role>>}
    BY <1>5 DEF AddMember
  <2> DEFINE new == <<u, proc[q].at, role>>
  <2>2. new \in Users \X Operators \X {"OWNER", "STAFF"} /\ new[1] = u
    BY <1>2
  <2> HIDE DEF new
  <2>3. members' \ members \subseteq {new}
    BY <2>1 DEF new
  <2>4. members' \subseteq Users \X Operators \X {"OWNER", "STAFF"}
    BY <2>1, <2>2 DEF IInv, Tables, new
  <2> QED
    BY <1>1, <1>3, <2>2, <2>3, <2>4, TeamStep
<1> QED
  BY <1>4, <1>5

LEMMA RemoveMemberStep ==
    ASSUME IInv, NEW q \in Procs, RemoveMember(q)
    PROVE  IInv'
<1>1. End(q) /\ UNCHANGED <<user, operator, request, storage>> /\ members' \subseteq members
  BY DEF RemoveMember
<1> QED
  BY <1>1, TeamStep DEF IInv, Tables

(* How a deletion ends: its media queued, its locks released.              *)
LEMMA QueuedMedia ==
    ASSUME IInv, NEW q \in Procs, NEW objects \in SUBSET media, QueueMedia(q, objects)
    PROVE  /\ lock' = Released(q) /\ media' \subseteq Objects /\ outbox' \subseteq Objects
           /\ \E x \in Locals : /\ x.op \in {"idle", "eraseMedia"}
                                /\ proc' = [proc EXCEPT ![q] = x]
<1> DEFINE x == [Idle EXCEPT !.op = "eraseMedia", !.keys = objects]
<1>1. objects \subseteq Objects
  BY DEF IInv, Tables
<1>2. x \in Locals
  BY <1>1, IdleHolds DEF Locals, Ops
<1>3. x.op = "eraseMedia" /\ Idle.op = "idle"
  BY DEF Idle
<1>4. proc' = [proc EXCEPT ![q] = Idle] \/ proc' = [proc EXCEPT ![q] = x]
  BY DEF QueueMedia
<1> HIDE DEF x
<1>5. lock' = Released(q) /\ media' \subseteq Objects /\ outbox' \subseteq Objects
  BY <1>1 DEF QueueMedia, IInv, Tables
<1> QED
  BY <1>2, <1>3, <1>4, <1>5, IdleHolds

(* A deletion that commits: of the accounts it takes, it holds every row,  *)
(* none has business of its own, and the teams they are in go with them.   *)
LEMMA DeletionStep ==
    ASSUME IInv, NEW q \in Procs, NEW us \in SUBSET Users, NEW os \in SUBSET Operators,
           NEW objects \in SUBSET media, QueueMedia(q, objects), AnonymizeUsers(us),
           operator' \in [Operators -> {"live", "deleted"}],
           \A o \in Operators : operator'[o] = IF o \in os THEN "deleted" ELSE operator[o],
           UNCHANGED <<members, request>>,
           \A u \in us : lock[u] = q /\ ~Blocking(u),
           \A u \in us, m \in members : m[1] = u /\ LiveOperator(m[2]) => m[2] \in os,
           \A o \in os : lock[o] = q /\ Clear(o)
    PROVE  IInv'
<1>1. PICK x \in Locals : /\ x.op \in {"idle", "eraseMedia"}
                          /\ proc' = [proc EXCEPT ![q] = x]
  BY QueuedMedia
<1>2. lock' = Released(q) /\ media' \subseteq Objects /\ outbox' \subseteq Objects
  BY QueuedMedia
<1>3. /\ user' \in [Users -> Roles \cup {"deleted"}]
      /\ \A u \in Users : user'[u] = IF u \in us THEN "deleted" ELSE user[u]
  BY DEF AnonymizeUsers, IInv, Tables
<1>4. Tables' /\ RequestBegins'
  BY <1>2, <1>3 DEF IInv, Tables, RequestBegins
<1>5. HeldIsAlive'
  <2> SUFFICES ASSUME NEW row \in Rows, lock'[row] # NoProc
               PROVE  ~IsDeleted(row)'
    BY DEF HeldIsAlive
  <2>1. lock[row] \notin {q, NoProc} /\ row \notin us /\ row \notin os
    BY <1>2 DEF Released
  <2>2. ~IsDeleted(row)
    BY <2>1 DEF IInv, HeldIsAlive
  <2> QED
    BY <1>3, <2>1, <2>2 DEF Rows, IsDeleted
<1>6. NewWorkGoesToTheLiving'
  <2>1. request.customer \in Users \/ request.status = "none"
    BY DEF IInv, RequestBegins
  <2>2. CASE request.status = "none"
    <3>1. /\ ~Open /\ ~request.disputed
          /\ "live" \notin {request.deposit, request.refund}
      BY <2>2 DEF IInv, RequestBegins, Open
    <3> QED
      BY <3>1 DEF NewWorkGoesToTheLiving, Open
  <2>3. CASE request.customer \in Users
    BY <1>3, <2>3 DEF IInv, NewWorkGoesToTheLiving, Blocking, Open, Clear, LiveOperator
  <2> QED
    BY <2>1, <2>2, <2>3
<1>7. NothingOwedIsDeleted'
  BY DEF IInv, NothingOwedIsDeleted, Clear, LiveOperator
<1>8. MembersAreAlive'
  <2> SUFFICES ASSUME NEW m \in members, operator'[m[2]] = "live"
               PROVE  user'[m[1]] \in Roles
    BY DEF MembersAreAlive, LiveOperator, LiveUser
  <2>1. m[1] \in Users /\ m[2] \in Operators
    BY DEF IInv, Tables
  <2>2. LiveOperator(m[2]) /\ m[2] \notin os
    BY <2>1 DEF LiveOperator
  <2>3. user[m[1]] \in Roles /\ m[1] \notin us
    BY <2>2 DEF IInv, MembersAreAlive, LiveUser
  <2> QED
    BY <1>3, <2>1, <2>3
<1>9. \A u \in Users : /\ NoLiveTeam(u) => NoLiveTeam(u)'
                       /\ ~Blocking(u) => ~Blocking(u)'
  BY DEF NoLiveTeam, LiveOperator, Blocking, Open, IInv, Tables
<1>10. \A o \in Operators : Clear(o) => Clear(o)'
  BY DEF Clear, Open
<1> QED
  BY <1>1, <1>2, <1>4, <1>5, <1>6, <1>7, <1>8, <1>9, <1>10, CommitStep

LEMMA DeleteUserStep ==
    ASSUME IInv, NEW q \in Procs, DeleteUser(q)
    PROVE  IInv'
<1> DEFINE u == proc[q].who
           objects == CustomersMedia({u})
<1>1. /\ proc[q].op = "deleteUser" /\ AnonymizeUsers({u}) /\ QueueMedia(q, objects)
      /\ UNCHANGED <<operator, members, request>>
  BY DEF DeleteUser
<1>2. u \in Users /\ lock[u] = q /\ NoLiveTeam(u) /\ ~Blocking(u)
  BY <1>1 DEF IInv, Holds, DeletesUser
<1>3. objects \in SUBSET media
  BY DEF CustomersMedia
<1> HIDE DEF u, objects
<1>4. {u} \in SUBSET Users /\ {} \in SUBSET Operators
  BY <1>2
<1>5. \A m \in members : m[1] = u => ~LiveOperator(m[2])
  BY <1>2 DEF NoLiveTeam
<1>6. operator' \in [Operators -> {"live", "deleted"}]
  BY <1>1 DEF IInv, Tables
<1> QED
  BY <1>1, <1>2, <1>3, <1>4, <1>5, <1>6, DeletionStep

LEMMA DeleteOperatorStep ==
    ASSUME IInv, NEW q \in Procs, DeleteOperator(q)
    PROVE  IInv'
<1> DEFINE o == proc[q].at
           objects == OperatorsMedia(o) \cup CustomersMedia(Cascaded(q))
<1>1. /\ proc[q].op = "deleteOperator" /\ proc[q].todo = << >>
      /\ \A u \in Cascaded(q) : ~Blocking(u)
      /\ operator' = [operator EXCEPT ![o] = "deleted"]
      /\ AnonymizeUsers(Cascaded(q)) /\ QueueMedia(q, objects)
      /\ UNCHANGED <<members, request>>
  BY DEF DeleteOperator, TeamMayGo
<1>2. o \in Operators /\ lock[o] = q /\ Clear(o)
  BY <1>1 DEF IInv, Holds, DeletesOperator
<1>3. objects \in SUBSET media
  BY DEF OperatorsMedia, CustomersMedia
<1>4. Cascaded(q) \in SUBSET Users
  BY DEF Cascaded, TeamOf, IInv, Tables
<1>5. \A u \in Cascaded(q) : lock[u] = q /\ ~Blocking(u)
  BY <1>1 DEF Cascaded
<1>6. \A u \in Cascaded(q), m \in members : m[1] = u /\ LiveOperator(m[2]) => m[2] \in {o}
  BY DEF Cascaded, LiveTeamsOf
<1> HIDE DEF o, objects
<1>7. /\ operator' \in [Operators -> {"live", "deleted"}]
      /\ \A w \in Operators : operator'[w] = IF w \in {o} THEN "deleted" ELSE operator[w]
  BY <1>1, <1>2 DEF IInv, Tables
<1>8. {o} \in SUBSET Operators /\ \A w \in {o} : lock[w] = q /\ Clear(w)
  BY <1>2
<1> DEFINE us == Cascaded(q)
           os == {o}
<1>9. /\ us \in SUBSET Users /\ os \in SUBSET Operators /\ AnonymizeUsers(us)
      /\ \A w \in Operators : operator'[w] = IF w \in os THEN "deleted" ELSE operator[w]
      /\ \A u \in us : lock[u] = q /\ ~Blocking(u)
      /\ \A u \in us, m \in members : m[1] = u /\ LiveOperator(m[2]) => m[2] \in os
      /\ \A w \in os : lock[w] = q /\ Clear(w)
  BY <1>1, <1>4, <1>5, <1>6, <1>7, <1>8
<1> HIDE DEF us, os
<1> QED
  BY <1>1, <1>3, <1>7, <1>9, DeletionStep

(* Steps that touch nothing the invariant is about.                        *)
LEMMA ElsewhereStep ==
    ASSUME IInv, UNCHANGED <<accounts, request, running, outbox>>, media' \subseteq Objects
    PROVE  IInv'
<1>1. Tables' /\ Handlers' /\ MembersAreAlive' /\ HeldIsAlive' /\ RequestBegins'
  BY DEF IInv, Tables, Handlers, accounts, running, MembersAreAlive,
         LiveUser, LiveOperator, HeldIsAlive, IsDeleted, RequestBegins
<1>2. NewWorkGoesToTheLiving' /\ NothingOwedIsDeleted'
  BY DEF IInv, accounts, NewWorkGoesToTheLiving, NothingOwedIsDeleted, Open, LiveOperator
<1>3. ASSUME NEW p \in Procs
      PROVE  Holds(p)'
  <2>1. proc'[p] = proc[p] /\ \A row \in Rows : lock[row] = p => lock'[row] = p
    BY DEF running
  <2>2. /\ \A u \in Users : NoLiveTeam(u)' <=> NoLiveTeam(u)
        /\ \A u \in Users : Blocking(u)' <=> Blocking(u)
        /\ \A o \in Operators : Clear(o)' <=> Clear(o)
    BY DEF NoLiveTeam, LiveOperator, accounts, Blocking, Clear, Open
  <2> QED
    BY <2>1, <2>2, StillHolds
<1> QED
  BY <1>1, <1>2, <1>3 DEF IInv

-----------------------------------------------------------------------------
LEMMA InitHolds == Init => IInv
<1> SUFFICES ASSUME Init PROVE IInv
  OBVIOUS
<1>1. NoRequest \in Requests
  BY DEF NoRequest, Requests, Statuses
<1>2. /\ request.status = "none" /\ request.operator = NoOperator /\ ~request.disputed
      /\ request.deposit = "none" /\ request.refund = "none"
  BY DEF Init, NoRequest
<1>3. members \subseteq Users \X Operators \X {"OWNER", "STAFF"}
  BY OwnerAssumption DEF Init
<1>4. user \in [Users -> Roles \cup {"deleted"}] /\ operator \in [Operators -> {"live", "deleted"}]
  BY DEF Init
<1>5. Tables /\ RequestBegins
  BY <1>1, <1>2, <1>3, <1>4 DEF Init, Tables, RequestBegins
<1>6. Handlers /\ HeldIsAlive
  BY IdleHolds DEF Init, Handlers, HeldIsAlive
<1>7. NewWorkGoesToTheLiving /\ NothingOwedIsDeleted
  BY <1>2, NameAssumption DEF NewWorkGoesToTheLiving, NothingOwedIsDeleted, Open
<1>8. MembersAreAlive
  <2>1. \A m \in members : m[1] \in Users
    BY <1>3
  <2> QED
    BY <2>1 DEF Init, MembersAreAlive, LiveUser
<1>9. \A p \in Procs : proc[p].op = "idle"
  BY DEF Init, Idle
<1>10. \A p \in Procs : Holds(p)
  BY <1>9 DEF Holds, DeletesUser, DeletesOperator, AddsMember, Assigns, Disputes
<1> QED
  BY <1>5, <1>6, <1>7, <1>8, <1>10 DEF IInv

LEMMA NextHolds == IInv /\ [Next]_vars => IInv'
<1> SUFFICES ASSUME IInv, [Next]_vars PROVE IInv'
  OBVIOUS
<1>1. CASE UNCHANGED vars
  BY <1>1, ElsewhereStep DEF vars, accounts, storage, running, IInv, Tables
<1>2. CASE RequestMovesOn
  BY <1>2, RequestMovesOnStep
<1>3. CASE CaptureMedia
  BY <1>3, ElsewhereStep DEF CaptureMedia, IInv, Tables
<1>4. ASSUME NEW p \in Procs, LockRow(p) \/ FindRowDeleted(p) \/ RollBack(p)
      PROVE  IInv'
  BY <1>4, LockRowStep, RefuseStep DEF FindRowDeleted, RollBack
<1>5. ASSUME NEW p \in Procs, BeginTeamChange(p) \/ AddMember(p) \/ RemoveMember(p)
      PROVE  IInv'
  BY <1>5, BeginTeamChangeStep, AddMemberStep, RemoveMemberStep
<1>6. ASSUME NEW p \in Procs,
             BeginAssign(p) \/ AssignOperator(p) \/ BeginDispute(p) \/ RaiseDispute(p)
      PROVE  IInv'
  BY <1>6, BeginAssignStep, AssignOperatorStep, BeginDisputeStep, RaiseDisputeStep
<1>7. ASSUME NEW p \in Procs, CheckUser(p) \/ DeleteUser(p)
      PROVE  IInv'
  BY <1>7, CheckUserStep, DeleteUserStep
<1>8. ASSUME NEW p \in Procs,
             BeginDeleteOperator(p) \/ CheckOperator(p) \/ DeleteOperator(p)
      PROVE  IInv'
  BY <1>8, BeginDeleteOperatorStep, CheckOperatorStep, DeleteOperatorStep
<1>9. ASSUME NEW p \in Procs,
             BeginRetry(p) \/ EraseObject(p) \/ ObjectStays(p) \/ EraseRow(p)
      PROVE  IInv'
  BY <1>9, EraseSteps
<1> QED
  BY <1>1, <1>2, <1>3, <1>4, <1>5, <1>6, <1>7, <1>8, <1>9 DEF Next

(* Whoever holds a row knows what it looked at to be true still, and the   *)
(* three invariants below go along.                                        *)
THEOREM LocksHold == AccountsSpec => []IInv
<1>1. Init => IInv
  BY InitHolds
<1>2. IInv /\ [Next]_vars => IInv'
  BY NextHolds
<1> QED
  BY <1>1, <1>2, PTL DEF AccountsSpec

(* However assignments, disputes, refunds and deletions interleave, no     *)
(* open or disputed request and no money under way is left to a deleted    *)
(* party: the two-row lock of assignOperator and raiseDispute against the  *)
(* checks account-deletion.service.ts makes under the same locks.          *)
THEOREM NewWorkAlwaysGoesToTheLiving == AccountsSpec => []NewWorkGoesToTheLiving
<1>1. IInv => NewWorkGoesToTheLiving
  BY DEF IInv
<1> QED
  BY <1>1, LocksHold, PTL

(* deleteOperator never takes an operator with a paid job neither paid out *)
(* nor settled, although payouts and settlements move without its lock.    *)
THEOREM NothingOwedIsEverDeleted == AccountsSpec => []NothingOwedIsDeleted
<1>1. IInv => NothingOwedIsDeleted
  BY DEF IInv
<1> QED
  BY <1>1, LocksHold, PTL

(* addMember's lock on the user it adds, and deleteUser's and              *)
(* deleteOperator's on theirs, keep the dead out of every live team.       *)
THEOREM MembersStayAlive == AccountsSpec => []MembersAreAlive
<1>1. IInv => MembersAreAlive
  BY DEF IInv
<1> QED
  BY <1>1, LocksHold, PTL

-----------------------------------------------------------------------------
(* Erased media: what a handler is still to erase was taken on, and what   *)
(* it has erased stays erased, as no key is used twice.                    *)
ErasesWhatIsQueued(p) ==
    proc[p].op = "eraseMedia" =>
        /\ proc[p].keys \subseteq erased
        /\ proc[p].seen # << >> => proc[p].seen[1] \in erased \ stored

MediaInv ==
    /\ erased \subseteq Objects /\ outbox \subseteq erased
    /\ ErasedMediaIsQueued
    /\ \A p \in Procs : ErasesWhatIsQueued(p)

(* A step that leaves S3 and the outbox alone.                             *)
LEMMA MediaUntouched ==
    ASSUME MediaInv, UNCHANGED <<stored, outbox, erased>>,
           \A p \in Procs : \/ proc'[p].op # "eraseMedia"
                            \/ /\ proc[p].op = "eraseMedia" /\ proc'[p].keys = proc[p].keys
                               /\ proc'[p].seen = proc[p].seen
    PROVE  MediaInv'
  BY DEF MediaInv, ErasedMediaIsQueued, ErasesWhatIsQueued

(* A transaction moves on to x, which erases nothing unless it did.        *)
LEMMA TransactionMedia ==
    ASSUME IInv, MediaInv, NEW q \in Procs, NEW x, UNCHANGED <<stored, outbox, erased>>,
           proc' = [proc EXCEPT ![q] = x], x.op # "eraseMedia"
    PROVE  MediaInv'
<1>1. \A p \in Procs : proc'[p] = IF p = q THEN x ELSE proc[p]
  BY DEF IInv, Handlers
<1> QED
  BY <1>1, MediaUntouched

LEMMA EndMedia ==
    ASSUME IInv, MediaInv, NEW q \in Procs, UNCHANGED storage,
           proc' = [proc EXCEPT ![q] = Idle]
    PROVE  MediaInv'
<1>1. Idle.op # "eraseMedia" /\ UNCHANGED <<stored, outbox, erased>>
  BY DEF Idle, storage
<1> QED
  BY <1>1, TransactionMedia

LEMMA TransactionsMedia ==
    ASSUME IInv, MediaInv, NEW q \in Procs,
           \/ LockRow(q) \/ FindRowDeleted(q) \/ RollBack(q)
           \/ BeginTeamChange(q) \/ AddMember(q) \/ RemoveMember(q)
           \/ BeginAssign(q) \/ AssignOperator(q) \/ BeginDispute(q) \/ RaiseDispute(q)
           \/ CheckUser(q) \/ BeginDeleteOperator(q) \/ CheckOperator(q)
    PROVE  MediaInv'
<1>0. proc[q] \in Locals /\ \A p \in Procs : p # q => proc'[p] = proc[p]
  BY DEF IInv, Handlers, LockRow, FindRowDeleted, RollBack, BeginTeamChange, AddMember,
         RemoveMember, BeginAssign, AssignOperator, BeginDispute, RaiseDispute,
         CheckUser, BeginDeleteOperator, CheckOperator, Begins, Refuse, End
<1>1. CASE LockRow(q)
  <2> DEFINE x == [proc[q] EXCEPT !.todo = Tail(@)]
  <2>1. proc'[q] = x /\ UNCHANGED <<stored, outbox, erased>>
    BY <1>1 DEF LockRow, IInv, Handlers, storage
  <2>2. x.op = proc[q].op /\ x.keys = proc[q].keys /\ x.seen = proc[q].seen
    BY <1>0 DEF Locals
  <2> QED
    BY <1>0, <2>1, <2>2, MediaUntouched
<1>2. CASE FindRowDeleted(q) \/ RollBack(q)
  BY <1>2, EndMedia DEF FindRowDeleted, RollBack, Refuse, End
<1>3. CASE AddMember(q) \/ RemoveMember(q) \/ AssignOperator(q) \/ RaiseDispute(q)
  BY <1>3, EndMedia DEF AddMember, RemoveMember, AssignOperator, RaiseDispute, End
<1>4. CASE BeginTeamChange(q)
  <2>1. PICK o \in Operators, actor \in Users \cup {Staff}, u \in Users :
          LET change == [Idle EXCEPT !.who = actor, !.at = o, !.target = u]
          IN  \/ Begins(q, [change EXCEPT !.op = "addMember",
                                          !.todo = RowsToAdd(actor, o, u)])
              \/ Begins(q, [change EXCEPT !.op = "removeMember",
                                          !.todo = LocksOf(actor, o)])
    BY <1>4 DEF BeginTeamChange
  <2> DEFINE a == [[Idle EXCEPT !.who = actor, !.at = o, !.target = u]
                      EXCEPT !.op = "addMember", !.todo = RowsToAdd(actor, o, u)]
             r == [[Idle EXCEPT !.who = actor, !.at = o, !.target = u]
                      EXCEPT !.op = "removeMember", !.todo = LocksOf(actor, o)]
  <2>2. a.op # "eraseMedia" /\ r.op # "eraseMedia"
    BY DEF Idle
  <2>3. proc' = [proc EXCEPT ![q] = a] \/ proc' = [proc EXCEPT ![q] = r]
    BY <2>1 DEF Begins
  <2> HIDE DEF a, r
  <2> QED
    BY <1>4, <2>2, <2>3, TransactionMedia DEF BeginTeamChange, storage
<1>5. CASE BeginAssign(q)
  <2>1. PICK o \in Operators :
          Begins(q, [Idle EXCEPT !.op = "assign", !.at = o,
                        !.todo = <<request.customer, o>>,
                        !.seen = <<request.status, request.operator>>])
    BY <1>5 DEF BeginAssign
  <2> DEFINE x == [Idle EXCEPT !.op = "assign", !.at = o,
                       !.todo = <<request.customer, o>>,
                       !.seen = <<request.status, request.operator>>]
  <2>2. x.op # "eraseMedia" /\ proc' = [proc EXCEPT ![q] = x]
    BY <2>1 DEF Idle, Begins
  <2> HIDE DEF x
  <2> QED
    BY <1>5, <2>2, TransactionMedia DEF BeginAssign, storage
<1>6. CASE BeginDispute(q)
  <2> DEFINE x == [Idle EXCEPT !.op = "dispute", !.todo = <<request.operator>>]
  <2>1. x.op # "eraseMedia" /\ proc' = [proc EXCEPT ![q] = x]
    BY <1>6 DEF Idle, Begins, BeginDispute
  <2> HIDE DEF x
  <2> QED
    BY <1>6, <2>1, TransactionMedia DEF BeginDispute, storage
<1>7. CASE CheckUser(q)
  <2>1. PICK u \in Users : Begins(q, [Idle EXCEPT !.op = "deleteUser", !.who = u])
    BY <1>7 DEF CheckUser
  <2> DEFINE x == [Idle EXCEPT !.op = "deleteUser", !.who = u]
  <2>2. x.op # "eraseMedia" /\ proc' = [proc EXCEPT ![q] = x]
    BY <2>1 DEF Idle, Begins
  <2> HIDE DEF x
  <2> QED
    BY <1>7, <2>2, TransactionMedia DEF CheckUser, storage
<1>8. CASE BeginDeleteOperator(q)
  <2>0. PICK o \in Operators : \E rows \in InIdOrder(TeamOf(o)) :
          Begins(q, [Idle EXCEPT !.op = "deleteOperator", !.at = o,
                                 !.team = TeamOf(o), !.todo = rows \o <<o>>])
    BY <1>8 DEF BeginDeleteOperator
  <2>1. PICK rows \in InIdOrder(TeamOf(o)) :
          Begins(q, [Idle EXCEPT !.op = "deleteOperator", !.at = o,
                                 !.team = TeamOf(o), !.todo = rows \o <<o>>])
    BY <2>0
  <2> DEFINE x == [Idle EXCEPT !.op = "deleteOperator", !.at = o,
                               !.team = TeamOf(o), !.todo = rows \o <<o>>]
  <2>2. x.op # "eraseMedia" /\ proc' = [proc EXCEPT ![q] = x]
    BY <2>1 DEF Idle, Begins
  <2> HIDE DEF x
  <2> QED
    BY <1>8, <2>2, TransactionMedia DEF BeginDeleteOperator, storage
<1>9. CASE CheckOperator(q)
  <2> DEFINE x == [proc[q] EXCEPT !.todo = << >>]
  <2>1. UNCHANGED storage /\ proc[q].op = "deleteOperator"
        /\ (proc' = [proc EXCEPT ![q] = x] \/ proc' = [proc EXCEPT ![q] = Idle])
    BY <1>9 DEF CheckOperator, Locks, End
  <2>2. x.op # "eraseMedia"
    BY <1>0, <2>1 DEF Locals
  <2> HIDE DEF x
  <2> QED
    BY <2>1, <2>2, EndMedia, TransactionMedia DEF storage
<1> QED
  BY <1>1, <1>2, <1>3, <1>4, <1>5, <1>6, <1>7, <1>8, <1>9

(* A deletion takes media on and queues it in the same transaction.        *)
LEMMA QueueMediaStep ==
    ASSUME IInv, MediaInv, NEW q \in Procs, NEW objects \in SUBSET media,
           QueueMedia(q, objects)
    PROVE  MediaInv'
<1> DEFINE x == [Idle EXCEPT !.op = "eraseMedia", !.keys = objects]
<1>1. objects \subseteq Objects
  BY DEF IInv, Tables
<1>2. /\ outbox' = outbox \cup objects /\ erased' = erased \cup objects
      /\ stored' = stored
      /\ proc' = [proc EXCEPT ![q] = Idle] \/ proc' = [proc EXCEPT ![q] = x]
  BY DEF QueueMedia
<1>3. Idle.op # "eraseMedia" /\ x.keys = objects /\ x.seen = << >>
  BY DEF Idle
<1> HIDE DEF x
<1>4. \A p \in Procs : ErasesWhatIsQueued(p)'
  <2> SUFFICES ASSUME NEW p \in Procs PROVE ErasesWhatIsQueued(p)'
    OBVIOUS
  <2>0. proc'[p] \in {Idle, x, proc[p]} /\ (p # q => proc'[p] = proc[p])
        /\ (p = q => proc'[p] \in {Idle, x})
    BY <1>2 DEF IInv, Handlers
  <2>1. CASE proc'[p] = x \/ proc'[p] = Idle
    BY <1>2, <1>3, <2>1 DEF ErasesWhatIsQueued
  <2>2. CASE proc'[p] = proc[p]
    <3>1. ErasesWhatIsQueued(p)
      BY DEF MediaInv
    <3> QED
      BY <1>1, <1>2, <2>2, <3>1 DEF ErasesWhatIsQueued
  <2> QED
    BY <2>0, <2>1, <2>2
<1> QED
  BY <1>1, <1>2, <1>4 DEF MediaInv, ErasedMediaIsQueued

(* S3 and then the outbox: the row goes after its object only.             *)
LEMMA EraseMediaSteps ==
    ASSUME IInv, MediaInv, NEW q \in Procs,
           BeginRetry(q) \/ EraseObject(q) \/ ObjectStays(q) \/ EraseRow(q)
    PROVE  MediaInv'
<1>0. /\ proc[q] \in Locals /\ Idle.op # "eraseMedia" /\ outbox \subseteq Objects
      /\ \A p \in Procs : ErasesWhatIsQueued(p)
      /\ erased \subseteq Objects /\ outbox \subseteq erased /\ ErasedMediaIsQueued
  BY DEF IInv, Handlers, Tables, Idle, MediaInv
<1> DEFINE Others == \A p \in Procs : p # q => proc'[p] = proc[p]
<1>1. CASE EraseObject(q)
  <2>1. PICK object \in proc[q].keys :
          /\ stored' = stored \ {object}
          /\ Erasing(q, [proc[q] EXCEPT !.keys = @ \ {object}, !.seen = <<object>>])
    BY <1>1 DEF EraseObject
  <2> DEFINE x == [proc[q] EXCEPT !.keys = @ \ {object}, !.seen = <<object>>]
  <2>2. x.keys \subseteq proc[q].keys /\ x.seen = <<object>> /\ x.seen[1] = object
    BY <1>0 DEF Locals
  <2>3. /\ proc'[q] = x \/ proc'[q] = Idle
        /\ Others
    BY <2>1 DEF Erasing, IInv, Handlers
  <2> HIDE DEF x
  <2>4. proc[q].op = "eraseMedia" /\ UNCHANGED <<outbox, erased>> /\ object \in erased
    BY <1>0, <1>1, <2>1 DEF EraseObject, ErasesWhatIsQueued
  <2>5. \A p \in Procs : ErasesWhatIsQueued(p)'
    BY <1>0, <2>1, <2>2, <2>3, <2>4 DEF ErasesWhatIsQueued
  <2> QED
    BY <1>0, <2>1, <2>4, <2>5 DEF MediaInv, ErasedMediaIsQueued
<1>2. CASE ObjectStays(q)
  <2>1. PICK object \in proc[q].keys :
          Erasing(q, [proc[q] EXCEPT !.keys = @ \ {object}])
    BY <1>2 DEF ObjectStays
  <2> DEFINE x == [proc[q] EXCEPT !.keys = @ \ {object}]
  <2>2. x.keys \subseteq proc[q].keys /\ x.seen = proc[q].seen
    BY <1>0 DEF Locals
  <2>3. /\ proc'[q] = x \/ proc'[q] = Idle
        /\ Others
    BY <2>1 DEF Erasing, IInv, Handlers
  <2> HIDE DEF x
  <2>4. proc[q].op = "eraseMedia" /\ UNCHANGED <<stored, outbox, erased>>
    BY <1>2 DEF ObjectStays, storage
  <2>5. \A p \in Procs : ErasesWhatIsQueued(p)'
    BY <1>0, <2>2, <2>3, <2>4 DEF ErasesWhatIsQueued
  <2> QED
    BY <1>0, <2>4, <2>5 DEF MediaInv, ErasedMediaIsQueued
<1>3. CASE EraseRow(q)
  <2> DEFINE x == [proc[q] EXCEPT !.seen = << >>]
  <2>1. x.keys = proc[q].keys /\ x.seen = << >>
    BY <1>0 DEF Locals
  <2>2. /\ proc'[q] = x \/ proc'[q] = Idle
        /\ Others
    BY <1>3 DEF EraseRow, Erasing, IInv, Handlers
  <2> HIDE DEF x
  <2>3. /\ proc[q].op = "eraseMedia" /\ proc[q].seen[1] \in erased \ stored
        /\ outbox' = outbox \ {proc[q].seen[1]} /\ UNCHANGED <<stored, erased>>
    BY <1>0, <1>3 DEF EraseRow, ErasesWhatIsQueued
  <2>4. \A p \in Procs : ErasesWhatIsQueued(p)'
    BY <1>0, <2>1, <2>2, <2>3 DEF ErasesWhatIsQueued
  <2>5. ErasedMediaIsQueued'
    BY <1>0, <2>3 DEF ErasedMediaIsQueued
  <2> QED
    BY <1>0, <2>3, <2>4, <2>5 DEF MediaInv
<1>4. CASE BeginRetry(q)
  <2> DEFINE x == [Idle EXCEPT !.op = "eraseMedia", !.keys = outbox]
  <2>1. x.keys = outbox /\ x.seen = << >>
    BY DEF Idle
  <2>2. proc'[q] = x /\ Others /\ UNCHANGED <<stored, outbox, erased>>
    BY <1>4 DEF BeginRetry, Begins, IInv, Handlers, storage
  <2> HIDE DEF x
  <2>3. \A p \in Procs : ErasesWhatIsQueued(p)'
    BY <1>0, <2>1, <2>2 DEF ErasesWhatIsQueued
  <2> QED
    BY <1>0, <2>2, <2>3 DEF MediaInv, ErasedMediaIsQueued
<1> QED
  BY <1>1, <1>2, <1>3, <1>4

LEMMA MediaNext == IInv /\ MediaInv /\ [Next]_vars => MediaInv'
<1> SUFFICES ASSUME IInv, MediaInv, [Next]_vars PROVE MediaInv'
  OBVIOUS
<1>1. CASE UNCHANGED vars \/ RequestMovesOn
  <2>1. UNCHANGED <<storage, running>>
    BY <1>1
    DEF vars, RequestMovesOn, Writes, CreateRequest, DisputeUnassigned,
        CreateRefund, DepositSettles, DepositFails, DepositExpires, JobSettles,
        CancelRequest, ResolveDispute, ClaimSettlement, RefundSettles, PayoutSucceeds
  <2> QED
    BY <2>1, MediaUntouched DEF storage, running
<1>2. CASE CaptureMedia
  BY <1>2 DEF CaptureMedia, MediaInv, ErasedMediaIsQueued, ErasesWhatIsQueued, running
<1>3. ASSUME NEW p \in Procs,
             \/ LockRow(p) \/ FindRowDeleted(p) \/ RollBack(p)
             \/ BeginTeamChange(p) \/ AddMember(p) \/ RemoveMember(p)
             \/ BeginAssign(p) \/ AssignOperator(p) \/ BeginDispute(p) \/ RaiseDispute(p)
             \/ CheckUser(p) \/ BeginDeleteOperator(p) \/ CheckOperator(p)
      PROVE  MediaInv'
  BY <1>3, TransactionsMedia
<1>4. ASSUME NEW p \in Procs, DeleteUser(p)
      PROVE  MediaInv'
  <2> DEFINE objects == CustomersMedia({proc[p].who})
  <2>1. objects \in SUBSET media /\ QueueMedia(p, objects)
    BY <1>4 DEF CustomersMedia, DeleteUser
  <2> HIDE DEF objects
  <2> QED
    BY <2>1, QueueMediaStep
<1>5. ASSUME NEW p \in Procs, DeleteOperator(p)
      PROVE  MediaInv'
  <2> DEFINE objects == OperatorsMedia(proc[p].at) \cup CustomersMedia(Cascaded(p))
  <2>1. objects \in SUBSET media /\ QueueMedia(p, objects)
    BY <1>5 DEF CustomersMedia, OperatorsMedia, DeleteOperator
  <2> HIDE DEF objects
  <2> QED
    BY <2>1, QueueMediaStep
<1>6. ASSUME NEW p \in Procs,
             BeginRetry(p) \/ EraseObject(p) \/ ObjectStays(p) \/ EraseRow(p)
      PROVE  MediaInv'
  BY <1>6, EraseMediaSteps
<1> QED
  BY <1>1, <1>2, <1>3, <1>4, <1>5, <1>6 DEF Next

(* What deleteUser and deleteOperator take on is gone from S3 or still in  *)
(* the outbox, whoever dies between the two and whatever S3 refuses, with  *)
(* any number of retries at it at once.                                    *)
THEOREM ErasedMediaIsAlwaysQueued == AccountsSpec => []ErasedMediaIsQueued
<1>1. Init => MediaInv
  BY DEF Init, MediaInv, ErasedMediaIsQueued, ErasesWhatIsQueued, Idle
<1>2. IInv /\ MediaInv /\ [Next]_vars => MediaInv'
  BY MediaNext
<1>3. MediaInv => ErasedMediaIsQueued
  BY DEF MediaInv
<1> QED
  BY <1>1, <1>2, <1>3, LocksHold, PTL DEF AccountsSpec

-----------------------------------------------------------------------------
(* The members a deletion read are, each of them, still to be locked, held,*)
(* or deleted.                                                             *)
ToLock(s, u) == \E i \in 1..Len(s) : s[i] = u

HasTheTeam(p) ==
    proc[p].op = "deleteOperator" =>
        \A u \in proc[p].team :
            ToLock(proc[p].todo, u) \/ lock[u] = p \/ user[u] = "deleted"

TeamInv == \A p \in Procs : HasTheTeam(p)

(* Steps that leave a handler what it holds, and nobody back to life.      *)
LEMMA TeamKept ==
    ASSUME IInv, NEW p \in Procs, HasTheTeam(p), proc'[p] = proc[p],
           \A row \in Rows : lock[row] = p => lock'[row] = p,
           \A u \in Users : user[u] = "deleted" => user'[u] = "deleted"
    PROVE  HasTheTeam(p)'
<1>1. proc[p].team \subseteq Users /\ Users \subseteq Rows
  BY DEF IInv, Handlers, Locals, Rows
<1> QED
  BY <1>1 DEF HasTheTeam

(* The rows in id order are the whole team.                                *)
LEMMA WholeTeamInOrder ==
    ASSUME IInv, NEW o \in Operators, NEW rows \in InIdOrder(TeamOf(o)),
           NEW u \in TeamOf(o)
    PROVE  ToLock(rows \o <<o>>, u)
<1> DEFINE team == TeamOf(o)
           n == Cardinality(team)
<1>1. team \subseteq Users
  BY DEF IInv, Tables, TeamOf
<1>2. IsFiniteSet(team) /\ n \in Nat
  BY <1>1, UserOrder, FS_Subset, FS_CardinalityType
<1>3. rows \in [1..n -> team] /\ \A i, j \in 1..n : i < j => rows[i] < rows[j]
  BY DEF InIdOrder
<1>4. u \in team
  OBVIOUS
<1>11. team \subseteq Nat
  BY <1>1, UserOrder
<1> HIDE DEF team
<1>5. \E i \in 1..n : rows[i] = u
  <2> SUFFICES ASSUME \A i \in 1..n : rows[i] # u PROVE FALSE
    OBVIOUS
  <2>1. rows \in [1..n -> team \ {u}]
    BY <1>3
  <2>2. IsFiniteSet(team \ {u}) /\ Cardinality(team \ {u}) = n - 1
    BY <1>2, <1>4, FS_RemoveElement
  <2>3. IsFiniteSet(1..n) /\ Cardinality(1..n) = n
    BY <1>2, FS_Interval
  <2>4. Cardinality(team \ {u}) < Cardinality(1..n)
    BY <1>2, <2>2, <2>3
  <2> DEFINE S == 1..n
             T == team \ {u}
  <2>9. IsFiniteSet(S) /\ IsFiniteSet(T) /\ Cardinality(T) < Cardinality(S)
        /\ rows \in [S -> T]
    BY <2>1, <2>2, <2>3, <2>4
  <2> HIDE DEF S, T
  <2>10. \E i, j \in S : i # j /\ rows[i] = rows[j]
    BY <2>9, FS_PigeonHole
  <2>5. \E i, j \in 1..n : i # j /\ rows[i] = rows[j]
    BY <2>10 DEF S
  <2> HIDE DEF n
  <2>6. PICK i, j \in 1..n : i # j /\ rows[i] = rows[j]
    BY <2>5
  <2>11. rows[i] \in team /\ rows[j] \in team
    BY <1>3
  <2>7. rows[i] \in Nat /\ rows[j] \in Nat
    BY <1>11, <2>11
  <2>12. i < j \/ j < i
    <3>1. i \in Int /\ j \in Int
      BY <1>2
    <3> QED
      BY <2>6, <3>1
  <2>8. rows[i] < rows[j] \/ rows[j] < rows[i]
    BY <1>3, <2>12
  <2> QED
    BY <2>6, <2>7, <2>8
<1>6. PICK i \in 1..n : rows[i] = u
  BY <1>5
<1>7. rows \in Seq(Rows) /\ Len(rows) = n
  <2>1. rows \in [1..n -> Rows]
    BY <1>1, <1>3 DEF Rows
  <2> QED
    BY <1>2, <2>1
<1>8. <<o>> \in Seq(Rows) /\ Len(<<o>>) = 1
  BY DEF Rows
<1> HIDE DEF n
<1>9. /\ Len(rows \o <<o>>) = n + 1
      /\ \A k \in 1..n + 1 : (rows \o <<o>>)[k] = IF k <= n THEN rows[k] ELSE <<o>>[k - n]
  BY <1>7, <1>8, ConcatProperties
<1>10. i \in 1..n + 1 /\ i <= n
  BY <1>2
<1> QED
  BY <1>6, <1>9, <1>10 DEF ToLock

(* A handler that goes on to x, which is no deletion of an operator.       *)
LEMMA TeamElsewhere ==
    ASSUME IInv, TeamInv, NEW q \in Procs, NEW x, x.op # "deleteOperator",
           proc' = [proc EXCEPT ![q] = x], LockMoves(q),
           \A u \in Users : user[u] = "deleted" => user'[u] = "deleted"
    PROVE  TeamInv'
<1> SUFFICES ASSUME NEW p \in Procs PROVE HasTheTeam(p)'
  BY DEF TeamInv
<1>1. CASE p = q
  BY <1>1 DEF IInv, Handlers, HasTheTeam
<1>2. CASE p # q
  <2>1. proc'[p] = proc[p] /\ \A row \in Rows : lock[row] = p => lock'[row] = p
    BY <1>2, OthersKeepTheirs DEF IInv, Handlers
  <2> QED
    BY <2>1, TeamKept DEF TeamInv
<1> QED
  BY <1>1, <1>2

LEMMA TeamEnd ==
    ASSUME IInv, TeamInv, NEW q \in Procs, End(q), UNCHANGED user
    PROVE  TeamInv'
<1>1. lock' = Released(q) /\ proc' = [proc EXCEPT ![q] = Idle] /\ Idle.op = "idle"
  BY DEF End, Idle
<1> QED
  BY <1>1, EndMoves, TeamElsewhere

(* A lock more: the row at hand is held now, or was deleted.               *)
LEMMA ShorterList ==
    ASSUME NEW S, NEW s \in Seq(S), Len(s) > 1, NEW u, ToLock(s, u)
    PROVE  u = Head(s) \/ ToLock(Tail(s), u)
<1>1. Len(s) \in Nat /\ s # << >>
  BY LenProperties, EmptySeq
<1>2. /\ Head(s) = s[1] /\ Len(Tail(s)) = Len(s) - 1
      /\ \A i \in 1..Len(Tail(s)) : Tail(s)[i] = s[i + 1]
  BY <1>1, HeadTailProperties
<1>3. PICK i \in 1..Len(s) : s[i] = u
  BY DEF ToLock
<1>4. CASE i = 1
  BY <1>2, <1>3, <1>4
<1>5. CASE i # 1
  <2>1. i - 1 \in 1..Len(Tail(s)) /\ (i - 1) + 1 = i
    BY <1>1, <1>2, <1>5
  <2> QED
    BY <1>2, <1>3, <2>1 DEF ToLock
<1> QED
  BY <1>4, <1>5

LEMMA TeamLockRow ==
    ASSUME IInv, TeamInv, NEW q \in Procs, LockRow(q)
    PROVE  TeamInv'
<1> DEFINE row == Head(proc[q].todo)
           x == [proc[q] EXCEPT !.todo = Tail(@)]
<1>1. /\ proc[q] \in Locals /\ Len(proc[q].todo) > 1 /\ lock[row] = NoProc
      /\ lock' = IF IsDeleted(row) THEN lock ELSE [lock EXCEPT ![row] = q]
      /\ proc' = [proc EXCEPT ![q] = x] /\ UNCHANGED user
  BY DEF LockRow, IInv, Handlers, accounts
<1>2. proc[q].todo \in Seq(Rows) /\ row \in Rows
  <2>1. proc[q].todo \in Seq(Rows)
    BY <1>1 DEF Locals
  <2> QED
    BY <1>1, <2>1, TailEnds
<1>3. x.op = proc[q].op /\ x.team = proc[q].team /\ x.todo = Tail(proc[q].todo)
      /\ proc[q].team \subseteq Users
  BY <1>1 DEF Locals
<1>4. \A p \in Procs : proc'[p] = IF p = q THEN x ELSE proc[p]
  BY <1>1 DEF IInv, Handlers
<1> HIDE DEF x
<1>5. /\ \A r \in Rows : lock[r] # NoProc => lock'[r] = lock[r]
      /\ IsDeleted(row) \/ lock'[row] = q
  BY <1>1, <1>2 DEF IInv, Handlers
<1>6. HasTheTeam(q)'
  <2>0. /\ proc'[q].op = proc[q].op /\ proc'[q].team = proc[q].team
        /\ proc'[q].todo = Tail(proc[q].todo)
    BY <1>3, <1>4
  <2> SUFFICES ASSUME proc[q].op = "deleteOperator", NEW u \in proc[q].team
               PROVE  \/ ToLock(proc'[q].todo, u) \/ lock'[u] = q
                      \/ user[u] = "deleted"
    BY <1>1, <2>0 DEF HasTheTeam, ToLock
  <2>1. u \in Users /\ u \in Rows
    BY <1>3 DEF Rows
  <2>2. ToLock(proc[q].todo, u) \/ lock[u] = q \/ user[u] = "deleted"
    BY DEF TeamInv, HasTheTeam
  <2>3. CASE ToLock(proc[q].todo, u)
    <3>1. u = row \/ ToLock(Tail(proc[q].todo), u)
      BY <1>1, <1>2, <2>3, ShorterList
    <3> QED
      BY <1>5, <2>0, <2>1, <3>1 DEF IsDeleted
  <2>4. CASE lock[u] = q
    BY <1>5, <2>1, <2>4, NameAssumption
  <2> QED
    BY <2>2, <2>3, <2>4
<1>7. ASSUME NEW p \in Procs, p # q
      PROVE  HasTheTeam(p)'
  <2>1. \A r \in Rows : lock[r] = p => lock'[r] = p
    BY <1>5, NameAssumption
  <2> QED
    BY <1>1, <1>4, <1>7, <2>1, TeamKept DEF TeamInv
<1> QED
  BY <1>6, <1>7 DEF TeamInv

LEMMA TeamBeginDelete ==
    ASSUME IInv, TeamInv, NEW q \in Procs, BeginDeleteOperator(q)
    PROVE  TeamInv'
<1>1. PICK o \in Operators : \E rows \in InIdOrder(TeamOf(o)) :
        Begins(q, [Idle EXCEPT !.op = "deleteOperator", !.at = o,
                               !.team = TeamOf(o), !.todo = rows \o <<o>>])
  BY DEF BeginDeleteOperator
<1>2. PICK rows \in InIdOrder(TeamOf(o)) :
        Begins(q, [Idle EXCEPT !.op = "deleteOperator", !.at = o,
                               !.team = TeamOf(o), !.todo = rows \o <<o>>])
  BY <1>1
<1> DEFINE todo == rows \o <<o>>
           x == [Idle EXCEPT !.op = "deleteOperator", !.at = o,
                             !.team = TeamOf(o), !.todo = todo]
<1>3. proc' = [proc EXCEPT ![q] = x] /\ UNCHANGED <<accounts, lock>>
  BY <1>2 DEF Begins, BeginDeleteOperator
<1>4. \A u \in TeamOf(o) : ToLock(todo, u)
  BY WholeTeamInOrder
<1> HIDE DEF todo
<1>5. x.team = TeamOf(o) /\ x.todo = todo
  BY DEF Idle
<1> HIDE DEF x
<1>6. \A p \in Procs : proc'[p] = IF p = q THEN x ELSE proc[p]
  BY <1>3 DEF IInv, Handlers
<1>7. HasTheTeam(q)'
  BY <1>4, <1>5, <1>6 DEF HasTheTeam, ToLock
<1>8. ASSUME NEW p \in Procs, p # q
      PROVE  HasTheTeam(p)'
  BY <1>3, <1>6, <1>8, TeamKept DEF TeamInv, accounts
<1> QED
  BY <1>7, <1>8 DEF TeamInv

LEMMA TeamCheckOperator ==
    ASSUME IInv, TeamInv, NEW q \in Procs, CheckOperator(q)
    PROVE  TeamInv'
<1>1. CASE ~OperatorMayGo(proc[q].at)
  BY <1>1, TeamEnd DEF CheckOperator, accounts
<1>2. CASE OperatorMayGo(proc[q].at)
  <2> DEFINE x == [proc[q] EXCEPT !.todo = << >>]
  <2>1. /\ proc[q].op = "deleteOperator" /\ Len(proc[q].todo) = 1
        /\ Lockable(proc[q].todo[1]) /\ proc[q] \in Locals
        /\ proc' = [proc EXCEPT ![q] = x]
        /\ lock' = [lock EXCEPT ![proc[q].at] = q] /\ UNCHANGED accounts
    BY <1>2 DEF CheckOperator, Locks, IInv, Handlers
  <2>2. x.op = proc[q].op /\ x.team = proc[q].team /\ proc[q].team \subseteq Users
    BY <2>1 DEF Locals
  <2>3. \A p \in Procs : proc'[p] = IF p = q THEN x ELSE proc[p]
    BY <2>1 DEF IInv, Handlers
  <2> HIDE DEF x
  <2>4. proc[q].at \in Operators /\ proc[q].todo[1] = proc[q].at
    <3>1. proc[q].todo # << >>
      BY <2>1, ShortSequences
    <3> QED
      BY <2>1, <3>1 DEF IInv, Holds, DeletesOperator, EndsWith
  <2>5. lock[proc[q].at] = NoProc
    BY <2>1, <2>4 DEF Lockable
  <2>6. \A r \in Rows : lock[r] # NoProc => lock'[r] = lock[r]
    BY <2>1, <2>5 DEF IInv, Handlers
  <2>7. HasTheTeam(q)'
    <3> SUFFICES ASSUME NEW u \in proc[q].team
                 PROVE  lock'[u] = q \/ user[u] = "deleted"
      BY <2>1, <2>2, <2>3 DEF HasTheTeam, accounts
    <3>1. u \in Users /\ u \in Rows /\ u # proc[q].at
      BY <2>2, <2>4, NameAssumption DEF Rows
    <3>2. ~ToLock(proc[q].todo, u)
      BY <2>1, <2>4, <3>1 DEF ToLock
    <3>3. lock[u] = q \/ user[u] = "deleted"
      BY <2>1, <3>2 DEF TeamInv, HasTheTeam
    <3> QED
      BY <2>6, <3>1, <3>3, NameAssumption
  <2>8. ASSUME NEW p \in Procs, p # q
        PROVE  HasTheTeam(p)'
    <3>1. \A r \in Rows : lock[r] = p => lock'[r] = p
      BY <2>6, NameAssumption
    <3> QED
      BY <2>1, <2>3, <2>8, <3>1, TeamKept DEF TeamInv, accounts
  <2> QED
    BY <2>7, <2>8 DEF TeamInv
<1> QED
  BY <1>1, <1>2

LEMMA TeamBegins ==
    ASSUME IInv, TeamInv, NEW q \in Procs,
           BeginTeamChange(q) \/ BeginAssign(q) \/ BeginDispute(q) \/ CheckUser(q)
    PROVE  TeamInv'
<1>0. UNCHANGED user
  BY DEF BeginTeamChange, BeginAssign, BeginDispute, CheckUser, accounts
<1>1. CASE BeginTeamChange(q)
  <2>1. PICK o \in Operators, actor \in Users \cup {Staff}, u \in Users :
          LET change == [Idle EXCEPT !.who = actor, !.at = o, !.target = u]
          IN  \/ Begins(q, [change EXCEPT !.op = "addMember",
                                          !.todo = RowsToAdd(actor, o, u)])
              \/ Begins(q, [change EXCEPT !.op = "removeMember",
                                          !.todo = LocksOf(actor, o)])
    BY <1>1 DEF BeginTeamChange
  <2> DEFINE a == [[Idle EXCEPT !.who = actor, !.at = o, !.target = u]
                      EXCEPT !.op = "addMember", !.todo = RowsToAdd(actor, o, u)]
             r == [[Idle EXCEPT !.who = actor, !.at = o, !.target = u]
                      EXCEPT !.op = "removeMember", !.todo = LocksOf(actor, o)]
  <2>2. a.op # "deleteOperator" /\ r.op # "deleteOperator"
    BY DEF Idle
  <2>3. proc' = [proc EXCEPT ![q] = a] \/ proc' = [proc EXCEPT ![q] = r]
    BY <2>1 DEF Begins
  <2> HIDE DEF a, r
  <2> QED
    BY <1>0, <1>1, <2>2, <2>3, Unlocked, TeamElsewhere DEF BeginTeamChange
<1>2. CASE BeginAssign(q)
  <2>1. PICK o \in Operators :
          Begins(q, [Idle EXCEPT !.op = "assign", !.at = o,
                        !.todo = <<request.customer, o>>,
                        !.seen = <<request.status, request.operator>>])
    BY <1>2 DEF BeginAssign
  <2> DEFINE x == [Idle EXCEPT !.op = "assign", !.at = o,
                       !.todo = <<request.customer, o>>,
                       !.seen = <<request.status, request.operator>>]
  <2>2. x.op # "deleteOperator" /\ proc' = [proc EXCEPT ![q] = x]
    BY <2>1 DEF Idle, Begins
  <2> HIDE DEF x
  <2> QED
    BY <1>0, <1>2, <2>2, Unlocked, TeamElsewhere DEF BeginAssign
<1>3. CASE BeginDispute(q)
  <2> DEFINE x == [Idle EXCEPT !.op = "dispute", !.todo = <<request.operator>>]
  <2>1. x.op # "deleteOperator" /\ proc' = [proc EXCEPT ![q] = x]
    BY <1>3 DEF Idle, Begins, BeginDispute
  <2> HIDE DEF x
  <2>2. request.customer \in Rows
    BY <1>3, NameAssumption DEF BeginDispute, IInv, RequestBegins, Rows
  <2> QED
    BY <1>0, <1>3, <2>1, <2>2, LockOne, TeamElsewhere DEF BeginDispute
<1>4. CASE CheckUser(q)
  <2>1. PICK u \in Users :
          /\ Lockable(u) /\ lock' = [lock EXCEPT ![u] = q]
          /\ Begins(q, [Idle EXCEPT !.op = "deleteUser", !.who = u])
    BY <1>4 DEF CheckUser
  <2> DEFINE x == [Idle EXCEPT !.op = "deleteUser", !.who = u]
  <2>2. x.op # "deleteOperator" /\ proc' = [proc EXCEPT ![q] = x]
    BY <2>1 DEF Idle, Begins
  <2> HIDE DEF x
  <2>3. u \in Rows
    BY DEF Rows
  <2> QED
    BY <1>0, <2>1, <2>2, <2>3, LockOne, TeamElsewhere
<1> QED
  BY <1>1, <1>2, <1>3, <1>4

(* A deletion that commits goes on to its media.                           *)
LEMMA TeamQueue ==
    ASSUME IInv, TeamInv, NEW q \in Procs, NEW objects \in SUBSET media,
           QueueMedia(q, objects), NEW us, AnonymizeUsers(us)
    PROVE  TeamInv'
<1>1. PICK x \in Locals : /\ x.op \in {"idle", "eraseMedia"}
                          /\ proc' = [proc EXCEPT ![q] = x]
  BY QueuedMedia
<1>2. LockMoves(q)
  BY QueuedMedia, EndMoves
<1>3. \A u \in Users : user[u] = "deleted" => user'[u] = "deleted"
  BY DEF AnonymizeUsers
<1> QED
  BY <1>1, <1>2, <1>3, TeamElsewhere

LEMMA TeamErase ==
    ASSUME IInv, TeamInv, NEW q \in Procs,
           BeginRetry(q) \/ EraseObject(q) \/ ObjectStays(q) \/ EraseRow(q)
    PROVE  TeamInv'
<1>1. PICK x \in Locals : /\ x.op \in {"idle", "eraseMedia"}
                          /\ proc' = [proc EXCEPT ![q] = x]
  BY EraserGoesOn
<1>2. UNCHANGED <<user, lock>>
  BY DEF BeginRetry, EraseObject, ObjectStays, EraseRow, accounts
<1> QED
  BY <1>1, <1>2, Unlocked, TeamElsewhere

LEMMA TeamNext == IInv /\ TeamInv /\ [Next]_vars => TeamInv'
<1> SUFFICES ASSUME IInv, TeamInv, [Next]_vars PROVE TeamInv'
  OBVIOUS
<1>1. CASE UNCHANGED vars \/ RequestMovesOn \/ CaptureMedia
  <2>1. UNCHANGED <<accounts, running>>
    BY <1>1
    DEF vars, CaptureMedia, RequestMovesOn, Writes, CreateRequest, DisputeUnassigned,
        CreateRefund, DepositSettles, DepositFails, DepositExpires, JobSettles,
        CancelRequest, ResolveDispute, ClaimSettlement, RefundSettles, PayoutSucceeds
  <2> QED
    BY <2>1, TeamKept DEF TeamInv, accounts, running
<1>2. ASSUME NEW p \in Procs, LockRow(p)
      PROVE  TeamInv'
  BY <1>2, TeamLockRow
<1>3. ASSUME NEW p \in Procs,
             \/ FindRowDeleted(p) \/ RollBack(p) \/ AddMember(p) \/ RemoveMember(p)
             \/ AssignOperator(p) \/ RaiseDispute(p)
      PROVE  TeamInv'
  BY <1>3, TeamEnd DEF FindRowDeleted, RollBack, Refuse, AddMember, RemoveMember,
                       AssignOperator, RaiseDispute, accounts
<1>4. ASSUME NEW p \in Procs,
             BeginTeamChange(p) \/ BeginAssign(p) \/ BeginDispute(p) \/ CheckUser(p)
      PROVE  TeamInv'
  BY <1>4, TeamBegins
<1>5. ASSUME NEW p \in Procs, DeleteUser(p)
      PROVE  TeamInv'
  <2> DEFINE objects == CustomersMedia({proc[p].who})
             us == {proc[p].who}
  <2>1. objects \in SUBSET media /\ QueueMedia(p, objects) /\ AnonymizeUsers(us)
    BY <1>5 DEF CustomersMedia, DeleteUser
  <2> HIDE DEF objects, us
  <2> QED
    BY <2>1, TeamQueue
<1>6. ASSUME NEW p \in Procs, DeleteOperator(p)
      PROVE  TeamInv'
  <2> DEFINE objects == OperatorsMedia(proc[p].at) \cup CustomersMedia(Cascaded(p))
             us == Cascaded(p)
  <2>1. objects \in SUBSET media /\ QueueMedia(p, objects) /\ AnonymizeUsers(us)
    BY <1>6 DEF CustomersMedia, OperatorsMedia, DeleteOperator
  <2> HIDE DEF objects, us
  <2> QED
    BY <2>1, TeamQueue
<1>7. ASSUME NEW p \in Procs, BeginDeleteOperator(p) \/ CheckOperator(p)
      PROVE  TeamInv'
  BY <1>7, TeamBeginDelete, TeamCheckOperator
<1>8. ASSUME NEW p \in Procs,
             BeginRetry(p) \/ EraseObject(p) \/ ObjectStays(p) \/ EraseRow(p)
      PROVE  TeamInv'
  BY <1>8, TeamErase
<1> QED
  BY <1>1, <1>2, <1>3, <1>4, <1>5, <1>6, <1>7, <1>8 DEF Next

(* What the deletion of an operator does to its team.                      *)
TeamGoes ==
    \A o \in Operators : LiveOperator(o) /\ operator'[o] = "deleted" =>
        \A u \in TeamOf(o) : user[u] = "OPERATOR" /\ LiveTeamsOf(u) = {o}
                                 => user'[u] = "deleted"

LEMMA OnlyDeletionDeletes ==
    ASSUME [Next]_vars
    PROVE  UNCHANGED operator \/ \E p \in Procs : DeleteOperator(p)
  BY DEF Next, vars, accounts, LockRow, FindRowDeleted, RollBack, Refuse,
         BeginTeamChange, AddMember, RemoveMember, BeginAssign, AssignOperator,
         BeginDispute, RaiseDispute, CheckUser, DeleteUser, BeginDeleteOperator,
         CheckOperator, BeginRetry, EraseObject, ObjectStays, EraseRow,
         CaptureMedia, RequestMovesOn, Writes, CreateRequest, DisputeUnassigned,
         CreateRefund, DepositSettles, DepositFails, DepositExpires, JobSettles,
         CancelRequest, ResolveDispute, ClaimSettlement, RefundSettles, PayoutSucceeds

LEMMA TeamGoesStep == IInv /\ TeamInv /\ [Next]_vars => TeamGoes
<1> SUFFICES ASSUME IInv, TeamInv, [Next]_vars PROVE TeamGoes
  OBVIOUS
<1>1. CASE UNCHANGED operator
  BY <1>1 DEF TeamGoes, LiveOperator
<1>2. CASE \E p \in Procs : DeleteOperator(p)
  <2>1. PICK p \in Procs : DeleteOperator(p)
    BY <1>2
  <2>2. /\ proc[p].op = "deleteOperator" /\ proc[p].todo = << >>
        /\ TeamOf(proc[p].at) \subseteq proc[p].team
        /\ operator' = [operator EXCEPT ![proc[p].at] = "deleted"]
        /\ AnonymizeUsers(Cascaded(p))
    BY <2>1 DEF DeleteOperator, TeamMayGo
  <2> SUFFICES ASSUME NEW o \in Operators, LiveOperator(o), operator'[o] = "deleted",
                      NEW u \in TeamOf(o), user[u] = "OPERATOR", LiveTeamsOf(u) = {o}
               PROVE  user'[u] = "deleted"
    BY DEF TeamGoes
  <2>3. o = proc[p].at
    BY <2>2 DEF LiveOperator, IInv, Tables
  <2>4. ~ToLock(proc[p].todo, u)
    BY <2>2, ShortSequences DEF ToLock
  <2>5. lock[u] = p
    BY <2>2, <2>3, <2>4 DEF TeamInv, HasTheTeam
  <2>6. u \in Cascaded(p) /\ u \in Users
    BY <2>3, <2>5 DEF Cascaded, TeamOf, IInv, Tables
  <2> QED
    BY <2>2, <2>6 DEF AnonymizeUsers
<1> QED
  BY <1>1, <1>2, OnlyDeletionDeletes

(* deleteOperator deletes every account that had no other business than    *)
(* the team, because the members it read are the whole team when it        *)
(* commits, and it holds each of them that is not deleted.                 *)
THEOREM TeamAlwaysGoes == AccountsSpec => TeamGoesWithItsOperator
<1>1. Init => TeamInv
  BY DEF Init, TeamInv, HasTheTeam, Idle
<1>2. IInv /\ TeamInv /\ [Next]_vars => TeamInv'
  BY TeamNext
<1>3. IInv /\ TeamInv /\ [Next]_vars => [TeamGoes]_vars
  BY TeamGoesStep
<1>4. AccountsSpec => [][TeamGoes]_vars
  BY <1>1, <1>2, <1>3, LocksHold, PTL DEF AccountsSpec
<1>5. TeamGoesWithItsOperator <=> [][TeamGoes]_vars
  BY DEF TeamGoesWithItsOperator, TeamGoes
<1> QED
  BY <1>4, <1>5

=============================================================================
