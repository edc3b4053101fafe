--------------------------- MODULE DispatchProofs ---------------------------
(***************************************************************************)
(* Theorems about Dispatch, for every number of operators, offers, rounds, *)
(* expansions and manual offers.                                           *)
(*                                                                         *)
(* What a step may do is described once, by what it does to the request    *)
(* (RequestMove), to the rows (RowsGrow, TurnStep, BookMove, CarryMove,    *)
(* LeftMove) and to the answers under way (ReplyMove).  The invariants are *)
(* then proved of those few shapes, and not of every action again.         *)
(***************************************************************************)
EXTENDS Dispatch, FiniteSetTheorems, TLAPS

(* An ended row keeps its operator, batch and round.                       *)
LEMMA EndedRows ==
    ASSUME NEW rows \in Seq(Offer), NEW S, NEW s \in OfferStatuses
    PROVE  /\ Ended(rows, S, s) \in Seq(Offer)
           /\ Len(Ended(rows, S, s)) = Len(rows)
           /\ \A i \in 1 .. Len(rows) :
                 /\ Ended(rows, S, s)[i].status = IF i \in S THEN s ELSE rows[i].status
                 /\ Ended(rows, S, s)[i].left = IF i \in S THEN 0 ELSE rows[i].left
                 /\ Ended(rows, S, s)[i].batch = rows[i].batch
                 /\ Ended(rows, S, s)[i].round = rows[i].round
                 /\ i \notin S => Ended(rows, S, s)[i] = rows[i]
<1> DEFINE new == Ended(rows, S, s)
<1>1. \A i \in 1 .. Len(rows) : rows[i] \in Offer
    OBVIOUS
<1>2. /\ DOMAIN new = 1 .. Len(rows)
      /\ new = [i \in 1 .. Len(rows) |-> new[i]]
      /\ \A i \in 1 .. Len(rows) :
            new[i] = IF i \in S THEN [rows[i] EXCEPT !.status = s, !.left = 0] ELSE rows[i]
  <2>1. DOMAIN rows = 1 .. Len(rows)
    OBVIOUS
  <2>2. new = [i \in 1 .. Len(rows) |-> IF i \in S THEN [rows[i] EXCEPT !.status = s, !.left = 0]
                                         ELSE rows[i]]
    BY <2>1, Zenon DEF Ended
  <2> HIDE DEF new
  <2>3. QED
    BY <2>2, Zenon
<1>3. \A i \in 1 .. Len(rows) : [rows[i] EXCEPT !.status = s, !.left = 0] \in Offer
  <2>1. 0 \in 0 .. OfferTime
    BY TimeAssumption
  <2>2. ASSUME NEW r \in Offer PROVE [r EXCEPT !.status = s, !.left = 0] \in Offer
    BY <2>1 DEF Offer
  <2>3. QED
    BY <1>1, <2>2
<1>4. \A i \in 1 .. Len(rows) : new[i] \in Offer
    BY <1>1, <1>2, <1>3
<1> HIDE DEF new
<1>5. new \in Seq(Offer) /\ Len(new) = Len(rows)
  <2>1. new \in [1 .. Len(rows) -> Offer]
    BY <1>2, <1>4
  <2>2. Len(rows) \in Nat
    OBVIOUS
  <2>3. QED
    BY <2>1, <2>2
<1>6. ASSUME NEW i \in 1 .. Len(rows)
      PROVE  /\ new[i].status = IF i \in S THEN s ELSE rows[i].status
             /\ new[i].left = IF i \in S THEN 0 ELSE rows[i].left
             /\ new[i].batch = rows[i].batch
             /\ new[i].round = rows[i].round
             /\ i \notin S => new[i] = rows[i]
  <2>1. CASE i \in S
    BY <1>1, <1>2, <2>1 DEF Offer
  <2>2. CASE i \notin S
    BY <1>2, <2>2
  <2>3. QED
    BY <2>1, <2>2
<1>7. QED
  BY <1>5, <1>6 DEF new

(* A batch is a few of the candidates, at least one if there are any.      *)
LEMMA BatchesAreSmall ==
    ASSUME NEW cands \in SUBSET Operators, cands # {}, NEW batch \in Batches(cands)
    PROVE  /\ batch \in SUBSET Operators
           /\ batch # {}
           /\ IsFiniteSet(batch)
<1>1. batch \in SUBSET Operators /\ IsFiniteSet(batch)
    BY FiniteOperators, FS_Subset DEF Batches
<1>2. batch # {}
    BY FS_EmptySet, BatchAssumption DEF Batches
<1>3. QED
    BY <1>1, <1>2

(* SetToSeq lists a finite set, each element once.                         *)
LEMMA ListedOnce ==
    ASSUME NEW S, IsFiniteSet(S)
    PROVE  /\ Cardinality(S) \in Nat
           /\ SetToSeq(S) \in [1 .. Cardinality(S) -> S]
           /\ S # {} => Cardinality(S) > 0
<1>1. Cardinality(S) \in Nat /\ ExistsBijection(1 .. Cardinality(S), S)
    BY FS_CardinalityType
<1>2. \E f \in [1 .. Cardinality(S) -> S] : IsInjective(f)
    BY <1>1 DEF ExistsBijection, Bijection, Injection, IsInjective
<1>3. SetToSeq(S) \in [1 .. Cardinality(S) -> S]
    BY <1>2 DEF SetToSeq
<1>4. S # {} => Cardinality(S) > 0
    BY <1>1, FS_EmptySet
<1>5. QED
    BY <1>1, <1>3, <1>4

(* A clamped window is a window.                                           *)
LEMMA ClampedIsAWindow ==
    ASSUME request.deadline \in {None} \cup 0 .. CollectTime
    PROVE  /\ Clamped(OfferTime) \in 0 .. OfferTime
           /\ request.deadline = None => Clamped(OfferTime) = OfferTime
BY TimeAssumption, NoneAssumption DEF Clamped

(* A round appends its offers, all of one batch, and touches no other row. *)
LEMMA RoundIsWritten ==
    ASSUME NEW rows \in Seq(Offer), NEW req, NEW round \in Nat,
           NEW batch \in SUBSET Operators, batch # {}, IsFiniteSet(batch),
           request.deadline \in {None} \cup 0 .. CollectTime,
           WriteRound(rows, req, batch, round)
    PROVE  /\ offers' \in Seq(Offer)
           /\ Len(rows) < Len(offers') /\ Len(offers') <= MaxOffers
           /\ \A i \in 1 .. Len(rows) : offers'[i] = rows[i]
           /\ \A i \in (Len(rows) + 1) .. Len(offers') :
                 /\ offers'[i].status = "PENDING"
                 /\ offers'[i].left = Clamped(OfferTime)
                 /\ offers'[i].batch = Len(rows) + 1
                 /\ offers'[i].round = round
<1> DEFINE n == Cardinality(batch)
           ops == SetToSeq(batch)
           row(k) == NewOffer(ops[k], "PENDING", Clamped(OfferTime), Len(rows) + 1, round)
           fresh == [k \in 1 .. n |-> row(k)]
<1>1. n \in Nat /\ n > 0 /\ ops \in [1 .. n -> batch]
    BY ListedOnce
<1>2. DOMAIN ops = 1 .. n
    BY <1>1
<1>3. offers' = rows \o fresh
    BY <1>2 DEF WriteRound
<1>4. Len(rows) \in Nat /\ Len(rows) + n <= MaxOffers /\ MaxOffers \in Nat
    BY BoundAssumption DEF WriteRound
<1>5. \A k \in 1 .. n : row(k) \in Offer
  <2>1. Clamped(OfferTime) \in 0 .. OfferTime
    BY ClampedIsAWindow
  <2>2. Len(rows) + 1 \in 1 .. MaxOffers
    BY <1>1, <1>4
  <2>3. "PENDING" \in OfferStatuses
    BY DEF OfferStatuses
  <2>4. \A k \in 1 .. n : ops[k] \in Operators
    BY <1>1
  <2>5. QED
    BY <2>1, <2>2, <2>3, <2>4 DEF NewOffer, Offer
<1>6. \A k \in 1 .. n : /\ fresh[k].status = "PENDING"
                        /\ fresh[k].left = Clamped(OfferTime)
                        /\ fresh[k].batch = Len(rows) + 1
                        /\ fresh[k].round = round
    BY DEF NewOffer
<1>7. fresh \in Seq(Offer) /\ Len(fresh) = n
  <2> HIDE DEF row, n
  <2>1. fresh \in [1 .. n -> Offer]
    BY <1>5
  <2> HIDE DEF fresh
  <2>2. QED
    BY <1>1, <2>1
<1> HIDE DEF fresh, n, row, ops
<1>8. /\ offers' \in Seq(Offer)
      /\ Len(offers') = Len(rows) + n
      /\ \A i \in 1 .. Len(rows) : offers'[i] = rows[i]
  <2>1. rows \o fresh \in Seq(Offer)
    BY <1>7
  <2>2. Len(rows \o fresh) = Len(rows) + n
    BY <1>7
  <2>3. \A i \in 1 .. Len(rows) : (rows \o fresh)[i] = rows[i]
    BY <1>7, <1>4, <1>1
  <2>4. QED
    BY <1>3, <2>1, <2>2, <2>3
<1>9. \A i \in (Len(rows) + 1) .. Len(offers') :
          /\ i - Len(rows) \in 1 .. n
          /\ offers'[i] = fresh[i - Len(rows)]
    BY <1>3, <1>4, <1>7, <1>1, <1>8
<1>10. QED
    BY <1>1, <1>4, <1>6, <1>8, <1>9

-----------------------------------------------------------------------------
(* A transaction that prepares a round either opens it, or finds nobody    *)
(* left and ends the search.                                               *)
Request == [status : {"DISPATCHING", "WAITING_FOR_DEPOSIT", "CANCELLED"},
            round : Nat, asked : SUBSET Operators,
            deadline : {None} \cup 0 .. CollectTime, closed : BOOLEAN,
            selection : {None} \cup 0 .. SelectTime, manual : BOOLEAN]

RoundOpened(rows, req) ==
    \E r \in Nat, batch \in SUBSET Operators :
        /\ offers' \in Seq(Offer)
        /\ Len(rows) < Len(offers') /\ Len(offers') <= MaxOffers
        /\ \A i \in 1 .. Len(rows) : offers'[i] = rows[i]
        /\ \A i \in (Len(rows) + 1) .. Len(offers') :
              /\ offers'[i].status = "PENDING"
              /\ offers'[i].left = Clamped(OfferTime)
              /\ offers'[i].batch = Len(rows) + 1
              /\ offers'[i].round = r
        /\ request' = [req EXCEPT !.asked = @ \cup batch, !.round = r, !.manual = FALSE]
        /\ UNCHANGED session

RoundExhausted(rows, req) ==
    \E r \in Nat :
        \/ /\ request' = [req EXCEPT !.manual = TRUE, !.round = r]
           /\ offers' = rows
           /\ UNCHANGED session
        \/ /\ request' = [req EXCEPT !.status = "CANCELLED", !.manual = FALSE, !.round = r]
           /\ offers' = Ended(rows, {i \in DOMAIN rows : rows[i].status = "PENDING"},
                              "TIMED_OUT")
           /\ session' = [session EXCEPT !.choosing = FALSE]

LEMMA NextRound ==
    ASSUME NEW rows \in Seq(Offer), NEW req, NEW round \in Nat, NEW asked \in SUBSET Operators,
           request.deadline \in {None} \cup 0 .. CollectTime,
           PrepareNextRound(rows, req, round, asked)
    PROVE  RoundOpened(rows, req) \/ RoundExhausted(rows, req)
<1> DEFINE tries == Attempts(round, asked)
<1>1. CASE \E i \in tries :
              \E batch \in Batches(Candidates(asked, Expansions(round) + i)) :
                 WriteRound(rows, req, batch, round + i)
  <2>1. PICK i \in tries :
              \E batch \in Batches(Candidates(asked, Expansions(round) + i)) :
                 WriteRound(rows, req, batch, round + i)
    BY <1>1
  <2> DEFINE cands == Candidates(asked, Expansions(round) + i)
  <2>2. i \in Nat /\ cands \in SUBSET Operators /\ cands # {}
    BY BatchAssumption DEF Attempts, Candidates
  <2> HIDE DEF cands
  <2>3. PICK batch \in Batches(cands) : WriteRound(rows, req, batch, round + i)
    BY <2>1 DEF cands
  <2>4. batch \in SUBSET Operators /\ batch # {} /\ IsFiniteSet(batch)
    BY <2>2, BatchesAreSmall
  <2> DEFINE r == round + i
  <2>5. r \in Nat
    BY <2>2
  <2>6. request' = [req EXCEPT !.asked = @ \cup batch, !.round = r, !.manual = FALSE]
        /\ UNCHANGED session
    BY <2>3 DEF WriteRound
  <2>7. WriteRound(rows, req, batch, r)
    BY <2>3
  <2> HIDE DEF r
  <2>8. /\ offers' \in Seq(Offer)
        /\ Len(rows) < Len(offers') /\ Len(offers') <= MaxOffers
        /\ \A k \in 1 .. Len(rows) : offers'[k] = rows[k]
        /\ \A k \in (Len(rows) + 1) .. Len(offers') :
              /\ offers'[k].status = "PENDING"
              /\ offers'[k].left = Clamped(OfferTime)
              /\ offers'[k].batch = Len(rows) + 1
              /\ offers'[k].round = r
    BY <2>4, <2>5, <2>7, RoundIsWritten
  <2>9. QED
    BY <2>4, <2>5, <2>6, <2>8 DEF RoundOpened
<1>2. CASE ResolveExhaustion(rows, req, IF round < MaxRounds THEN MaxRounds ELSE round + 1)
  <2>1. (IF round < MaxRounds THEN MaxRounds ELSE round + 1) \in Nat
    BY BatchAssumption
  <2>2. QED
    BY <1>2, <2>1 DEF ResolveExhaustion, RoundExhausted
<1>3. QED
  BY <1>1, <1>2 DEF PrepareNextRound

-----------------------------------------------------------------------------
(* Types.                                                                  *)
RowsOK == offers \in Seq(Offer) /\ Len(offers) <= MaxOffers

(* Rows are never taken away.                                              *)
RowsGrow == RowsOK' /\ Len(offers) <= Len(offers')

LEMMA EndedRowsGrow ==
    ASSUME RowsOK, NEW S, NEW s \in OfferStatuses, offers' = Ended(offers, S, s)
    PROVE  RowsGrow
<1>1. offers \in Seq(Offer) /\ Len(offers) \in Nat
    BY DEF RowsOK
<1>2. offers' \in Seq(Offer) /\ Len(offers') = Len(offers)
    BY <1>1, EndedRows
<1>3. QED
    BY <1>1, <1>2 DEF RowsOK, RowsGrow

LEMMA RoundRowsGrow ==
    ASSUME NEW rows \in Seq(Offer), Len(rows) = Len(offers), Len(rows) <= MaxOffers, NEW req,
           RoundOpened(rows, req) \/ RoundExhausted(rows, req)
    PROVE  RowsGrow
<1>1. CASE RoundOpened(rows, req)
  <2>1. offers' \in Seq(Offer) /\ Len(rows) < Len(offers') /\ Len(offers') <= MaxOffers
    BY <1>1 DEF RoundOpened
  <2>2. QED
    BY <2>1 DEF RowsOK, RowsGrow
<1>2. CASE RoundExhausted(rows, req)
  <2>1. "TIMED_OUT" \in OfferStatuses
    BY DEF OfferStatuses
  <2>2. \/ offers' = rows
        \/ offers' = Ended(rows, {i \in DOMAIN rows : rows[i].status = "PENDING"}, "TIMED_OUT")
    BY <1>2 DEF RoundExhausted
  <2>3. offers' \in Seq(Offer) /\ Len(offers') = Len(rows)
    <3> DEFINE gone == {i \in DOMAIN rows : rows[i].status = "PENDING"}
    <3>1. Ended(rows, gone, "TIMED_OUT") \in Seq(Offer)
          /\ Len(Ended(rows, gone, "TIMED_OUT")) = Len(rows)
      BY <2>1, EndedRows
    <3>2. QED
      BY <2>2, <3>1
  <2>4. QED
    BY <2>3 DEF RowsOK, RowsGrow
<1>3. QED
  BY <1>1, <1>2

-----------------------------------------------------------------------------
(* What any step may do to the request.                                    *)
DeadlineMove ==
    \/ request'.deadline = request.deadline
    \/ request'.deadline = 0
    \/ request'.deadline = Sooner(request.deadline)
    \/ request.deadline = None /\ request'.deadline = CollectTime

(* What lets a check close the bidding.                                    *)
MayClose == ~request.closed \/ (request.deadline = None /\ resolving # None)

CloseMove ==
    \/ /\ request'.closed = request.closed
       /\ request'.selection \in {request.selection, Sooner(request.selection)}
    \/ request'.closed /\ request'.selection = SelectTime /\ MayClose

RequestMove == request' \in Request /\ DeadlineMove /\ CloseMove

LEMMA WindowsAreWindows ==
    /\ 0 \in 0 .. CollectTime /\ CollectTime \in 0 .. CollectTime
    /\ 0 \in 0 .. SelectTime /\ SelectTime \in 0 .. SelectTime
    /\ None \notin Nat
BY TimeAssumption, NoneAssumption

LEMMA SoonerIsSooner ==
    ASSUME NEW n \in Nat, NEW t \in {None} \cup 0 .. n
    PROVE  /\ Sooner(t) \in {None} \cup 0 .. n
           /\ t # None => Sooner(t) \in Nat /\ Sooner(t) <= t
           /\ t = None => Sooner(t) = None
BY NoneAssumption DEF Sooner

LEMMA RoundMovesRequest ==
    ASSUME request \in Request, NEW rows, NEW req \in Request,
           req.deadline = request.deadline, req.closed = request.closed,
           req.selection = request.selection,
           RoundOpened(rows, req) \/ RoundExhausted(rows, req)
    PROVE  RequestMove
<1>1. CASE RoundOpened(rows, req)
  <2>1. PICK r \in Nat, batch \in SUBSET Operators :
            request' = [req EXCEPT !.asked = @ \cup batch, !.round = r, !.manual = FALSE]
    BY <1>1 DEF RoundOpened
  <2>2. request' \in Request /\ request'.deadline = request.deadline
        /\ request'.closed = request.closed /\ request'.selection = request.selection
    BY <2>1 DEF Request
  <2>3. QED
    BY <2>2 DEF RequestMove, DeadlineMove, CloseMove
<1>2. CASE RoundExhausted(rows, req)
  <2>1. PICK r \in Nat :
            \/ request' = [req EXCEPT !.manual = TRUE, !.round = r]
            \/ request' = [req EXCEPT !.status = "CANCELLED", !.manual = FALSE, !.round = r]
    BY <1>2 DEF RoundExhausted
  <2>2. request' \in Request /\ request'.deadline = request.deadline
        /\ request'.closed = request.closed /\ request'.selection = request.selection
    BY <2>1 DEF Request
  <2>3. QED
    BY <2>2 DEF RequestMove, DeadlineMove, CloseMove
<1>3. QED
  BY <1>1, <1>2

(* The fields a round's transaction reads, as they are typed.              *)
LEMMA StepTypes ==
    ASSUME DispatchTypeOK
    PROVE  /\ request \in Request /\ RowsOK
           /\ \A s \in Starters : start[s].round \in Nat /\ start[s].asked \in SUBSET Operators
           /\ \A i \in OfferIds : offers[i] \in Offer
           /\ Len(offers) \in Nat
BY DEF DispatchTypeOK, Request, RowsOK, OfferIds

(* A manual offer under way is an offer to somebody.                       *)
ManualNamesOne == manual.pc # "idle" => manual.op \in Operators

LEMMA RequestStep ==
    ASSUME DispatchTypeOK, ManualNamesOne, [DispatchNext]_dispatchVars
    PROVE  RequestMove
<1> USE DEF Request, DeadlineMove, CloseMove
<1>0. request \in Request
  BY StepTypes
<1>u. ASSUME UNCHANGED request PROVE RequestMove
  BY <1>0, <1>u DEF RequestMove
<1>1. CASE UNCHANGED dispatchVars
  BY <1>1, <1>u DEF dispatchVars
<1>2. ASSUME NEW i \in OfferIds, Quote(i) \/ Decline(i) \/ ClaimQuote(i) \/ EarlyRead(i)
      PROVE  RequestMove
  BY <1>2, <1>u DEF Quote, Decline, ClaimQuote, EarlyRead
<1>3. ASSUME NEW i \in OfferIds, BeginCollection(i) PROVE RequestMove
  <2>1. CASE request.deadline = None
    BY <1>0, <1>3, <2>1, WindowsAreWindows DEF BeginCollection, RequestMove
  <2>2. CASE request.deadline # None
    BY <1>u, <1>3, <2>2 DEF BeginCollection
  <2>3. QED
    BY <2>1, <2>2
<1>4. ASSUME NEW i \in OfferIds, EarlyPull(i) PROVE RequestMove
  <2>1. CASE UNCHANGED request
    BY <2>1, <1>u
  <2>2. CASE request' = [request EXCEPT !.deadline = 0]
    BY <1>0, <2>2, WindowsAreWindows DEF RequestMove
  <2>3. QED
    BY <1>4, <2>1, <2>2 DEF EarlyPull
<1>5. ASSUME NEW s \in Starters, StartRead(s) \/ StartCheck(s) PROVE RequestMove
  BY <1>5, <1>u DEF StartRead, StartCheck
<1>6. ASSUME NEW s \in Starters, StartWrite(s) PROVE RequestMove
  <2>1. PrepareNextRound(offers, request, start[s].round, start[s].asked)
    BY <1>6 DEF StartWrite
  <2>2. RoundOpened(offers, request) \/ RoundExhausted(offers, request)
    BY <1>0, <2>1, StepTypes, NextRound DEF RowsOK
  <2>3. QED
    BY <1>0, <2>2, RoundMovesRequest
<1>7. CASE ExpandWrite
  <2>1. start["admin"].round + 1 \in Nat
    BY StepTypes DEF Starters
  <2>2. request' = [request EXCEPT !.round = start["admin"].round + 1]
    BY <1>7 DEF ExpandWrite
  <2>3. QED
    BY <1>0, <2>1, <2>2 DEF RequestMove
<1>8. CASE ExpandRead \/ ManualCheck \/ \E o \in Operators : ManualRead(o)
  BY <1>8, <1>u DEF ExpandRead, ManualCheck, ManualRead
<1>9. CASE ManualWrite
  <2>1. manual.op \in Operators
    BY <1>9 DEF ManualNamesOne, ManualWrite
  <2>2. \/ UNCHANGED request
        \/ request' = [request EXCEPT !.asked = @ \cup {manual.op}]
    BY <1>9 DEF ManualWrite
  <2>3. CASE request' = [request EXCEPT !.asked = @ \cup {manual.op}]
    BY <1>0, <2>1, <2>3 DEF RequestMove
  <2>4. QED
    BY <1>u, <2>2, <2>3
<1>10. ASSUME NEW o \in Operators, AssignOperator(o) PROVE RequestMove
  BY <1>0, <1>10 DEF AssignOperator, RequestMove
<1>11. CASE Cancel \/ CancelOffers
  BY <1>0, <1>11 DEF Cancel, CancelOffers, RequestMove
<1>12. ASSUME NEW i \in OfferIds, SelectQuote(i) PROVE RequestMove
  BY <1>0, <1>12 DEF SelectQuote, RequestMove
<1>13. CASE OfferSweep \/ \E b \in OfferIds : BatchQuery(b)
  BY <1>13, <1>u DEF OfferSweep, BatchQuery
<1>14. CASE BatchResolve
  <2> DEFINE round == offers[resolving].round
             rows == Ended(offers, Expired(resolving), "TIMED_OUT")
             advanced == [request EXCEPT !.round = round + 1]
             mine == Dispatching /\ request.deadline = None /\ request.round = round
  <2>1. resolving \in OfferIds /\ resolving # None
    BY <1>14 DEF DispatchTypeOK, BatchResolve
  <2>2. round \in Nat /\ round + 1 \in Nat
    BY <2>1, StepTypes DEF Offer
  <2>3. advanced \in Request /\ advanced.deadline = request.deadline
        /\ advanced.closed = request.closed /\ advanced.selection = request.selection
    BY <1>0, <2>2
  <2>4. rows \in Seq(Offer)
    BY StepTypes, EndedRows DEF RowsOK, OfferStatuses
  <2>5. request.asked \in SUBSET Operators /\ request.deadline \in {None} \cup 0 .. CollectTime
    BY <1>0
  <2>6. \/ UNCHANGED request
        \/ mine /\ request' = [advanced EXCEPT !.closed = TRUE, !.selection = SelectTime]
        \/ PrepareNextRound(rows, advanced, round + 1, request.asked)
    BY <1>14, Zenon DEF BatchResolve
  <2>7. CASE mine /\ request' = [advanced EXCEPT !.closed = TRUE, !.selection = SelectTime]
    <3> HIDE DEF round
    <3>1. request' = [request EXCEPT !.round = round + 1, !.closed = TRUE,
                                     !.selection = SelectTime]
      BY <2>7
    <3>2. request' \in Request
      BY <1>0, <2>2, <3>1, WindowsAreWindows
    <3>3. QED
      BY <1>0, <2>1, <2>7, <3>1, <3>2 DEF RequestMove, MayClose
  <2>8. CASE PrepareNextRound(rows, advanced, round + 1, request.asked)
    <3> HIDE DEF round, rows, advanced
    <3>1. RoundOpened(rows, advanced) \/ RoundExhausted(rows, advanced)
      BY <2>2, <2>4, <2>5, <2>8, NextRound
    <3>2. QED
      BY <1>0, <2>3, <3>1, RoundMovesRequest
  <2>9. QED
    BY <1>u, <2>6, <2>7, <2>8
<1>15. CASE BiddingClose
  BY <1>0, <1>15, WindowsAreWindows DEF BiddingClose, RequestMove, MayClose
<1>16. CASE QuoteSelectionTimeout
  BY <1>0, <1>16 DEF QuoteSelectionTimeout, RequestMove
<1>17. ASSUME NEW d \in Senders, SendShortlist(d) \/ OpenChoice(d) PROVE RequestMove
  BY <1>17, <1>u DEF SendShortlist, OpenChoice
<1>18. CASE Tick
  <2>1. request' = [request EXCEPT !.deadline = Sooner(@), !.selection = Sooner(@)]
    BY <1>18 DEF Tick
  <2>2. /\ Sooner(request.deadline) \in {None} \cup 0 .. CollectTime
        /\ Sooner(request.selection) \in {None} \cup 0 .. SelectTime
    BY <1>0, SoonerIsSooner, TimeAssumption
  <2>3. QED
    BY <1>0, <2>1, <2>2 DEF RequestMove
<1>19. CASE Restart
  BY <1>19, <1>u DEF Restart
<1>20. QED
  BY <1>1, <1>2, <1>3, <1>4, <1>5, <1>6, <1>7, <1>8, <1>9, <1>10, <1>11, <1>12, <1>13, <1>14,
     <1>15, <1>16, <1>17, <1>18, <1>19
     DEF DispatchNext, OperatorStep, HandleReply, StartStep, AdminStep, CustomerStep,
         ReconcilerStep, DeliveryStep

(* Shortening the time an offer has left.                                  *)
LEMMA ShortenedRowsGrow ==
    ASSUME RowsOK, Len(offers) \in Nat,
           offers' = [k \in OfferIds |-> offers'[k]],
           \A k \in OfferIds : \E t \in 0 .. OfferTime : offers'[k] = [offers[k] EXCEPT !.left = t]
    PROVE  RowsGrow /\ Len(offers') = Len(offers)
<1>1. \A k \in OfferIds : offers[k] \in Offer
    BY DEF RowsOK, OfferIds
<1>2. \A k \in OfferIds : offers'[k] \in Offer
    BY <1>1 DEF Offer
<1>3. offers' \in [1 .. Len(offers) -> Offer]
    BY <1>2 DEF OfferIds
<1>4. offers' \in Seq(Offer) /\ Len(offers') = Len(offers)
    BY <1>3
<1>5. QED
    BY <1>4 DEF RowsGrow, RowsOK

LEMMA AppendedRowsGrow ==
    ASSUME RowsOK, Len(offers) < MaxOffers, NEW o \in Operators, NEW s \in OfferStatuses,
           NEW left \in 0 .. OfferTime, NEW round \in Nat,
           offers' = Append(offers, NewOffer(o, s, left, Len(offers) + 1, round))
    PROVE  /\ RowsGrow
           /\ Len(offers') = Len(offers) + 1
           /\ \A i \in OfferIds : offers'[i] = offers[i]
           /\ offers'[Len(offers) + 1].status = s
           /\ offers'[Len(offers) + 1].left = left
           /\ offers'[Len(offers) + 1].batch = Len(offers) + 1
           /\ offers'[Len(offers) + 1].round = round
<1> DEFINE new == NewOffer(o, s, left, Len(offers) + 1, round)
<1>1. Len(offers) \in Nat /\ MaxOffers \in Nat /\ offers \in Seq(Offer)
    BY BoundAssumption DEF RowsOK
<1>2. Len(offers) + 1 \in 1 .. MaxOffers
    BY <1>1
<1>3. new \in Offer
    BY <1>2 DEF NewOffer, Offer
<1> HIDE DEF new
<1>4. /\ offers' \in Seq(Offer)
      /\ Len(offers') = Len(offers) + 1
      /\ \A i \in OfferIds : offers'[i] = offers[i]
      /\ offers'[Len(offers) + 1] = new
    BY <1>1, <1>3 DEF OfferIds, new
<1>5. RowsGrow
    BY <1>1, <1>4 DEF RowsGrow, RowsOK
<1>6. new.status = s /\ new.left = left /\ new.batch = Len(offers) + 1 /\ new.round = round
    BY DEF new, NewOffer
<1>7. QED
    BY <1>4, <1>5, <1>6

LEMMA RowsStep ==
    ASSUME DispatchTypeOK, ManualNamesOne, [DispatchNext]_dispatchVars
    PROVE  RowsGrow
<1> USE DEF OfferStatuses
<1>0. RowsOK /\ Len(offers) \in Nat /\ request \in Request /\ offers \in Seq(Offer)
  BY StepTypes DEF RowsOK
<1>u. ASSUME UNCHANGED offers PROVE RowsGrow
  BY <1>0, <1>u DEF RowsGrow, RowsOK
<1>e. ASSUME NEW S, NEW s \in OfferStatuses, offers' = Ended(offers, S, s) PROVE RowsGrow
  BY <1>0, <1>e, EndedRowsGrow
<1>1. CASE UNCHANGED dispatchVars
  BY <1>1, <1>u DEF dispatchVars
<1>2. ASSUME NEW i \in OfferIds,
             Quote(i) \/ Decline(i) \/ ClaimQuote(i) \/ EarlyRead(i) \/ EarlyPull(i)
      PROVE  RowsGrow
  BY <1>2, <1>u, <1>e DEF Quote, Decline, ClaimQuote, EarlyRead, EarlyPull
<1>3. ASSUME NEW i \in OfferIds, BeginCollection(i) PROVE RowsGrow
  <2>1. CASE request.deadline = None
    <3>1. offers' = [k \in OfferIds |->
                        IF k \in Pending /\ offers[k].left > CollectTime
                        THEN [offers[k] EXCEPT !.left = CollectTime] ELSE offers[k]]
      BY <1>3, <2>1 DEF BeginCollection
    <3>2. ASSUME NEW k \in OfferIds
          PROVE  \E t \in 0 .. OfferTime : offers'[k] = [offers[k] EXCEPT !.left = t]
      <4>1. offers[k] \in Offer /\ offers[k].left \in 0 .. OfferTime
        BY StepTypes DEF Offer
      <4>2. CASE k \in Pending /\ offers[k].left > CollectTime
        BY <3>1, <4>1, <4>2, TimeAssumption
      <4>3. CASE ~(k \in Pending /\ offers[k].left > CollectTime)
        <5>1. offers'[k] = [offers[k] EXCEPT !.left = offers[k].left]
          BY <3>1, <4>1, <4>3 DEF Offer
        <5>2. QED
          BY <4>1, <5>1
      <4>4. QED
        BY <4>2, <4>3
    <3>3. offers' = [k \in OfferIds |-> offers'[k]]
      BY <3>1
    <3>4. QED
      BY <1>0, <3>2, <3>3, ShortenedRowsGrow
  <2>2. CASE request.deadline # None
    BY <1>u, <1>3, <2>2 DEF BeginCollection
  <2>3. QED
    BY <2>1, <2>2
<1>4. ASSUME NEW s \in Starters, StartRead(s) \/ StartCheck(s) PROVE RowsGrow
  BY <1>4, <1>u DEF StartRead, StartCheck
<1>5. ASSUME NEW s \in Starters, StartWrite(s) PROVE RowsGrow
  <2>1. PrepareNextRound(offers, request, start[s].round, start[s].asked)
    BY <1>5 DEF StartWrite
  <2>2. RoundOpened(offers, request) \/ RoundExhausted(offers, request)
    BY <1>0, <2>1, StepTypes, NextRound DEF Request
  <2>3. QED
    BY <1>0, <2>2, RoundRowsGrow DEF RowsOK
<1>6. CASE ExpandRead \/ ExpandWrite \/ ManualCheck \/ \E o \in Operators : ManualRead(o)
  BY <1>6, <1>u DEF ExpandRead, ExpandWrite, ManualCheck, ManualRead
<1>7. CASE ManualWrite
  <2>1. manual.op \in Operators /\ manual.left \in 0 .. OfferTime /\ request.round \in Nat
    BY <1>0, <1>7 DEF ManualNamesOne, ManualWrite, DispatchTypeOK, Request
  <2>2. Len(offers) < MaxOffers
    BY <1>7 DEF ManualWrite
  <2>3. \/ UNCHANGED offers
        \/ offers' = Append(offers, NewOffer(manual.op, "PENDING", manual.left,
                                             Len(offers) + 1, request.round))
    BY <1>7 DEF ManualWrite
  <2>4. CASE offers' = Append(offers, NewOffer(manual.op, "PENDING", manual.left,
                                               Len(offers) + 1, request.round))
    BY <1>0, <2>1, <2>2, <2>4, AppendedRowsGrow
  <2>5. QED
    BY <1>u, <2>3, <2>4
<1>8. ASSUME NEW o \in Operators, AssignOperator(o) PROVE RowsGrow
  <2>1. /\ Len(offers) < MaxOffers
        /\ offers' = Append(offers, NewOffer(o, "SELECTED_PENDING_PAYMENT", 0,
                                             Len(offers) + 1, request.round))
    BY <1>8 DEF AssignOperator
  <2>2. 0 \in 0 .. OfferTime /\ request.round \in Nat
    BY <1>0, TimeAssumption DEF Request
  <2>3. QED
    BY <1>0, <2>1, <2>2, AppendedRowsGrow
<1>9. CASE Cancel
  BY <1>9, <1>u DEF Cancel
<1>10. CASE CancelOffers
  <2>1. Ended(offers, Quoted, "NOT_SELECTED") \in Seq(Offer)
        /\ Len(Ended(offers, Quoted, "NOT_SELECTED")) = Len(offers)
    BY <1>0, EndedRows
  <2>2. offers' = Ended(Ended(offers, Quoted, "NOT_SELECTED"), Pending, "TIMED_OUT")
    BY <1>10 DEF CancelOffers
  <2>3. offers' \in Seq(Offer) /\ Len(offers') = Len(offers)
    BY <2>1, <2>2, EndedRows
  <2>4. QED
    BY <1>0, <2>3 DEF RowsGrow, RowsOK
<1>11. ASSUME NEW i \in OfferIds, SelectQuote(i) PROVE RowsGrow
  <2>1. PICK j \in Quoted :
            offers' = Ended(Ended(Ended(offers, {j}, "SELECTED_PENDING_PAYMENT"),
                                  Quoted \ {j}, "NOT_SELECTED"), Pending, "TIMED_OUT")
    BY <1>11 DEF SelectQuote
  <2> DEFINE one == Ended(offers, {j}, "SELECTED_PENDING_PAYMENT")
             two == Ended(one, Quoted \ {j}, "NOT_SELECTED")
  <2>2. one \in Seq(Offer) /\ Len(one) = Len(offers)
    BY <1>0, EndedRows
  <2> HIDE DEF one
  <2>3. two \in Seq(Offer) /\ Len(two) = Len(offers)
    BY <2>2, EndedRows
  <2> HIDE DEF two
  <2>4. offers' = Ended(two, Pending, "TIMED_OUT")
    BY <2>1 DEF one, two
  <2>5. offers' \in Seq(Offer) /\ Len(offers') = Len(offers)
    BY <2>3, <2>4, EndedRows
  <2>6. QED
    BY <1>0, <2>5 DEF RowsGrow, RowsOK
<1>12. ASSUME NEW b \in OfferIds, BatchQuery(b) PROVE RowsGrow
  BY <1>12, <1>u DEF BatchQuery
<1>13. CASE BatchResolve
  <2> DEFINE round == offers[resolving].round
             rows == Ended(offers, Expired(resolving), "TIMED_OUT")
             advanced == [request EXCEPT !.round = round + 1]
  <2>1. round + 1 \in Nat
    <3>1. resolving \in OfferIds
      BY <1>13 DEF DispatchTypeOK, BatchResolve
    <3>2. round \in Nat
      BY <3>1, StepTypes DEF Offer
    <3>3. QED
      BY <3>2
  <2>2. rows \in Seq(Offer) /\ Len(rows) = Len(offers)
    BY <1>0, EndedRows
  <2>3. \/ offers' = rows
        \/ offers' = Ended(offers, Pending, "TIMED_OUT")
        \/ PrepareNextRound(rows, advanced, round + 1, request.asked)
    BY <1>13, Zenon DEF BatchResolve
  <2>4. CASE PrepareNextRound(rows, advanced, round + 1, request.asked)
    <3>1. request.asked \in SUBSET Operators /\ request.deadline \in {None} \cup 0 .. CollectTime
      BY <1>0 DEF Request
    <3> HIDE DEF round, rows, advanced
    <3>2. RoundOpened(rows, advanced) \/ RoundExhausted(rows, advanced)
      BY <2>1, <2>2, <2>4, <3>1, NextRound
    <3>3. QED
      BY <1>0, <2>2, <3>2, RoundRowsGrow DEF RowsOK
  <2>5. QED
    BY <1>e, <2>3, <2>4
<1>14. CASE BiddingClose \/ QuoteSelectionTimeout \/ OfferSweep
  BY <1>14, <1>e DEF BiddingClose, QuoteSelectionTimeout, OfferSweep
<1>15. ASSUME NEW d \in Senders, SendShortlist(d) \/ OpenChoice(d) PROVE RowsGrow
  BY <1>15, <1>u DEF SendShortlist, OpenChoice
<1>16. CASE Tick
  <2>1. offers' = [i \in OfferIds |-> [offers[i] EXCEPT !.left = Sooner(@)]]
    BY <1>16 DEF Tick
  <2>2. ASSUME NEW k \in OfferIds
        PROVE  \E t \in 0 .. OfferTime : offers'[k] = [offers[k] EXCEPT !.left = t]
    <3>1. offers[k].left \in 0 .. OfferTime
      BY StepTypes DEF Offer
    <3>2. Sooner(offers[k].left) \in 0 .. OfferTime
      BY <3>1, TimeAssumption DEF Sooner
    <3>3. QED
      BY <2>1, <3>2
  <2>3. offers' = [k \in OfferIds |-> offers'[k]]
    BY <2>1
  <2>4. QED
    BY <1>0, <2>2, <2>3, ShortenedRowsGrow
<1>17. CASE Restart
  BY <1>17, <1>u DEF Restart
<1>18. QED
  BY <1>1, <1>2, <1>3, <1>4, <1>5, <1>6, <1>7, <1>8, <1>9, <1>10, <1>11, <1>12, <1>13, <1>14,
     <1>15, <1>16, <1>17
     DEF DispatchNext, OperatorStep, HandleReply, StartStep, AdminStep, CustomerStep,
         ReconcilerStep, DeliveryStep

HandlersOK ==
    /\ reply \in [1 .. MaxOffers -> {"none", "open", "quoted", "answered", "early"}]
    /\ start \in [Starters -> [pc : {"idle", "expand", "called", "read", "write"},
                               round : Nat, asked : SUBSET Operators]]
    /\ manual \in [pc : {"idle", "read", "write"}, op : Operators \cup {None},
                   left : 0 .. OfferTime]
    /\ delivery \in [Senders -> {"none", "due", "sent"}]
    /\ cancelling \in BOOLEAN
    /\ expands \in 0 .. MaxExpands /\ manuals \in 0 .. MaxManual
    /\ crashes \in 0 .. MaxCrashes /\ late \in BOOLEAN
    /\ ManualNamesOne

PointersOK ==
    /\ session \in [choosing : BOOLEAN, shown : SUBSET OfferIds]
    /\ resolving \in OfferIds \cup {None}
    /\ choice \in [meant : OfferIds \cup {None}, booked : OfferIds \cup {None}]

LEMMA HandlersStep ==
    ASSUME DispatchTypeOK, ManualNamesOne, [DispatchNext]_dispatchVars
    PROVE  HandlersOK'
<1> USE DEF HandlersOK, ManualNamesOne
<1>0. /\ HandlersOK
      /\ request \in Request
      /\ OfferIds \subseteq 1 .. MaxOffers
      /\ {MaxExpands, MaxManual, MaxCrashes, OfferTime} \subseteq Nat
      /\ 0 \in 0 .. OfferTime
  <2>1. /\ Len(offers) \in Nat /\ Len(offers) <= MaxOffers /\ MaxOffers \in Nat
        /\ {MaxExpands, MaxManual, MaxCrashes, OfferTime} \subseteq Nat
    BY StepTypes, BoundAssumption, TimeAssumption DEF RowsOK
  <2>2. OfferIds \subseteq 1 .. MaxOffers
    BY <2>1 DEF OfferIds
  <2>3. QED
    BY <2>1, <2>2, StepTypes DEF DispatchTypeOK
<1>r. request.round \in Nat /\ request.asked \in SUBSET Operators
      /\ request.deadline \in {None} \cup 0 .. CollectTime
  BY <1>0 DEF Request
<1>1. CASE UNCHANGED dispatchVars
  BY <1>0, <1>1 DEF dispatchVars
<1>2. ASSUME NEW i \in OfferIds, Quote(i) \/ Decline(i) \/ ClaimQuote(i) PROVE HandlersOK'
  BY <1>0, <1>2 DEF Quote, Decline, ClaimQuote
<1>3. ASSUME NEW i \in OfferIds, BeginCollection(i) \/ EarlyRead(i) \/ EarlyPull(i)
      PROVE  HandlersOK'
  BY <1>0, <1>3 DEF BeginCollection, EarlyRead, EarlyPull
<1>4. ASSUME NEW s \in Starters, StartRead(s) PROVE HandlersOK'
  BY <1>0, <1>r, <1>4 DEF StartRead, NoStart
<1>5. ASSUME NEW s \in Starters, StartCheck(s) PROVE HandlersOK'
  <2>1. s \in Senders
    BY DEF Senders
  <2>2. delivery' \in [Senders -> {"none", "due", "sent"}]
    BY <1>0, <1>5, <2>1 DEF StartCheck
  <2>3. start' \in [Starters -> [pc : {"idle", "expand", "called", "read", "write"},
                                 round : Nat, asked : SUBSET Operators]]
    <3>1. start[s] \in [pc : {"idle", "expand", "called", "read", "write"},
                        round : Nat, asked : SUBSET Operators]
      BY <1>0
    <3>2. \/ start' = [start EXCEPT ![s] = NoStart]
          \/ start' = [start EXCEPT ![s] = [start[s] EXCEPT !.pc = "write",
                                                            !.asked = request.asked]]
      BY <1>0, <1>5 DEF StartCheck
    <3>3. NoStart \in [pc : {"idle", "expand", "called", "read", "write"},
                       round : Nat, asked : SUBSET Operators]
      BY DEF NoStart
    <3>4. [start[s] EXCEPT !.pc = "write", !.asked = request.asked]
              \in [pc : {"idle", "expand", "called", "read", "write"},
                   round : Nat, asked : SUBSET Operators]
      BY <1>r, <3>1
    <3>5. QED
      BY <1>0, <3>2, <3>3, <3>4
  <2>4. UNCHANGED <<reply, manual, cancelling, expands, manuals, crashes, late>>
    BY <1>5 DEF StartCheck
  <2>5. QED
    BY <1>0, <2>2, <2>3, <2>4
<1>6. ASSUME NEW s \in Starters, StartWrite(s) PROVE HandlersOK'
  BY <1>0, <1>6 DEF StartWrite, NoStart
<1>7. CASE ExpandRead
  <2>1. "admin" \in Starters
    BY DEF Starters
  <2>2. start' = [start EXCEPT !["admin"] = [start["admin"] EXCEPT !.pc = "expand",
                                                                   !.round = request.round]]
    BY <1>0, <1>7, <2>1 DEF ExpandRead
  <2>3. start["admin"] \in [pc : {"idle", "expand", "called", "read", "write"},
                            round : Nat, asked : SUBSET Operators]
    BY <1>0, <2>1
  <2>4. [start["admin"] EXCEPT !.pc = "expand", !.round = request.round]
            \in [pc : {"idle", "expand", "called", "read", "write"},
                 round : Nat, asked : SUBSET Operators]
    BY <1>r, <2>3
  <2>5. start' \in [Starters -> [pc : {"idle", "expand", "called", "read", "write"},
                                 round : Nat, asked : SUBSET Operators]]
    BY <1>0, <2>2, <2>4
  <2>6. QED
    BY <1>0, <1>7, <2>5 DEF ExpandRead
<1>8. CASE ExpandWrite
  BY <1>0, <1>8 DEF ExpandWrite, NoStart, Starters
<1>9. ASSUME NEW o \in Operators, ManualRead(o) PROVE HandlersOK'
  <2>1. Clamped(OfferTime) \in 0 .. OfferTime
    BY <1>r, ClampedIsAWindow
  <2>2. QED
    BY <1>0, <1>9, <2>1 DEF ManualRead
<1>10. CASE ManualCheck \/ ManualWrite
  BY <1>0, <1>10 DEF ManualCheck, ManualWrite, NoManual
<1>11. ASSUME NEW o \in Operators, AssignOperator(o) PROVE HandlersOK'
  BY <1>0, <1>11 DEF AssignOperator
<1>12. CASE Cancel \/ CancelOffers
  BY <1>0, <1>12 DEF Cancel, CancelOffers
<1>13. ASSUME NEW i \in OfferIds, SelectQuote(i) PROVE HandlersOK'
  BY <1>0, <1>13 DEF SelectQuote
<1>14. ASSUME NEW b \in OfferIds, BatchQuery(b) PROVE HandlersOK'
  BY <1>0, <1>14 DEF BatchQuery
<1>15. CASE BatchResolve
  <2>1. /\ delivery' \in {delivery, [delivery EXCEPT !["reconciler"] = "due"]}
        /\ UNCHANGED <<reply, start, manual, cancelling, expands, manuals, crashes, late>>
    BY <1>15, Zenon DEF BatchResolve
  <2>2. QED
    BY <1>0, <2>1 DEF Senders
<1>16. CASE BiddingClose
  BY <1>0, <1>16 DEF BiddingClose, Senders
<1>17. CASE QuoteSelectionTimeout \/ OfferSweep
  BY <1>0, <1>17 DEF QuoteSelectionTimeout, OfferSweep
<1>18. ASSUME NEW d \in Senders, SendShortlist(d) \/ OpenChoice(d) PROVE HandlersOK'
  BY <1>0, <1>18 DEF SendShortlist, OpenChoice
<1>19. CASE Tick
  <2>1. manual.left \in 0 .. OfferTime
    BY <1>0
  <2>2. Sooner(manual.left) \in 0 .. OfferTime
    BY <1>0, <2>1 DEF Sooner
  <2>3. manual' = [manual EXCEPT !.left = Sooner(manual.left)] /\ late' = ~Quiet
        /\ UNCHANGED <<reply, start, delivery, cancelling, expands, manuals, crashes>>
    BY <1>19 DEF Tick
  <2>4. late' \in BOOLEAN
    BY <2>3
  <2>5. QED
    BY <1>0, <2>2, <2>3, <2>4
<1>20. CASE Restart
  <2>1. /\ reply' = [i \in 1 .. MaxOffers |-> "none"]
        /\ start' = [s \in Starters |-> NoStart]
        /\ manual' = NoManual
        /\ delivery' = [d \in Senders |-> "none"]
        /\ cancelling' = FALSE /\ crashes' = crashes + 1 /\ crashes < MaxCrashes
        /\ UNCHANGED <<expands, manuals, late>>
    BY <1>20 DEF Restart
  <2>2. NoStart \in [pc : {"idle", "expand", "called", "read", "write"},
                     round : Nat, asked : SUBSET Operators]
    BY DEF NoStart
  <2>3. start' \in [Starters -> [pc : {"idle", "expand", "called", "read", "write"},
                                 round : Nat, asked : SUBSET Operators]]
    BY <2>1, <2>2
  <2>4. manual' \in [pc : {"idle", "read", "write"}, op : Operators \cup {None},
                     left : 0 .. OfferTime] /\ manual'.pc = "idle"
    BY <1>0, <2>1 DEF NoManual
  <2>5. crashes' \in 0 .. MaxCrashes
    BY <1>0, <2>1
  <2>6. QED
    BY <1>0, <2>1, <2>3, <2>4, <2>5
<1>21. QED
  BY <1>1, <1>2, <1>3, <1>4, <1>5, <1>6, <1>7, <1>8, <1>9, <1>10, <1>11, <1>12, <1>13, <1>14,
     <1>15, <1>16, <1>17, <1>18, <1>19, <1>20
     DEF DispatchNext, OperatorStep, HandleReply, StartStep, AdminStep, CustomerStep,
         ReconcilerStep, DeliveryStep

LEMMA PointersStep ==
    ASSUME DispatchTypeOK, ManualNamesOne, [DispatchNext]_dispatchVars
    PROVE  PointersOK'
<1> USE DEF PointersOK
<1>0. PointersOK
  BY DEF DispatchTypeOK
<1>g. OfferIds \subseteq OfferIds'
  BY RowsStep, StepTypes DEF RowsGrow, RowsOK, OfferIds
<1>k. ASSUME UNCHANGED choice, resolving' \in OfferIds \cup {None},
             session' \in [choosing : BOOLEAN, shown : SUBSET OfferIds]
      PROVE  PointersOK'
  BY <1>0, <1>g, <1>k
<1>c. ASSUME session' \in {session, [session EXCEPT !.choosing = FALSE],
                           [session EXCEPT !.choosing = TRUE],
                           [session EXCEPT !.shown = Quoted]}
      PROVE  session' \in [choosing : BOOLEAN, shown : SUBSET OfferIds]
  BY <1>0, <1>c DEF Quoted, Having
<1>1. CASE UNCHANGED dispatchVars
  BY <1>0, <1>1, <1>k DEF dispatchVars
<1>2. ASSUME NEW i \in OfferIds,
             \/ Quote(i) \/ Decline(i) \/ ClaimQuote(i)
             \/ BeginCollection(i) \/ EarlyRead(i) \/ EarlyPull(i)
      PROVE  PointersOK'
  BY <1>0, <1>2, <1>k DEF Quote, Decline, ClaimQuote, BeginCollection, EarlyRead, EarlyPull
<1>3. ASSUME NEW s \in Starters, StartRead(s) \/ StartCheck(s) PROVE PointersOK'
  BY <1>0, <1>3, <1>k DEF StartRead, StartCheck
<1>4. ASSUME NEW s \in Starters, StartWrite(s) PROVE PointersOK'
  <2>1. UNCHANGED <<choice, resolving>>
    BY <1>4 DEF StartWrite
  <2>2. session' \in {session, [session EXCEPT !.choosing = FALSE]}
    BY <1>4 DEF StartWrite, PrepareNextRound, WriteRound, ResolveExhaustion
  <2>3. QED
    BY <1>0, <1>c, <1>k, <2>1, <2>2
<1>5. CASE \/ ExpandRead \/ ExpandWrite \/ ManualCheck \/ ManualWrite
           \/ \E o \in Operators : ManualRead(o) \/ AssignOperator(o)
  BY <1>0, <1>5, <1>k
     DEF ExpandRead, ExpandWrite, ManualCheck, ManualWrite, ManualRead, AssignOperator
<1>6. CASE Cancel \/ CancelOffers
  BY <1>0, <1>6, <1>k, <1>c DEF Cancel, CancelOffers
<1>7. ASSUME NEW i \in OfferIds, SelectQuote(i) PROVE PointersOK'
  <2>1. session' \in [choosing : BOOLEAN, shown : SUBSET OfferIds] /\ UNCHANGED resolving
    BY <1>7, <1>c DEF SelectQuote
  <2>2. \E j \in OfferIds : choice' = [meant |-> i, booked |-> j]
    BY <1>7 DEF SelectQuote, Quoted, Having
  <2>3. QED
    BY <1>0, <1>g, <2>1, <2>2
<1>8. ASSUME NEW b \in OfferIds, BatchQuery(b) PROVE PointersOK'
  BY <1>0, <1>8, <1>k DEF BatchQuery
<1>9. CASE BatchResolve
  <2>1. UNCHANGED choice /\ resolving' = None
    BY <1>9 DEF BatchResolve
  <2>2. session' \in {session, [session EXCEPT !.choosing = FALSE]}
    BY <1>9, Zenon DEF BatchResolve, PrepareNextRound, WriteRound, ResolveExhaustion
  <2>3. QED
    BY <1>0, <1>c, <1>k, <2>1, <2>2
<1>10. CASE BiddingClose \/ QuoteSelectionTimeout \/ OfferSweep
  BY <1>0, <1>10, <1>k, <1>c DEF BiddingClose, QuoteSelectionTimeout, OfferSweep
<1>11. ASSUME NEW d \in Senders, SendShortlist(d) \/ OpenChoice(d) PROVE PointersOK'
  BY <1>0, <1>11, <1>k, <1>c DEF SendShortlist, OpenChoice
<1>12. CASE Tick
  BY <1>0, <1>12, <1>k DEF Tick
<1>13. CASE Restart
  BY <1>0, <1>13, <1>k DEF Restart
<1>14. QED
  BY <1>1, <1>2, <1>3, <1>4, <1>5, <1>6, <1>7, <1>8, <1>9, <1>10, <1>11, <1>12, <1>13
     DEF DispatchNext, OperatorStep, HandleReply, StartStep, AdminStep, CustomerStep,
         ReconcilerStep, DeliveryStep

TypeInv == DispatchTypeOK /\ ManualNamesOne

LEMMA TypeIsItsParts ==
    TypeInv <=> /\ request \in Request
                /\ RowsOK
                /\ HandlersOK
                /\ PointersOK
BY DEF TypeInv, DispatchTypeOK, Request, RowsOK, HandlersOK, PointersOK

LEMMA TypeInit ==
    ASSUME DispatchInit
    PROVE  TypeInv
<1> USE DEF DispatchInit
<1>1. request \in Request
  BY DEF Request
<1>2. RowsOK
  BY BoundAssumption DEF RowsOK
<1>3. HandlersOK
  <2>1. 0 \in 0 .. OfferTime /\ 0 \in 0 .. MaxExpands /\ 0 \in 0 .. MaxManual
        /\ 0 \in 0 .. MaxCrashes
    BY BoundAssumption, TimeAssumption
  <2>2. NoStart \in [pc : {"idle", "expand", "called", "read", "write"},
                     round : Nat, asked : SUBSET Operators]
        /\ [NoStart EXCEPT !.pc = "called"]
               \in [pc : {"idle", "expand", "called", "read", "write"},
                    round : Nat, asked : SUBSET Operators]
    BY DEF NoStart
  <2>3. start \in [Starters -> [pc : {"idle", "expand", "called", "read", "write"},
                                round : Nat, asked : SUBSET Operators]]
    BY <2>2
  <2>4. manual \in [pc : {"idle", "read", "write"}, op : Operators \cup {None},
                    left : 0 .. OfferTime] /\ manual.pc = "idle"
    BY <2>1 DEF NoManual
  <2>5. QED
    BY <2>1, <2>3, <2>4 DEF HandlersOK, ManualNamesOne
<1>4. PointersOK
  BY DEF PointersOK, NoSession, NoChoice
<1>5. QED
  BY <1>1, <1>2, <1>3, <1>4, TypeIsItsParts

LEMMA TypeStep ==
    ASSUME TypeInv, [DispatchNext]_dispatchVars
    PROVE  TypeInv'
<1>1. DispatchTypeOK /\ ManualNamesOne
  BY DEF TypeInv
<1>2. request' \in Request
  BY <1>1, RequestStep DEF RequestMove
<1>3. RowsOK'
  BY <1>1, RowsStep DEF RowsGrow
<1>4. HandlersOK' /\ PointersOK'
  BY <1>1, HandlersStep, PointersStep
<1>5. QED
  BY <1>2, <1>3, <1>4, TypeIsItsParts
     DEF TypeInv, DispatchTypeOK, Request, RowsOK, HandlersOK, PointersOK

(* Every row is an offer of the request, every handler at one of its       *)
(* steps, and every list and choice points at rows that exist.             *)
THEOREM DispatchTypeCorrect == DispatchSpec => []DispatchTypeOK
<1>1. DispatchInit => TypeInv
  BY TypeInit
<1>2. TypeInv /\ [DispatchNext]_dispatchVars => TypeInv'
  BY TypeStep
<1>3. TypeInv => DispatchTypeOK
  BY DEF TypeInv
<1>4. QED
  BY <1>1, <1>2, <1>3, PTL DEF DispatchSpec

LEMMA DeadlineStep ==
    ASSUME TypeInv, [DispatchNext]_dispatchVars, request.deadline # None
    PROVE  request'.deadline # None /\ request'.deadline <= request.deadline
<1>1. DeadlineMove /\ request.deadline \in 0 .. CollectTime /\ CollectTime \in Nat
  BY RequestStep, StepTypes, TimeAssumption DEF TypeInv, RequestMove, Request
<1>2. None \notin Nat
  BY NoneAssumption
<1>3. Sooner(request.deadline) \in Nat /\ Sooner(request.deadline) <= request.deadline
  BY <1>1, SoonerIsSooner
<1>4. QED
  BY <1>1, <1>2, <1>3 DEF DeadlineMove

(* DeadlineNeverLater: once the collection of quotes has a deadline, no    *)
(* second quote, Expand, new batch or restart moves it later               *)
(* (beginQuoteCollectionIfFirst's updateMany on a deadline still null).    *)
THEOREM DeadlineIsNeverLater == DispatchSpec => DeadlineNeverLater
<1>1. DispatchInit => TypeInv
  BY TypeInit
<1>2. TypeInv /\ [DispatchNext]_dispatchVars => TypeInv'
  BY TypeStep
<1>3. TypeInv /\ [DispatchNext]_dispatchVars =>
          [request.deadline # None =>
              request'.deadline # None /\ request'.deadline <= request.deadline]_dispatchVars
  BY DeadlineStep
<1>4. QED
  BY <1>1, <1>2, <1>3, PTL DEF DispatchSpec, DeadlineNeverLater

-----------------------------------------------------------------------------
(* Who is booked.  A step keeps the booked offers as they are, whatever it *)
(* does to the others, or books one more offer of a request that was being *)
(* dispatched and no longer is.                                            *)
Booked == Having("SELECTED_PENDING_PAYMENT")

BookMove ==
    \/ /\ Booked' = Booked
       /\ request'.status = request.status \/ request'.status = "CANCELLED"
    \/ /\ Dispatching
       /\ request'.status = "WAITING_FOR_DEPOSIT"
       /\ \E j : Booked' = Booked \cup {j}

LEMMA EndingKeepsBooked ==
    ASSUME RowsOK, NEW S, S \cap Booked = {},
           NEW s \in OfferStatuses \ {"SELECTED_PENDING_PAYMENT"},
           offers' = Ended(offers, S, s)
    PROVE  Booked' = Booked
<1>1. /\ Len(offers') = Len(offers)
      /\ \A i \in 1 .. Len(offers) :
            offers'[i].status = IF i \in S THEN s ELSE offers[i].status
  BY EndedRows DEF RowsOK
<1>2. QED
  BY <1>1 DEF Booked, Having, OfferIds

LEMMA RoundBooksNobody ==
    ASSUME request \in Request, NEW rows \in Seq(Offer), Len(rows) = Len(offers),
           \A i \in OfferIds : rows[i].status = "SELECTED_PENDING_PAYMENT" <=> i \in Booked,
           NEW req \in Request, req.status = request.status,
           RoundOpened(rows, req) \/ RoundExhausted(rows, req)
    PROVE  BookMove
<1> DEFINE sel == "SELECTED_PENDING_PAYMENT"
<1>0. Len(offers) \in Nat /\ Booked = {i \in OfferIds : rows[i].status = sel}
  BY DEF Booked, Having, OfferIds
<1>1. CASE RoundOpened(rows, req)
  <2>1. PICK r \in Nat, batch \in SUBSET Operators :
            /\ offers' \in Seq(Offer)
            /\ Len(rows) < Len(offers')
            /\ \A i \in 1 .. Len(rows) : offers'[i] = rows[i]
            /\ \A i \in (Len(rows) + 1) .. Len(offers') : offers'[i].status = "PENDING"
            /\ request' = [req EXCEPT !.asked = @ \cup batch, !.round = r, !.manual = FALSE]
    BY <1>1 DEF RoundOpened
  <2>2. request'.status = request.status
    BY <2>1 DEF Request
  <2>3. \A i \in OfferIds' : offers'[i].status = sel <=> i \in OfferIds /\ rows[i].status = sel
    BY <1>0, <2>1 DEF OfferIds
  <2>4. OfferIds \subseteq OfferIds'
    BY <1>0, <2>1 DEF OfferIds
  <2>5. Booked' = Booked
    BY <1>0, <2>3, <2>4 DEF Booked, Having
  <2>6. QED
    BY <2>2, <2>5 DEF BookMove
<1>2. CASE RoundExhausted(rows, req)
  <2> DEFINE gone == {i \in DOMAIN rows : rows[i].status = "PENDING"}
  <2>1. PICK r \in Nat :
            \/ request' = [req EXCEPT !.manual = TRUE, !.round = r] /\ offers' = rows
            \/ /\ request' = [req EXCEPT !.status = "CANCELLED", !.manual = FALSE, !.round = r]
               /\ offers' = Ended(rows, gone, "TIMED_OUT")
    BY <1>2 DEF RoundExhausted
  <2>2. request'.status = request.status \/ request'.status = "CANCELLED"
    BY <2>1 DEF Request
  <2>3. /\ Len(Ended(rows, gone, "TIMED_OUT")) = Len(rows)
        /\ \A i \in 1 .. Len(rows) :
              Ended(rows, gone, "TIMED_OUT")[i].status =
                  IF i \in gone THEN "TIMED_OUT" ELSE rows[i].status
    BY EndedRows DEF OfferStatuses
  <2>5. \A i \in gone : rows[i].status # sel
    OBVIOUS
  <2>6. Len(offers') = Len(rows)
        /\ \A i \in 1 .. Len(rows) : offers'[i].status = sel <=> rows[i].status = sel
    <3> HIDE DEF gone
    <3>1. QED
      BY <2>1, <2>3, <2>5
  <2>7. Booked' = Booked
    BY <1>0, <2>6 DEF Booked, Having, OfferIds
  <2>8. QED
    BY <2>2, <2>7 DEF BookMove
<1>3. QED
  BY <1>1, <1>2

LEMMA BookStep ==
    ASSUME TypeInv, [DispatchNext]_dispatchVars
    PROVE  BookMove
<1> USE DEF OfferStatuses
<1>0. RowsOK /\ Len(offers) \in Nat /\ request \in Request /\ offers \in Seq(Offer)
  BY StepTypes DEF RowsOK, TypeInv
<1>a. Pending \cap Booked = {} /\ Quoted \cap Booked = {}
  BY DEF Pending, Quoted, Booked, Having
<1>u. ASSUME UNCHANGED offers PROVE Booked' = Booked
  BY <1>u DEF Booked, Having, OfferIds
<1>e. ASSUME NEW S, S \in SUBSET Pending \/ S \in SUBSET Quoted,
             NEW s \in OfferStatuses \ {"SELECTED_PENDING_PAYMENT"},
             offers' = Ended(offers, S, s)
      PROVE  Booked' = Booked
  <2>1. S \cap Booked = {}
    BY <1>a, <1>e
  <2>2. QED
    BY <1>0, <1>e, <2>1, EndingKeepsBooked
<1>1. CASE UNCHANGED dispatchVars
  BY <1>1, <1>u DEF dispatchVars, BookMove
<1>2. ASSUME NEW i \in OfferIds, Quote(i) \/ Decline(i) \/ ClaimQuote(i) PROVE BookMove
  <2>1. UNCHANGED request
    BY <1>2 DEF Quote, Decline, ClaimQuote
  <2>2. \/ UNCHANGED offers
        \/ /\ i \in Pending
           /\ \E s \in OfferStatuses \ {"SELECTED_PENDING_PAYMENT"} : offers' = Ended(offers, {i}, s)
    BY <1>2 DEF Quote, Decline, ClaimQuote
  <2>3. CASE /\ i \in Pending
             /\ \E s \in OfferStatuses \ {"SELECTED_PENDING_PAYMENT"} :
                   offers' = Ended(offers, {i}, s)
    <3>1. {i} \in SUBSET Pending
      BY <2>3
    <3>2. QED
      BY <1>e, <2>1, <2>3, <3>1 DEF BookMove
  <2>4. QED
    BY <1>u, <2>1, <2>2, <2>3 DEF BookMove
<1>3. ASSUME NEW i \in OfferIds, BeginCollection(i) PROVE BookMove
  <2>1. request'.status = request.status
    BY <1>0, <1>3 DEF BeginCollection, Request
  <2>2. CASE request.deadline = None
    <3>1. offers' = [k \in OfferIds |->
                        IF k \in Pending /\ offers[k].left > CollectTime
                        THEN [offers[k] EXCEPT !.left = CollectTime] ELSE offers[k]]
      BY <1>3, <2>2 DEF BeginCollection
    <3>2. \A k \in OfferIds : offers'[k].status = offers[k].status
      BY <3>1, StepTypes DEF Offer, TypeInv
    <3>3. OfferIds' = OfferIds
      BY <1>0, <3>1 DEF OfferIds
    <3>4. Booked' = Booked
      BY <3>2, <3>3 DEF Booked, Having
    <3>5. QED
      BY <2>1, <3>4 DEF BookMove
  <2>3. CASE request.deadline # None
    BY <1>u, <1>3, <2>1, <2>3 DEF BeginCollection, BookMove
  <2>4. QED
    BY <2>2, <2>3
<1>4. ASSUME NEW i \in OfferIds, EarlyRead(i) \/ EarlyPull(i) PROVE BookMove
  <2>1. request'.status = request.status
    BY <1>0, <1>4 DEF EarlyRead, EarlyPull, Request
  <2>2. QED
    BY <1>u, <1>4, <2>1 DEF EarlyRead, EarlyPull, BookMove
<1>5. ASSUME NEW s \in Starters, StartRead(s) \/ StartCheck(s) PROVE BookMove
  BY <1>5, <1>u DEF StartRead, StartCheck, BookMove
<1>6. ASSUME NEW s \in Starters, StartWrite(s) PROVE BookMove
  <2>1. PrepareNextRound(offers, request, start[s].round, start[s].asked)
    BY <1>6 DEF StartWrite
  <2>2. RoundOpened(offers, request) \/ RoundExhausted(offers, request)
    BY <1>0, <2>1, StepTypes, NextRound DEF Request, TypeInv
  <2>3. \A i \in OfferIds : offers[i].status = "SELECTED_PENDING_PAYMENT" <=> i \in Booked
    BY DEF Booked, Having
  <2>4. QED
    BY <1>0, <2>2, <2>3, RoundBooksNobody
<1>7. CASE ExpandRead \/ ExpandWrite \/ ManualCheck \/ \E o \in Operators : ManualRead(o)
  <2>1. request'.status = request.status
    BY <1>0, <1>7 DEF ExpandRead, ExpandWrite, ManualCheck, ManualRead, Request
  <2>2. QED
    BY <1>u, <1>7, <2>1 DEF ExpandRead, ExpandWrite, ManualCheck, ManualRead, BookMove
<1>8. CASE ManualWrite
  <2>1. manual.op \in Operators /\ manual.left \in 0 .. OfferTime /\ request.round \in Nat
    BY <1>0, <1>8 DEF ManualNamesOne, ManualWrite, DispatchTypeOK, Request, TypeInv
  <2>2. Len(offers) < MaxOffers /\ request'.status = request.status
    BY <1>0, <1>8 DEF ManualWrite, Request
  <2>3. \/ UNCHANGED offers
        \/ offers' = Append(offers, NewOffer(manual.op, "PENDING", manual.left,
                                             Len(offers) + 1, request.round))
    BY <1>8 DEF ManualWrite
  <2>4. CASE offers' = Append(offers, NewOffer(manual.op, "PENDING", manual.left,
                                               Len(offers) + 1, request.round))
    <3>1. /\ Len(offers') = Len(offers) + 1
          /\ \A i \in OfferIds : offers'[i] = offers[i]
          /\ offers'[Len(offers) + 1].status = "PENDING"
      BY <1>0, <2>1, <2>2, <2>4, AppendedRowsGrow
    <3>2. Booked' = Booked
      BY <1>0, <3>1 DEF Booked, Having, OfferIds
    <3>3. QED
      BY <2>2, <3>2 DEF BookMove
  <2>5. QED
    BY <1>u, <2>2, <2>3, <2>4 DEF BookMove
<1>9. ASSUME NEW o \in Operators, AssignOperator(o) PROVE BookMove
  <2>1. /\ Len(offers) < MaxOffers
        /\ offers' = Append(offers, NewOffer(o, "SELECTED_PENDING_PAYMENT", 0,
                                             Len(offers) + 1, request.round))
    BY <1>9 DEF AssignOperator
  <2>2. 0 \in 0 .. OfferTime /\ request.round \in Nat
    BY <1>0, TimeAssumption DEF Request
  <2>3. /\ Len(offers') = Len(offers) + 1
        /\ \A i \in OfferIds : offers'[i] = offers[i]
        /\ offers'[Len(offers) + 1].status = "SELECTED_PENDING_PAYMENT"
    BY <1>0, <2>1, <2>2, AppendedRowsGrow
  <2>4. Booked' = Booked \cup {Len(offers) + 1}
    BY <1>0, <2>3 DEF Booked, Having, OfferIds
  <2>5. Dispatching /\ request'.status = "WAITING_FOR_DEPOSIT"
    BY <1>0, <1>9 DEF AssignOperator, Request
  <2>6. QED
    BY <2>4, <2>5 DEF BookMove
<1>10. CASE Cancel
  <2>1. request'.status = "CANCELLED"
    BY <1>0, <1>10 DEF Cancel, Request
  <2>2. QED
    BY <1>u, <1>10, <2>1 DEF Cancel, BookMove
<1>11. CASE CancelOffers
  <2> DEFINE one == Ended(offers, Quoted, "NOT_SELECTED")
  <2>1. /\ one \in Seq(Offer) /\ Len(one) = Len(offers)
        /\ \A i \in 1 .. Len(offers) :
              one[i].status = IF i \in Quoted THEN "NOT_SELECTED" ELSE offers[i].status
    <3>1. "NOT_SELECTED" \in OfferStatuses
      OBVIOUS
    <3> HIDE DEF OfferStatuses
    <3>2. QED
      BY <1>0, <3>1, EndedRows
  <2> HIDE DEF one
  <2>2. offers' = Ended(one, Pending, "TIMED_OUT")
    BY <1>11 DEF CancelOffers, one
  <2>3. /\ Len(offers') = Len(offers)
        /\ \A i \in 1 .. Len(offers) :
              offers'[i].status = IF i \in Pending THEN "TIMED_OUT" ELSE one[i].status
    BY <2>1, <2>2, EndedRows
  <2>5. \A i \in OfferIds : offers'[i].status = "SELECTED_PENDING_PAYMENT"
                            <=> offers[i].status = "SELECTED_PENDING_PAYMENT"
    BY <2>1, <2>3 DEF OfferIds, Pending, Quoted, Having
  <2>6. Booked' = Booked
    BY <2>3, <2>5 DEF Booked, Having, OfferIds
  <2>7. QED
    BY <1>11, <2>6 DEF CancelOffers, BookMove
<1>12. ASSUME NEW i \in OfferIds, SelectQuote(i) PROVE BookMove
  <2>1. PICK j \in Quoted :
            offers' = Ended(Ended(Ended(offers, {j}, "SELECTED_PENDING_PAYMENT"),
                                  Quoted \ {j}, "NOT_SELECTED"), Pending, "TIMED_OUT")
    BY <1>12 DEF SelectQuote
  <2> DEFINE one == Ended(offers, {j}, "SELECTED_PENDING_PAYMENT")
             two == Ended(one, Quoted \ {j}, "NOT_SELECTED")
  <2>2. /\ one \in Seq(Offer) /\ Len(one) = Len(offers)
        /\ \A k \in 1 .. Len(offers) :
              one[k].status = IF k \in {j} THEN "SELECTED_PENDING_PAYMENT" ELSE offers[k].status
    BY <1>0, EndedRows
  <2> HIDE DEF one
  <2>3. /\ two \in Seq(Offer) /\ Len(two) = Len(offers)
        /\ \A k \in 1 .. Len(offers) :
              two[k].status = IF k \in Quoted \ {j} THEN "NOT_SELECTED" ELSE one[k].status
    BY <2>2, EndedRows
  <2> HIDE DEF two
  <2>4. offers' = Ended(two, Pending, "TIMED_OUT")
    BY <2>1 DEF one, two
  <2>5. /\ Len(offers') = Len(offers)
        /\ \A k \in 1 .. Len(offers) :
              offers'[k].status = IF k \in Pending THEN "TIMED_OUT" ELSE two[k].status
    BY <2>3, <2>4, EndedRows
  <2>6. j \in OfferIds /\ j \notin Pending /\ offers[j].status = "QUOTED"
    BY DEF Quoted, Pending, Having
  <2>7. ASSUME NEW k \in OfferIds
        PROVE  offers'[k].status = "SELECTED_PENDING_PAYMENT"
               <=> k = j \/ offers[k].status = "SELECTED_PENDING_PAYMENT"
    <3>1. CASE k = j
      BY <2>2, <2>3, <2>5, <2>6, <3>1 DEF OfferIds
    <3>2. CASE k # j /\ k \in Quoted
      BY <2>3, <2>5, <3>2 DEF OfferIds, Quoted, Having
    <3>3. CASE k # j /\ k \in Pending
      BY <2>5, <3>3 DEF OfferIds, Pending, Having
    <3>4. CASE k # j /\ k \notin Quoted /\ k \notin Pending
      BY <2>2, <2>3, <2>5, <3>4 DEF OfferIds
    <3>5. QED
      BY <3>1, <3>2, <3>3, <3>4
  <2>11. Booked' = Booked \cup {j}
    BY <2>5, <2>6, <2>7 DEF Booked, Having, OfferIds
  <2>12. Dispatching /\ request'.status = "WAITING_FOR_DEPOSIT"
    BY <1>0, <1>12 DEF SelectQuote, Request
  <2>13. QED
    BY <2>11, <2>12 DEF BookMove
<1>13. ASSUME NEW b \in OfferIds, BatchQuery(b) PROVE BookMove
  BY <1>13, <1>u DEF BatchQuery, BookMove
<1>14. CASE BatchResolve
  <2> DEFINE round == offers[resolving].round
             rows == Ended(offers, Expired(resolving), "TIMED_OUT")
             advanced == [request EXCEPT !.round = round + 1]
  <2>1. round + 1 \in Nat
    <3>1. resolving \in OfferIds
      BY <1>14 DEF DispatchTypeOK, BatchResolve, TypeInv
    <3>2. round \in Nat
      BY <3>1, StepTypes DEF Offer, TypeInv
    <3>3. QED
      BY <3>2
  <2>2. Expired(resolving) \in SUBSET Pending
    BY DEF Expired
  <2>3. \/ UNCHANGED request /\ offers' = rows
        \/ /\ request' = [advanced EXCEPT !.closed = TRUE, !.selection = SelectTime]
           /\ offers' = Ended(offers, Pending, "TIMED_OUT")
        \/ PrepareNextRound(rows, advanced, round + 1, request.asked)
    BY <1>14, Zenon DEF BatchResolve
  <2>4. CASE UNCHANGED request /\ offers' = rows
    BY <1>e, <2>2, <2>4 DEF BookMove
  <2>5. CASE /\ request' = [advanced EXCEPT !.closed = TRUE, !.selection = SelectTime]
             /\ offers' = Ended(offers, Pending, "TIMED_OUT")
    <3>1. request'.status = request.status
      BY <1>0, <2>5 DEF Request
    <3>2. QED
      BY <1>e, <2>5, <3>1 DEF BookMove
  <2>6. CASE PrepareNextRound(rows, advanced, round + 1, request.asked)
    <3>1. /\ request.asked \in SUBSET Operators
          /\ request.deadline \in {None} \cup 0 .. CollectTime
      BY <1>0 DEF Request
    <3>2. advanced \in Request /\ advanced.status = request.status
      BY <1>0, <2>1 DEF Request
    <3>3. rows \in Seq(Offer) /\ Len(rows) = Len(offers)
          /\ \A i \in 1 .. Len(offers) :
                rows[i].status = IF i \in Expired(resolving) THEN "TIMED_OUT" ELSE offers[i].status
      BY <1>0, EndedRows
    <3>4. \A i \in Expired(resolving) : i \in OfferIds /\ offers[i].status = "PENDING"
      BY DEF Expired, Pending, Having
    <3> HIDE DEF round, rows, advanced
    <3>6. \A i \in OfferIds : rows[i].status = "SELECTED_PENDING_PAYMENT" <=> i \in Booked
      BY <3>3, <3>4 DEF Booked, Having, OfferIds
    <3>7. RoundOpened(rows, advanced) \/ RoundExhausted(rows, advanced)
      BY <2>1, <2>6, <3>1, <3>3, NextRound
    <3>8. QED
      BY <1>0, <3>2, <3>3, <3>6, <3>7, RoundBooksNobody
  <2>7. QED
    BY <2>3, <2>4, <2>5, <2>6
<1>15. CASE BiddingClose \/ QuoteSelectionTimeout
  <2>1. request'.status = request.status \/ request'.status = "CANCELLED"
    BY <1>0, <1>15 DEF BiddingClose, QuoteSelectionTimeout, Request
  <2>2. \E S \in {Pending, Quoted} : offers' = Ended(offers, S, "TIMED_OUT")
    BY <1>15 DEF BiddingClose, QuoteSelectionTimeout
  <2>3. QED
    BY <1>e, <2>1, <2>2 DEF BookMove
<1>16. CASE OfferSweep
  <2>1. UNCHANGED request /\ \E S \in SUBSET Pending : offers' = Ended(offers, S, "TIMED_OUT")
    BY <1>16 DEF OfferSweep
  <2>2. QED
    BY <1>e, <2>1 DEF BookMove
<1>17. ASSUME NEW d \in Senders, SendShortlist(d) \/ OpenChoice(d) PROVE BookMove
  BY <1>17, <1>u DEF SendShortlist, OpenChoice, BookMove
<1>18. CASE Tick
  <2>1. offers' = [i \in OfferIds |-> [offers[i] EXCEPT !.left = Sooner(@)]]
    BY <1>18 DEF Tick
  <2>2. \A k \in OfferIds : offers'[k].status = offers[k].status
    BY <2>1, StepTypes DEF Offer, TypeInv
  <2>3. OfferIds' = OfferIds
    BY <1>0, <2>1 DEF OfferIds
  <2>4. Booked' = Booked
    BY <2>2, <2>3 DEF Booked, Having
  <2>5. request'.status = request.status
    BY <1>0, <1>18 DEF Tick, Request
  <2>6. QED
    BY <2>4, <2>5 DEF BookMove
<1>19. CASE Restart
  BY <1>19, <1>u DEF Restart, BookMove
<1>20. QED
  BY <1>1, <1>2, <1>3, <1>4, <1>5, <1>6, <1>7, <1>8, <1>9, <1>10, <1>11, <1>12, <1>13, <1>14,
     <1>15, <1>16, <1>17, <1>18, <1>19
     DEF DispatchNext, OperatorStep, HandleReply, StartStep, AdminStep, CustomerStep,
         ReconcilerStep, DeliveryStep

(* What keeps the booking single: nobody is booked while the request is    *)
(* dispatched, and only a dispatched request can be booked.                *)
BookInv ==
    /\ Booked = {} \/ \E j : Booked = {j}
    /\ Dispatching => Booked = {}
    /\ request.status = "WAITING_FOR_DEPOSIT" => Booked # {}

LEMMA BookInit ==
    ASSUME DispatchInit
    PROVE  BookInv
BY DEF DispatchInit, BookInv, Booked, Having, OfferIds, Dispatching

LEMMA BookKeeps ==
    ASSUME BookInv, BookMove
    PROVE  BookInv'
<1>1. CASE /\ Booked' = Booked
           /\ request'.status = request.status \/ request'.status = "CANCELLED"
  <2>1. Dispatching' => Dispatching
    BY <1>1 DEF Dispatching
  <2>2. QED
    BY <1>1, <2>1 DEF BookInv
<1>2. CASE /\ Dispatching
           /\ request'.status = "WAITING_FOR_DEPOSIT"
           /\ \E j : Booked' = Booked \cup {j}
  <2>1. Booked = {}
    BY <1>2 DEF BookInv
  <2>2. PICK j : Booked' = {j}
    BY <1>2, <2>1
  <2>3. ~Dispatching'
    BY <1>2 DEF Dispatching
  <2>4. QED
    BY <2>2, <2>3 DEF BookInv
<1>3. QED
  BY <1>1, <1>2 DEF BookMove

(* OneOperatorIsBooked: however the motorist's choice (handleQuoteSelected),*)
(* an assignment by staff (assignOperator) and a cancellation cross, at    *)
(* most one operator is ever booked, and one is whenever the request waits *)
(* for a deposit.                                                          *)
THEOREM OnlyOneIsBooked == DispatchSpec => []OneOperatorIsBooked
<1> DEFINE Inv == TypeInv /\ BookInv
<1>1. DispatchInit => Inv
  BY TypeInit, BookInit
<1>2. Inv /\ [DispatchNext]_dispatchVars => Inv'
  <2>1. SUFFICES ASSUME TypeInv, BookInv, [DispatchNext]_dispatchVars
                 PROVE  TypeInv' /\ BookInv'
    OBVIOUS
  <2>2. BookMove
    BY <2>1, BookStep
  <2>3. QED
    BY <2>1, <2>2, TypeStep, BookKeeps
<1>3. Inv => OneOperatorIsBooked
  <2>1. SUFFICES ASSUME BookInv PROVE OneOperatorIsBooked
    OBVIOUS
  <2>2. Cardinality(Booked) <= 1
    <3>1. CASE Booked = {}
      BY <3>1, FS_EmptySet
    <3>2. CASE \E j : Booked = {j}
      <4>1. PICK j : Booked = {j}
        BY <3>2
      <4>2. Cardinality({j}) = 1
        BY FS_Singleton
      <4>3. QED
        BY <4>1, <4>2
    <3>3. QED
      BY <2>1, <3>1, <3>2 DEF BookInv
  <2>3. QED
    BY <2>1, <2>2 DEF BookInv, OneOperatorIsBooked, Booked
<1>4. QED
  BY <1>1, <1>2, <1>3, PTL DEF DispatchSpec

-----------------------------------------------------------------------------
(* What becomes of the rows in every step but the claim of a quote: a row  *)
(* keeps its batch and round and never becomes PENDING or QUOTED, and the  *)
(* rows that are added are one batch of their own, none of them QUOTED.    *)
Turned(rows, new) ==
    /\ Len(rows) <= Len(new)
    /\ \A i \in 1 .. Len(rows) :
          /\ new[i].batch = rows[i].batch
          /\ new[i].round = rows[i].round
          /\ new[i].status \in {"PENDING", "QUOTED"} => new[i].status = rows[i].status
    /\ \A i \in (Len(rows) + 1) .. Len(new) :
          new[i].status # "QUOTED" /\ new[i].batch = Len(rows) + 1

(* A claim that finds its offer pending.                                   *)
Claims(i) ==
    /\ i \in Pending /\ reply[i] = "open"
    /\ offers' = Ended(offers, {i}, "QUOTED")
    /\ reply' = [reply EXCEPT ![i] = "quoted"]
    /\ UNCHANGED <<request, session, start, manual, resolving, delivery, cancelling,
                   choice, expands, manuals, crashes, late>>

LEMMA SameTurns ==
    ASSUME NEW rows \in Seq(Offer)
    PROVE  Turned(rows, rows)
BY DEF Turned

LEMMA EndedTurns ==
    ASSUME NEW rows \in Seq(Offer), NEW S, NEW s \in OfferStatuses \ {"PENDING", "QUOTED"}
    PROVE  Turned(rows, Ended(rows, S, s))
<1> DEFINE new == Ended(rows, S, s)
<1>1. /\ new \in Seq(Offer) /\ Len(new) = Len(rows)
      /\ \A i \in 1 .. Len(rows) :
            /\ new[i].status = IF i \in S THEN s ELSE rows[i].status
            /\ new[i].batch = rows[i].batch
            /\ new[i].round = rows[i].round
  BY EndedRows
<1> HIDE DEF new
<1>2. Turned(rows, new)
  BY <1>1 DEF Turned
<1>3. QED
  BY <1>2 DEF new

LEMMA TurnsCompose ==
    ASSUME NEW a, NEW b, NEW c, Len(b) = Len(a), Len(a) \in Nat,
           Turned(a, b), Turned(b, c)
    PROVE  Turned(a, c)
BY DEF Turned

LEMMA RoundTurns ==
    ASSUME NEW rows \in Seq(Offer), NEW req,
           RoundOpened(rows, req) \/ RoundExhausted(rows, req)
    PROVE  Turned(rows, offers')
<1>1. CASE RoundOpened(rows, req)
  <2>1. /\ Len(rows) < Len(offers') /\ offers' \in Seq(Offer)
        /\ \A i \in 1 .. Len(rows) : offers'[i] = rows[i]
        /\ \A i \in (Len(rows) + 1) .. Len(offers') :
              offers'[i].status = "PENDING" /\ offers'[i].batch = Len(rows) + 1
    BY <1>1 DEF RoundOpened
  <2>2. QED
    BY <2>1 DEF Turned
<1>2. CASE RoundExhausted(rows, req)
  <2> DEFINE gone == {i \in DOMAIN rows : rows[i].status = "PENDING"}
  <2>1. offers' = rows \/ offers' = Ended(rows, gone, "TIMED_OUT")
    BY <1>2 DEF RoundExhausted
  <2>2. "TIMED_OUT" \in OfferStatuses \ {"PENDING", "QUOTED"}
    BY DEF OfferStatuses
  <2> HIDE DEF gone
  <2>3. QED
    BY <2>1, <2>2, SameTurns, EndedTurns
<1>3. QED
  BY <1>1, <1>2

LEMMA TurnStep ==
    ASSUME TypeInv, [DispatchNext]_dispatchVars
    PROVE  Turned(offers, offers') \/ \E i \in OfferIds : Claims(i)
<1> DEFINE T == Turned(offers, offers')
<1>0. RowsOK /\ Len(offers) \in Nat /\ request \in Request /\ offers \in Seq(Offer)
  BY StepTypes DEF RowsOK, TypeInv
<1>s. {"NOT_SELECTED", "DECLINED", "TIMED_OUT", "SELECTED_PENDING_PAYMENT"}
          \subseteq OfferStatuses \ {"PENDING", "QUOTED"}
  BY DEF OfferStatuses
<1>u. ASSUME UNCHANGED offers PROVE T
  BY <1>0, <1>u, SameTurns
<1>e. ASSUME NEW S, NEW s \in {"NOT_SELECTED", "DECLINED", "TIMED_OUT"},
             offers' = Ended(offers, S, s)
      PROVE  T
  <2>1. s \in OfferStatuses \ {"PENDING", "QUOTED"}
    BY <1>s
  <2>2. QED
    BY <1>0, <1>e, <2>1, EndedTurns
<1>1. CASE UNCHANGED dispatchVars
  BY <1>1, <1>u DEF dispatchVars
<1>2. ASSUME NEW i \in OfferIds, Quote(i) \/ Decline(i) PROVE T
  BY <1>2, <1>u, <1>e DEF Quote, Decline
<1>3. ASSUME NEW i \in OfferIds, ClaimQuote(i) PROVE T \/ Claims(i)
  BY <1>3, <1>u DEF ClaimQuote, Claims
<1>4. ASSUME NEW i \in OfferIds, BeginCollection(i) PROVE T
  <2>1. CASE request.deadline = None
    <3>1. offers' = [k \in OfferIds |->
                        IF k \in Pending /\ offers[k].left > CollectTime
                        THEN [offers[k] EXCEPT !.left = CollectTime] ELSE offers[k]]
      BY <1>4, <2>1 DEF BeginCollection
    <3>2. \A k \in OfferIds : /\ offers'[k].status = offers[k].status
                              /\ offers'[k].batch = offers[k].batch
                              /\ offers'[k].round = offers[k].round
      BY <3>1, StepTypes DEF Offer, TypeInv
    <3>3. Len(offers') = Len(offers)
      BY <1>0, <3>1 DEF OfferIds
    <3>4. QED
      BY <1>0, <3>2, <3>3 DEF Turned, OfferIds
  <2>2. CASE request.deadline # None
    BY <1>u, <1>4, <2>2 DEF BeginCollection
  <2>3. QED
    BY <2>1, <2>2
<1>5. ASSUME NEW i \in OfferIds, EarlyRead(i) \/ EarlyPull(i) PROVE T
  BY <1>u, <1>5 DEF EarlyRead, EarlyPull
<1>6. ASSUME NEW s \in Starters, StartRead(s) \/ StartCheck(s) PROVE T
  BY <1>6, <1>u DEF StartRead, StartCheck
<1>7. ASSUME NEW s \in Starters, StartWrite(s) PROVE T
  <2>1. PrepareNextRound(offers, request, start[s].round, start[s].asked)
    BY <1>7 DEF StartWrite
  <2>2. RoundOpened(offers, request) \/ RoundExhausted(offers, request)
    BY <1>0, <2>1, StepTypes, NextRound DEF Request, TypeInv
  <2>3. QED
    BY <1>0, <2>2, RoundTurns
<1>8. CASE ExpandRead \/ ExpandWrite \/ ManualCheck \/ \E o \in Operators : ManualRead(o)
  BY <1>u, <1>8 DEF ExpandRead, ExpandWrite, ManualCheck, ManualRead
<1>a. ASSUME NEW o \in Operators, NEW s \in {"PENDING", "SELECTED_PENDING_PAYMENT"},
             NEW left \in 0 .. OfferTime, Len(offers) < MaxOffers,
             offers' = Append(offers, NewOffer(o, s, left, Len(offers) + 1, request.round))
      PROVE  T
  <2>1. request.round \in Nat /\ s \in OfferStatuses
    BY <1>0 DEF Request, OfferStatuses
  <2>2. /\ Len(offers') = Len(offers) + 1
        /\ \A i \in OfferIds : offers'[i] = offers[i]
        /\ offers'[Len(offers) + 1].status = s
        /\ offers'[Len(offers) + 1].batch = Len(offers) + 1
    BY <1>0, <1>a, <2>1, AppendedRowsGrow
  <2>3. (Len(offers) + 1) .. Len(offers') = {Len(offers) + 1}
    BY <1>0, <2>2
  <2>4. QED
    BY <1>0, <2>2, <2>3 DEF Turned, OfferIds
<1>9. CASE ManualWrite
  <2>1. manual.op \in Operators /\ manual.left \in 0 .. OfferTime /\ Len(offers) < MaxOffers
    BY <1>0, <1>9 DEF ManualNamesOne, ManualWrite, DispatchTypeOK, TypeInv
  <2>2. \/ UNCHANGED offers
        \/ offers' = Append(offers, NewOffer(manual.op, "PENDING", manual.left,
                                             Len(offers) + 1, request.round))
    BY <1>9 DEF ManualWrite
  <2>3. QED
    BY <1>u, <1>a, <2>1, <2>2
<1>10. ASSUME NEW o \in Operators, AssignOperator(o) PROVE T
  <2>1. /\ Len(offers) < MaxOffers
        /\ offers' = Append(offers, NewOffer(o, "SELECTED_PENDING_PAYMENT", 0,
                                             Len(offers) + 1, request.round))
    BY <1>10 DEF AssignOperator
  <2>2. 0 \in 0 .. OfferTime
    BY TimeAssumption
  <2>3. QED
    BY <1>a, <2>1, <2>2
<1>11. CASE Cancel
  BY <1>u, <1>11 DEF Cancel
<1>12. CASE CancelOffers
  <2> DEFINE one == Ended(offers, Quoted, "NOT_SELECTED")
  <2>1. one \in Seq(Offer) /\ Len(one) = Len(offers) /\ Turned(offers, one)
    BY <1>0, <1>s, EndedRows, EndedTurns
  <2> HIDE DEF one
  <2>2. offers' = Ended(one, Pending, "TIMED_OUT")
    BY <1>12 DEF CancelOffers, one
  <2>3. Turned(one, offers')
    BY <1>s, <2>1, <2>2, EndedTurns
  <2>4. QED
    BY <1>0, <2>1, <2>3, TurnsCompose
<1>13. ASSUME NEW i \in OfferIds, SelectQuote(i) PROVE T
  <2>1. PICK j \in Quoted :
            offers' = Ended(Ended(Ended(offers, {j}, "SELECTED_PENDING_PAYMENT"),
                                  Quoted \ {j}, "NOT_SELECTED"), Pending, "TIMED_OUT")
    BY <1>13 DEF SelectQuote
  <2> DEFINE one == Ended(offers, {j}, "SELECTED_PENDING_PAYMENT")
             two == Ended(one, Quoted \ {j}, "NOT_SELECTED")
  <2>2. one \in Seq(Offer) /\ Len(one) = Len(offers) /\ Turned(offers, one)
    BY <1>0, <1>s, EndedRows, EndedTurns
  <2> HIDE DEF one
  <2>3. two \in Seq(Offer) /\ Len(two) = Len(offers) /\ Turned(one, two)
    BY <1>s, <2>2, EndedRows, EndedTurns
  <2> HIDE DEF two
  <2>4. offers' = Ended(two, Pending, "TIMED_OUT")
    BY <2>1 DEF one, two
  <2>5. Turned(two, offers')
    BY <1>s, <2>3, <2>4, EndedTurns
  <2>6. Turned(offers, two)
    BY <1>0, <2>2, <2>3, TurnsCompose
  <2>7. QED
    BY <1>0, <2>3, <2>5, <2>6, TurnsCompose
<1>14. ASSUME NEW b \in OfferIds, BatchQuery(b) PROVE T
  BY <1>u, <1>14 DEF BatchQuery
<1>15. CASE BatchResolve
  <2> DEFINE round == offers[resolving].round
             rows == Ended(offers, Expired(resolving), "TIMED_OUT")
             advanced == [request EXCEPT !.round = round + 1]
  <2>1. round + 1 \in Nat
    <3>1. resolving \in OfferIds
      BY <1>15 DEF DispatchTypeOK, BatchResolve, TypeInv
    <3>2. round \in Nat
      BY <3>1, StepTypes DEF Offer, TypeInv
    <3>3. QED
      BY <3>2
  <2>2. rows \in Seq(Offer) /\ Len(rows) = Len(offers) /\ Turned(offers, rows)
    BY <1>0, <1>s, EndedRows, EndedTurns
  <2>3. \/ offers' = rows
        \/ offers' = Ended(offers, Pending, "TIMED_OUT")
        \/ PrepareNextRound(rows, advanced, round + 1, request.asked)
    BY <1>15, Zenon DEF BatchResolve
  <2>4. CASE PrepareNextRound(rows, advanced, round + 1, request.asked)
    <3>1. /\ request.asked \in SUBSET Operators
          /\ request.deadline \in {None} \cup 0 .. CollectTime
      BY <1>0 DEF Request
    <3> HIDE DEF round, rows, advanced
    <3>2. RoundOpened(rows, advanced) \/ RoundExhausted(rows, advanced)
      BY <2>1, <2>2, <2>4, <3>1, NextRound
    <3>3. Turned(rows, offers')
      BY <2>2, <3>2, RoundTurns
    <3>4. QED
      BY <1>0, <2>2, <3>3, TurnsCompose
  <2>5. QED
    BY <1>e, <2>2, <2>3, <2>4
<1>16. CASE BiddingClose \/ QuoteSelectionTimeout \/ OfferSweep
  BY <1>16, <1>e DEF BiddingClose, QuoteSelectionTimeout, OfferSweep
<1>17. ASSUME NEW d \in Senders, SendShortlist(d) \/ OpenChoice(d) PROVE T
  BY <1>17, <1>u DEF SendShortlist, OpenChoice
<1>18. CASE Tick
  <2>1. offers' = [i \in OfferIds |-> [offers[i] EXCEPT !.left = Sooner(@)]]
    BY <1>18 DEF Tick
  <2>2. \A k \in OfferIds : /\ offers'[k].status = offers[k].status
                            /\ offers'[k].batch = offers[k].batch
                            /\ offers'[k].round = offers[k].round
    BY <2>1, StepTypes DEF Offer, TypeInv
  <2>3. Len(offers') = Len(offers)
    BY <1>0, <2>1 DEF OfferIds
  <2>4. QED
    BY <1>0, <2>2, <2>3 DEF Turned, OfferIds
<1>19. CASE Restart
  BY <1>19, <1>u DEF Restart
<1> HIDE DEF T
<1>20. QED
  BY <1>1, <1>2, <1>3, <1>4, <1>5, <1>6, <1>7, <1>8, <1>9, <1>10, <1>11, <1>12, <1>13, <1>14,
     <1>15, <1>16, <1>17, <1>18, <1>19
     DEF DispatchNext, OperatorStep, HandleReply, StartStep, AdminStep, CustomerStep,
         ReconcilerStep, DeliveryStep, T

-----------------------------------------------------------------------------
(* How the handling of answers moves.                                      *)
QuoteComing == \E i \in OfferIds : reply[i] = "quoted"

Crashes == /\ crashes' # 0
           /\ \A i \in 1 .. MaxOffers : reply'[i] = "none"
           /\ UNCHANGED <<request, offers>>

ReplyMove ==
    \/ Crashes
    \/ /\ crashes' = crashes
       /\ \/ reply' = reply
          \/ \E i \in OfferIds : Claims(i)
          \/ \E i \in Pending :
                /\ ~BiddingClosed /\ reply[i] = "none"
                /\ reply' = [reply EXCEPT ![i] = "open"]
                /\ UNCHANGED <<request, offers>>
          \/ \E i \in OfferIds, v \in {"none", "answered", "early"} :
                /\ reply' = [reply EXCEPT ![i] = v]
                /\ reply[i] = "quoted" => request'.deadline # None
                /\ request'.closed = request.closed

(* Closing the bidding ends every pending offer and touches no answer.     *)
ClosingEndsOffers ==
    request'.closed /\ ~request.closed => Pending' = {} /\ reply' = reply

LEMMA ReplyStep ==
    ASSUME TypeInv, [DispatchNext]_dispatchVars
    PROVE  ReplyMove
<1>0. request \in Request /\ crashes \in Nat
      /\ reply \in [1 .. MaxOffers -> {"none", "open", "quoted", "answered", "early"}]
      /\ OfferIds \subseteq 1 .. MaxOffers
  <2>1. Len(offers) \in Nat /\ Len(offers) <= MaxOffers /\ MaxOffers \in Nat /\ MaxCrashes \in Nat
    BY StepTypes, BoundAssumption DEF RowsOK, TypeInv
  <2>2. QED
    BY <2>1, StepTypes DEF TypeInv, DispatchTypeOK, OfferIds
<1>u. ASSUME UNCHANGED <<reply, crashes>> PROVE ReplyMove
  BY <1>u DEF ReplyMove
<1>v. ASSUME NEW i \in OfferIds, NEW v \in {"none", "answered", "early"}, crashes' = crashes,
             reply' = [reply EXCEPT ![i] = v], reply[i] = "quoted" => request'.deadline # None,
             request'.closed = request.closed
      PROVE  ReplyMove
  BY <1>v DEF ReplyMove
<1>1. CASE UNCHANGED dispatchVars
  BY <1>1, <1>u DEF dispatchVars
<1>2. ASSUME NEW i \in OfferIds, Quote(i) PROVE ReplyMove
  <2>1. CASE UNCHANGED reply
    BY <1>2, <1>u, <2>1 DEF Quote
  <2>2. CASE ~BiddingClosed /\ reply' = [reply EXCEPT ![i] = "open"] /\ UNCHANGED offers
    BY <1>2, <2>2 DEF Quote, ReplyMove
  <2>3. QED
    BY <1>2, <2>1, <2>2 DEF Quote
<1>3. ASSUME NEW i \in OfferIds, ClaimQuote(i) PROVE ReplyMove
  <2>1. CASE Claims(i)
    BY <2>1 DEF Claims, ReplyMove
  <2>2. CASE reply' = [reply EXCEPT ![i] = "none"] /\ UNCHANGED <<request, crashes>>
    <3>1. reply[i] # "quoted"
      BY <1>3 DEF ClaimQuote
    <3>2. QED
      BY <1>v, <2>2, <3>1
  <2>3. QED
    BY <1>3, <2>1, <2>2 DEF ClaimQuote, Claims
<1>4. ASSUME NEW i \in OfferIds, Decline(i) PROVE ReplyMove
  BY <1>4, <1>v DEF Decline
<1>5. ASSUME NEW i \in OfferIds, BeginCollection(i) PROVE ReplyMove
  <2>1. request'.deadline # None
    BY <1>0, <1>5, WindowsAreWindows DEF BeginCollection, Request
  <2>2. request'.closed = request.closed
    BY <1>0, <1>5 DEF BeginCollection, Request
  <2>3. QED
    BY <1>5, <1>v, <2>1, <2>2 DEF BeginCollection
<1>6. ASSUME NEW i \in OfferIds, EarlyRead(i) PROVE ReplyMove
  <2>1. reply[i] # "quoted" /\ UNCHANGED <<request, crashes>>
    BY <1>6 DEF EarlyRead
  <2>2. \E v \in {"none", "early"} : reply' = [reply EXCEPT ![i] = v]
    BY <1>6 DEF EarlyRead
  <2>3. QED
    BY <1>v, <2>1, <2>2
<1>7. ASSUME NEW i \in OfferIds, EarlyPull(i) PROVE ReplyMove
  <2>1. reply[i] # "quoted" /\ request'.closed = request.closed
    BY <1>0, <1>7 DEF EarlyPull, Request
  <2>2. QED
    BY <1>7, <1>v, <2>1 DEF EarlyPull
<1>8. ASSUME NEW s \in Starters, StartRead(s) \/ StartCheck(s) \/ StartWrite(s) PROVE ReplyMove
  BY <1>8, <1>u DEF StartRead, StartCheck, StartWrite
<1>9. CASE \/ ExpandRead \/ ExpandWrite \/ ManualCheck \/ ManualWrite
           \/ \E o \in Operators : ManualRead(o) \/ AssignOperator(o)
  BY <1>9, <1>u DEF ExpandRead, ExpandWrite, ManualCheck, ManualRead, ManualWrite, AssignOperator
<1>10. CASE Cancel \/ CancelOffers \/ \E i \in OfferIds : SelectQuote(i)
  BY <1>10, <1>u DEF Cancel, CancelOffers, SelectQuote
<1>11. CASE \/ BiddingClose \/ QuoteSelectionTimeout \/ OfferSweep \/ BatchResolve
            \/ \E b \in OfferIds : BatchQuery(b)
  BY <1>11, <1>u DEF BiddingClose, QuoteSelectionTimeout, OfferSweep, BatchResolve, BatchQuery
<1>12. ASSUME NEW d \in Senders, SendShortlist(d) \/ OpenChoice(d) PROVE ReplyMove
  BY <1>12, <1>u DEF SendShortlist, OpenChoice
<1>13. CASE Tick
  BY <1>13, <1>u DEF Tick
<1>14. CASE Restart
  BY <1>0, <1>14 DEF Restart, Crashes, ReplyMove
<1>15. QED
  BY <1>1, <1>2, <1>3, <1>4, <1>5, <1>6, <1>7, <1>8, <1>9, <1>10, <1>11, <1>12, <1>13, <1>14
     DEF DispatchNext, OperatorStep, HandleReply, StartStep, AdminStep, CustomerStep,
         ReconcilerStep, DeliveryStep

LEMMA NothingLeftPending ==
    ASSUME RowsOK, offers' = Ended(offers, Pending, "TIMED_OUT")
    PROVE  Pending' = {}
<1>1. "TIMED_OUT" \in OfferStatuses
  BY DEF OfferStatuses
<1>2. /\ Len(offers') = Len(offers)
      /\ \A i \in 1 .. Len(offers) :
            offers'[i].status = IF i \in Pending THEN "TIMED_OUT" ELSE offers[i].status
  BY <1>1, EndedRows DEF RowsOK
<1>3. QED
  BY <1>2 DEF Pending, Having, OfferIds

LEMMA ClosingStep ==
    ASSUME TypeInv, [DispatchNext]_dispatchVars
    PROVE  ClosingEndsOffers
<1>0. request \in Request /\ RowsOK
  BY StepTypes DEF TypeInv
<1>k. ASSUME request'.closed = request.closed PROVE ClosingEndsOffers
  BY <1>k DEF ClosingEndsOffers
<1>c. ASSUME offers' = Ended(offers, Pending, "TIMED_OUT"), reply' = reply
      PROVE  ClosingEndsOffers
  BY <1>0, <1>c, NothingLeftPending DEF ClosingEndsOffers
<1>1. CASE UNCHANGED dispatchVars
  BY <1>1, <1>k DEF dispatchVars
<1>2. ASSUME NEW i \in OfferIds,
             \/ Quote(i) \/ Decline(i) \/ ClaimQuote(i)
             \/ BeginCollection(i) \/ EarlyRead(i) \/ EarlyPull(i)
      PROVE  ClosingEndsOffers
  <2>1. request'.closed = request.closed
    BY <1>0, <1>2
       DEF Quote, Decline, ClaimQuote, BeginCollection, EarlyRead, EarlyPull, Request
  <2>2. QED
    BY <1>k, <2>1
<1>3. ASSUME NEW s \in Starters, StartRead(s) \/ StartCheck(s) \/ StartWrite(s)
      PROVE  ClosingEndsOffers
  <2>1. request'.closed = request.closed
    BY <1>0, <1>3
       DEF StartRead, StartCheck, StartWrite, PrepareNextRound, WriteRound, ResolveExhaustion,
           Request
  <2>2. QED
    BY <1>k, <2>1
<1>4. CASE \/ ExpandRead \/ ExpandWrite \/ ManualCheck \/ ManualWrite
           \/ \E o \in Operators : ManualRead(o) \/ AssignOperator(o)
  <2>1. request'.closed = request.closed
    BY <1>0, <1>4
       DEF ExpandRead, ExpandWrite, ManualCheck, ManualRead, ManualWrite, AssignOperator, Request
  <2>2. QED
    BY <1>k, <2>1
<1>5. CASE Cancel \/ CancelOffers \/ \E i \in OfferIds : SelectQuote(i)
  <2>1. request'.closed = request.closed
    BY <1>0, <1>5 DEF Cancel, CancelOffers, SelectQuote, Request
  <2>2. QED
    BY <1>k, <2>1
<1>6. CASE BiddingClose
  BY <1>6, <1>c DEF BiddingClose
<1>7. CASE BatchResolve
  <2> DEFINE round == offers[resolving].round
             rows == Ended(offers, Expired(resolving), "TIMED_OUT")
             advanced == [request EXCEPT !.round = round + 1]
  <2>1. reply' = reply
    BY <1>7 DEF BatchResolve
  <2>2. \/ UNCHANGED request
        \/ offers' = Ended(offers, Pending, "TIMED_OUT")
        \/ PrepareNextRound(rows, advanced, round + 1, request.asked)
    BY <1>7, Zenon DEF BatchResolve
  <2>3. advanced \in [status : {"DISPATCHING", "WAITING_FOR_DEPOSIT", "CANCELLED"},
                      round : {round + 1}, asked : SUBSET Operators,
                      deadline : {None} \cup 0 .. CollectTime, closed : BOOLEAN,
                      selection : {None} \cup 0 .. SelectTime, manual : BOOLEAN]
        /\ advanced.closed = request.closed
    BY <1>0 DEF Request
  <2>4. CASE PrepareNextRound(rows, advanced, round + 1, request.asked)
    <3> HIDE DEF rows, advanced, round
    <3>1. request'.closed = advanced.closed
      BY <2>3, <2>4 DEF PrepareNextRound, WriteRound, ResolveExhaustion
    <3>2. QED
      BY <1>k, <2>3, <3>1
  <2>5. QED
    BY <1>c, <1>k, <2>1, <2>2, <2>4
<1>8. CASE QuoteSelectionTimeout \/ OfferSweep \/ \E b \in OfferIds : BatchQuery(b)
  <2>1. request'.closed = request.closed
    BY <1>0, <1>8 DEF QuoteSelectionTimeout, OfferSweep, BatchQuery, Request
  <2>2. QED
    BY <1>k, <2>1
<1>9. CASE Tick
  <2>1. request'.closed = request.closed
    BY <1>0, <1>9 DEF Tick, Request
  <2>2. QED
    BY <1>k, <2>1
<1>10. CASE Restart \/ \E d \in Senders : SendShortlist(d) \/ OpenChoice(d)
  BY <1>10, <1>k DEF Restart, SendShortlist, OpenChoice
<1>11. QED
  BY <1>1, <1>2, <1>3, <1>4, <1>5, <1>6, <1>7, <1>8, <1>9, <1>10
     DEF DispatchNext, OperatorStep, HandleReply, StartStep, AdminStep, CustomerStep,
         ReconcilerStep, DeliveryStep

-----------------------------------------------------------------------------
(* What keeps late quotes out.  Closing ends every pending offer, so an    *)
(* answer that had looked before the close finds its offer gone; an offer  *)
(* written after it is answered by nobody who looked before.               *)
OpenInv ==
    /\ \A i \in 1 .. MaxOffers : i \notin OfferIds => reply[i] = "none"
    /\ request.closed => \A i \in Pending : reply[i] # "open"

LEMMA OpenInit ==
    ASSUME DispatchInit
    PROVE  OpenInv
BY DEF DispatchInit, OpenInv, OfferIds, Pending, Having

(* The rows as the two shapes of a step leave them.                        *)
LEMMA RowsAfter ==
    ASSUME TypeInv, [DispatchNext]_dispatchVars
    PROVE  /\ OfferIds \subseteq OfferIds' /\ OfferIds' \subseteq 1 .. MaxOffers
           /\ \A i \in OfferIds : i \in Pending' => i \in Pending
           /\ \/ Quoted' \subseteq Quoted
              \/ \E i \in OfferIds : Claims(i) /\ Quoted' \subseteq Quoted \cup {i}
<1>1. RowsOK /\ RowsOK' /\ Len(offers) \in Nat /\ Len(offers') \in Nat /\ MaxOffers \in Nat
      /\ Len(offers) <= Len(offers')
  BY StepTypes, RowsStep, BoundAssumption DEF RowsOK, RowsGrow, TypeInv
<1>2. OfferIds \subseteq OfferIds' /\ OfferIds' \subseteq 1 .. MaxOffers
  BY <1>1 DEF OfferIds, RowsOK
<1>3. CASE Turned(offers, offers')
  <2>1. \A i \in OfferIds : i \in Pending' => i \in Pending
    BY <1>3 DEF Turned, Pending, Having, OfferIds
  <2>2. ASSUME NEW i \in Quoted' PROVE i \in Quoted
    <3>1. i \in OfferIds' /\ offers'[i].status = "QUOTED"
      BY DEF Quoted, Having
    <3>2. i \in OfferIds
      BY <1>1, <1>3, <3>1 DEF Turned, OfferIds
    <3>3. offers[i].status = "QUOTED"
      BY <1>3, <3>1, <3>2 DEF Turned, OfferIds
    <3>4. QED
      BY <3>2, <3>3 DEF Quoted, Having
  <2>3. QED
    BY <1>2, <2>1, <2>2
<1>4. ASSUME NEW i \in OfferIds, Claims(i)
      PROVE  /\ \A k \in OfferIds : k \in Pending' => k \in Pending
             /\ Quoted' \subseteq Quoted \cup {i}
  <2>1. "QUOTED" \in OfferStatuses
    BY DEF OfferStatuses
  <2>2. /\ Len(offers') = Len(offers)
        /\ \A k \in 1 .. Len(offers) :
              offers'[k].status = IF k \in {i} THEN "QUOTED" ELSE offers[k].status
    BY <1>1, <1>4, <2>1, EndedRows DEF Claims, RowsOK
  <2>3. QED
    BY <2>2 DEF Pending, Quoted, Having, OfferIds
<1>5. QED
  BY <1>2, <1>3, <1>4, TurnStep

LEMMA OpenStep ==
    ASSUME TypeInv, OpenInv, [DispatchNext]_dispatchVars
    PROVE  OpenInv'
<1>1. ReplyMove /\ ClosingEndsOffers
  BY ReplyStep, ClosingStep
<1>2. /\ OfferIds \subseteq OfferIds' /\ OfferIds' \subseteq 1 .. MaxOffers
      /\ \A i \in OfferIds : i \in Pending' => i \in Pending
  BY RowsAfter
<1>3. reply \in [1 .. MaxOffers -> {"none", "open", "quoted", "answered", "early"}]
      /\ request.closed \in BOOLEAN
  BY StepTypes DEF TypeInv, DispatchTypeOK, Request
<1>4. ASSUME NEW i \in 1 .. MaxOffers, i \notin OfferIds
      PROVE  reply'[i] = "none"
  <2>1. reply[i] = "none"
    BY <1>4 DEF OpenInv
  <2>2. \A k \in Pending : k \in OfferIds
    BY DEF Pending, Having
  <2>3. QED
    BY <1>1, <1>3, <1>4, <2>1, <2>2 DEF ReplyMove, Claims, Crashes
<1>5. ASSUME request'.closed, NEW i \in Pending', reply'[i] = "open"
      PROVE  FALSE
  <2>1. i \in OfferIds' /\ i \in 1 .. MaxOffers
    BY <1>2 DEF Pending, Having
  <2>2. i \in OfferIds
    BY <1>4, <1>5, <2>1
  <2>3. i \in Pending
    BY <1>2, <2>2
  <2>4. request.closed
    BY <1>1, <1>5 DEF ClosingEndsOffers
  <2>5. reply[i] # "open"
    BY <2>3, <2>4 DEF OpenInv
  <2>6. BiddingClosed
    BY <2>4 DEF BiddingClosed
  <2>7. QED
    BY <1>1, <1>3, <1>5, <2>1, <2>5, <2>6 DEF ReplyMove, Claims, Crashes
<1>6. QED
  BY <1>2, <1>4, <1>5 DEF OpenInv

LEMMA LateQuotesStayOut ==
    ASSUME TypeInv, OpenInv, [DispatchNext]_dispatchVars, request.closed
    PROVE  Quoted' \subseteq Quoted
<1>1. \A i \in OfferIds : ~Claims(i)
  BY DEF OpenInv, Claims
<1>2. QED
  BY <1>1, RowsAfter

(* ClosedBiddingTakesNoQuote: once bidding has been closed no quote joins  *)
(* those the motorist was sent, though claimOfferInTx reads the close      *)
(* before it claims and startDispatch and manualOfferToOperator may still  *)
(* write an offer after it.                                                *)
THEOREM ClosedBiddingTakesNone == DispatchSpec => ClosedBiddingTakesNoQuote
<1> DEFINE Inv == TypeInv /\ OpenInv
<1>1. DispatchInit => Inv
  BY TypeInit, OpenInit
<1>2. Inv /\ [DispatchNext]_dispatchVars => Inv'
  BY TypeStep, OpenStep
<1>3. Inv /\ [DispatchNext]_dispatchVars
      => [request.closed => Quoted' \subseteq Quoted]_dispatchVars
  BY LateQuotesStayOut
<1>4. QED
  BY <1>1, <1>2, <1>3, PTL DEF DispatchSpec, ClosedBiddingTakesNoQuote

-----------------------------------------------------------------------------
(* While nothing has restarted, the first quote is in the hands of the     *)
(* handler that will set the deadline until there is a deadline.           *)
QuoteInv == crashes = 0 /\ request.deadline = None /\ Quoted # {} => QuoteComing

LEMMA QuoteInit ==
    ASSUME DispatchInit
    PROVE  QuoteInv
BY DEF DispatchInit, QuoteInv, Quoted, Having, OfferIds

(* A quote on its way to the deadline arrives there or is still coming.    *)
LEMMA ComingStep ==
    ASSUME TypeInv, [DispatchNext]_dispatchVars, QuoteComing,
           crashes' = 0, request'.deadline = None
    PROVE  QuoteComing'
<1>1. ReplyMove
  BY ReplyStep
<1>2. OfferIds \subseteq OfferIds' /\ OfferIds' \subseteq 1 .. MaxOffers
  BY RowsAfter
<1>3. reply \in [1 .. MaxOffers -> {"none", "open", "quoted", "answered", "early"}]
  BY DEF TypeInv, DispatchTypeOK
<1>4. PICK i \in OfferIds : reply[i] = "quoted"
  BY DEF QuoteComing
<1>5. reply'[i] = "quoted"
  BY <1>1, <1>2, <1>3, <1>4 DEF ReplyMove, Claims, Crashes
<1>6. QED
  BY <1>2, <1>5 DEF QuoteComing

LEMMA QuoteStep ==
    ASSUME TypeInv, QuoteInv, [DispatchNext]_dispatchVars
    PROVE  QuoteInv'
<1> SUFFICES ASSUME crashes' = 0, request'.deadline = None, Quoted' # {}
             PROVE  QuoteComing'
  BY DEF QuoteInv
<1>1. request.deadline = None
  BY DeadlineStep
<1>2. crashes = 0
  BY ReplyStep DEF ReplyMove, Crashes
<1>3. CASE Quoted' \subseteq Quoted
  BY <1>1, <1>2, <1>3, ComingStep DEF QuoteInv
<1>4. CASE \E i \in OfferIds : Claims(i)
  <2>1. PICK i \in OfferIds : Claims(i)
    BY <1>4
  <2>2. OfferIds \subseteq OfferIds' /\ OfferIds' \subseteq 1 .. MaxOffers
    BY RowsAfter
  <2>3. reply'[i] = "quoted"
    BY <2>1, <2>2 DEF Claims, TypeInv, DispatchTypeOK
  <2>4. QED
    BY <2>2, <2>3 DEF QuoteComing
<1>5. QED
  BY <1>3, <1>4, RowsAfter

-----------------------------------------------------------------------------
(* What carries a request that is being dispatched, while nothing has      *)
(* restarted: a handler that will write a round, a quote on its way to the *)
(* deadline, or a batch of the current round that nothing has timed out -  *)
(* unless a check or staff have taken over.                                *)
Excused == \/ crashes # 0 \/ ~Dispatching \/ request.deadline # None
           \/ request.closed \/ request.manual

UnderWay == \E s \in Starters : start[s].pc # "idle"

Live == {"PENDING", "QUOTED", "DECLINED"}

Going(b) == /\ offers[b].batch = b
            /\ offers[b].round = request.round
            /\ \A i \in OfferIds : offers[i].batch = b => offers[i].status \in Live

Carried == Excused \/ UnderWay \/ QuoteComing \/ \E b \in OfferIds : Going(b)

BatchInv == \A i \in OfferIds : offers[i].batch \in OfferIds

CancelInv == cancelling => ~Dispatching

LEMMA BatchStep ==
    ASSUME TypeInv, BatchInv, [DispatchNext]_dispatchVars
    PROVE  BatchInv'
<1>1. RowsOK /\ RowsOK' /\ Len(offers) \in Nat /\ Len(offers') \in Nat
      /\ Len(offers) <= Len(offers')
  BY StepTypes, RowsStep DEF RowsOK, RowsGrow, TypeInv
<1>2. CASE Turned(offers, offers')
  <2>1. SUFFICES ASSUME NEW i \in OfferIds' PROVE offers'[i].batch \in OfferIds'
    BY DEF BatchInv
  <2>2. CASE i \in OfferIds
    <3>1. offers[i].batch \in 1 .. Len(offers) /\ offers'[i].batch = offers[i].batch
      BY <1>2, <2>2 DEF Turned, BatchInv, OfferIds
    <3>2. QED
      BY <1>1, <3>1 DEF OfferIds
  <2>3. CASE i \notin OfferIds
    <3>1. offers'[i].batch = Len(offers) + 1 /\ Len(offers) + 1 \in 1 .. Len(offers')
      BY <1>1, <1>2, <2>3 DEF Turned, OfferIds
    <3>2. QED
      BY <3>1 DEF OfferIds
  <2>4. QED
    BY <2>2, <2>3
<1>3. ASSUME NEW i \in OfferIds, Claims(i) PROVE BatchInv'
  <2>1. "QUOTED" \in OfferStatuses
    BY DEF OfferStatuses
  <2>2. /\ Len(offers') = Len(offers)
        /\ \A k \in 1 .. Len(offers) : offers'[k].batch = offers[k].batch
    BY <1>1, <1>3, <2>1, EndedRows DEF Claims, RowsOK
  <2>3. QED
    BY <2>2 DEF BatchInv, OfferIds
<1>4. QED
  BY <1>2, <1>3, TurnStep

(* A request never comes back to being dispatched.                         *)
LEMMA NeverBack ==
    ASSUME TypeInv, [DispatchNext]_dispatchVars, Dispatching'
    PROVE  Dispatching
BY BookStep DEF BookMove, Dispatching

LEMMA CancelStep ==
    ASSUME TypeInv, CancelInv, [DispatchNext]_dispatchVars
    PROVE  CancelInv'
<1>1. cancelling' => cancelling \/ request'.status = "CANCELLED"
  <2>0. request \in Request
    BY StepTypes DEF TypeInv
  <2>1. CASE Cancel
    BY <2>0, <2>1 DEF Cancel, Request
  <2>2. CASE UNCHANGED cancelling \/ cancelling' = FALSE
    BY <2>2
  <2>3. QED
    BY <2>1, <2>2
       DEF DispatchNext, OperatorStep, HandleReply, StartStep, AdminStep, CustomerStep,
           ReconcilerStep, DeliveryStep, Quote, Decline, ClaimQuote, BeginCollection, EarlyRead,
           EarlyPull, StartRead, StartCheck, StartWrite, ExpandRead, ExpandWrite, ManualRead,
           ManualCheck, ManualWrite, AssignOperator, CancelOffers, SelectQuote, BatchQuery,
           BatchResolve, BiddingClose, QuoteSelectionTimeout, OfferSweep, SendShortlist,
           OpenChoice, Tick, Restart, dispatchVars
<1>2. QED
  BY <1>1, NeverBack DEF CancelInv, Dispatching

(* A round that opens carries the request from there on, and a search that *)
(* ends hands it to staff or cancels it.                                   *)
LEMMA RoundCarries ==
    ASSUME TypeInv, BatchInv, NEW rows \in Seq(Offer), Len(rows) = Len(offers),
           \A i \in OfferIds : rows[i].batch = offers[i].batch, NEW req \in Request,
           RoundOpened(rows, req) \/ RoundExhausted(rows, req)
    PROVE  Excused' \/ \E b \in OfferIds' : Going(b)'
<1>0. Len(offers) \in Nat
  BY StepTypes DEF TypeInv
<1>1. CASE RoundOpened(rows, req)
  <2>1. PICK r \in Nat, batch \in SUBSET Operators :
            /\ offers' \in Seq(Offer)
            /\ Len(rows) < Len(offers')
            /\ \A i \in 1 .. Len(rows) : offers'[i] = rows[i]
            /\ \A i \in (Len(rows) + 1) .. Len(offers') :
                  /\ offers'[i].status = "PENDING"
                  /\ offers'[i].batch = Len(rows) + 1
                  /\ offers'[i].round = r
            /\ request' = [req EXCEPT !.asked = @ \cup batch, !.round = r, !.manual = FALSE]
    BY <1>1 DEF RoundOpened
  <2> DEFINE b == Len(offers) + 1
  <2>2. request'.round = r
    BY <2>1 DEF Request
  <2>3. b \in OfferIds' /\ offers'[b].batch = b /\ offers'[b].round = r
    BY <1>0, <2>1 DEF OfferIds
  <2>4. ASSUME NEW i \in OfferIds', offers'[i].batch = b PROVE offers'[i].status \in Live
    <3>1. i \notin OfferIds
      <4>1. ASSUME i \in OfferIds PROVE FALSE
        <5>1. offers'[i].batch = offers[i].batch
          BY <2>1, <4>1 DEF OfferIds
        <5>2. offers[i].batch <= Len(offers) /\ offers[i].batch \in Nat
          BY <1>0, <4>1 DEF BatchInv, OfferIds
        <5>3. QED
          BY <1>0, <2>4, <5>1, <5>2
      <4>2. QED
        BY <4>1
    <3>2. i \in (Len(rows) + 1) .. Len(offers')
      BY <1>0, <2>1, <3>1 DEF OfferIds
    <3>3. QED
      BY <2>1, <3>2 DEF Live
  <2> HIDE DEF b
  <2>5. QED
    BY <2>2, <2>3, <2>4 DEF Going
<1>2. CASE RoundExhausted(rows, req)
  <2>1. PICK r \in Nat :
            \/ request' = [req EXCEPT !.manual = TRUE, !.round = r]
            \/ request' = [req EXCEPT !.status = "CANCELLED", !.manual = FALSE, !.round = r]
    BY <1>2 DEF RoundExhausted
  <2>2. request'.manual \/ request'.status = "CANCELLED"
    BY <2>1 DEF Request
  <2>3. QED
    BY <2>2 DEF Excused, Dispatching
<1>3. QED
  BY <1>1, <1>2

(* What a step does to what carries the request.                           *)
Handed == Excused' \/ UnderWay' \/ QuoteComing' \/ \E b \in OfferIds' : Going(b)'

LeftAlone ==
    /\ start' = start /\ request'.round = request.round
    /\ \A i \in OfferIds : offers[i].status \in Live => offers'[i].status \in Live

OthersEnded ==
    /\ UNCHANGED <<start, request>>
    /\ resolving \in OfferIds /\ offers[resolving].round # request.round
    /\ \A i \in OfferIds : offers[i].batch # resolving => offers'[i].status = offers[i].status

CarryMove == Handed \/ LeftAlone \/ OthersEnded

LEMMA CarryStep ==
    ASSUME TypeInv, QuoteInv, BatchInv, CancelInv, ~Excused, [DispatchNext]_dispatchVars
    PROVE  CarryMove
<1>0. /\ RowsOK /\ Len(offers) \in Nat /\ request \in Request /\ offers \in Seq(Offer)
      /\ OfferIds \subseteq 1 .. MaxOffers
  <2>1. Len(offers) \in Nat /\ Len(offers) <= MaxOffers /\ MaxOffers \in Nat
    BY StepTypes, BoundAssumption DEF RowsOK, TypeInv
  <2>2. QED
    BY <2>1, StepTypes DEF RowsOK, TypeInv, OfferIds
<1>t. /\ start \in [Starters -> [pc : {"idle", "expand", "called", "read", "write"},
                                 round : Nat, asked : SUBSET Operators]]
      /\ crashes \in Nat
  BY BoundAssumption DEF TypeInv, DispatchTypeOK
<1>n. /\ crashes = 0 /\ Dispatching /\ request.deadline = None
      /\ ~request.closed /\ ~request.manual
      /\ ~BiddingClosed /\ ~cancelling
  <2>1. /\ crashes = 0 /\ Dispatching /\ request.deadline = None
        /\ ~request.closed /\ ~request.manual
    BY DEF Excused
  <2>2. QED
    BY <2>1, NoneAssumption DEF BiddingClosed, CancelInv
<1>x. ASSUME \/ request'.status # "DISPATCHING" \/ request'.deadline # None
             \/ request'.closed \/ crashes' # 0
      PROVE  CarryMove
  BY <1>x DEF CarryMove, Handed, Excused, Dispatching
<1>l. ASSUME UNCHANGED <<start, offers>>, request'.round = request.round PROVE CarryMove
  BY <1>l DEF CarryMove, LeftAlone
<1>1. CASE UNCHANGED dispatchVars
  BY <1>1, <1>l DEF dispatchVars
<1>e. ASSUME NEW i \in OfferIds, NEW s \in {"QUOTED", "DECLINED"},
             offers' = Ended(offers, {i}, s), UNCHANGED <<start, request>>
      PROVE  CarryMove
  <2>1. s \in OfferStatuses /\ s \in Live
    BY DEF OfferStatuses, Live
  <2>2. \A k \in 1 .. Len(offers) :
            offers'[k].status = IF k \in {i} THEN s ELSE offers[k].status
    BY <1>0, <1>e, <2>1, EndedRows
  <2>3. QED
    BY <1>e, <2>1, <2>2 DEF CarryMove, LeftAlone, OfferIds
<1>2. ASSUME NEW i \in OfferIds, Quote(i) \/ ClaimQuote(i) \/ Decline(i) PROVE CarryMove
  BY <1>2, <1>e, <1>l, <1>n DEF Quote, ClaimQuote, Decline
<1>3. ASSUME NEW i \in OfferIds, BeginCollection(i) PROVE CarryMove
  <2>1. request'.deadline = CollectTime
    BY <1>0, <1>3, <1>n DEF BeginCollection, Request
  <2>2. request'.deadline # None
    BY <2>1, WindowsAreWindows
  <2>3. QED
    BY <1>x, <2>2
<1>4. ASSUME NEW i \in OfferIds, EarlyRead(i) \/ EarlyPull(i) PROVE CarryMove
  <2>1. request'.round = request.round
    BY <1>0, <1>4 DEF EarlyRead, EarlyPull, Request
  <2>2. QED
    BY <1>4, <1>l, <2>1 DEF EarlyRead, EarlyPull
<1>u. ASSUME NEW s \in Starters, start'[s].pc # "idle" PROVE CarryMove
  BY <1>u DEF CarryMove, Handed, UnderWay
<1>5. ASSUME NEW s \in Starters, StartRead(s) PROVE CarryMove
  <2>1. start'[s].pc = "read"
    BY <1>5, <1>n, <1>t DEF StartRead, NoStart
  <2>2. QED
    BY <1>u, <2>1
<1>6. ASSUME NEW s \in Starters, StartCheck(s) PROVE CarryMove
  <2>1. CASE Quoted # {}
    <3>1. QuoteComing
      BY <1>n, <2>1 DEF QuoteInv
    <3>2. QuoteComing'
      BY <1>6, <3>1 DEF StartCheck, QuoteComing, OfferIds
    <3>3. QED
      BY <3>2 DEF CarryMove, Handed
  <2>2. CASE Quoted = {}
    <3>1. start'[s].pc = "write"
      BY <1>6, <1>n, <1>t, <2>2 DEF StartCheck
    <3>2. QED
      BY <1>u, <3>1
  <2>3. QED
    BY <2>1, <2>2
<1>7. ASSUME NEW s \in Starters, StartWrite(s) PROVE CarryMove
  <2>1. PrepareNextRound(offers, request, start[s].round, start[s].asked)
    BY <1>7 DEF StartWrite
  <2>2. RoundOpened(offers, request) \/ RoundExhausted(offers, request)
    BY <1>0, <2>1, StepTypes, NextRound DEF Request, TypeInv
  <2>3. QED
    BY <1>0, <2>2, RoundCarries DEF CarryMove, Handed
<1>8. CASE ExpandRead \/ ExpandWrite
  <2>1. "admin" \in Starters
    BY DEF Starters
  <2>2. start'["admin"].pc # "idle"
    BY <1>8, <1>t, <2>1 DEF ExpandRead, ExpandWrite, NoStart
  <2>3. QED
    BY <1>u, <2>1, <2>2
<1>9. CASE ManualCheck \/ \E o \in Operators : ManualRead(o)
  BY <1>9, <1>l DEF ManualCheck, ManualRead
<1>10. CASE ManualWrite
  <2>1. /\ manual.op \in Operators /\ manual.left \in 0 .. OfferTime
        /\ request.round \in Nat /\ Len(offers) < MaxOffers
    BY <1>0, <1>10 DEF ManualNamesOne, ManualWrite, DispatchTypeOK, TypeInv, Request
  <2>2. request'.round = request.round /\ start' = start
    BY <1>0, <1>10 DEF ManualWrite, Request
  <2>3. \/ UNCHANGED offers
        \/ offers' = Append(offers, NewOffer(manual.op, "PENDING", manual.left,
                                             Len(offers) + 1, request.round))
    BY <1>10 DEF ManualWrite
  <2>4. CASE offers' = Append(offers, NewOffer(manual.op, "PENDING", manual.left,
                                               Len(offers) + 1, request.round))
    <3>1. \A i \in OfferIds : offers'[i] = offers[i]
      BY <1>0, <2>1, <2>4, AppendedRowsGrow DEF OfferStatuses
    <3>2. QED
      BY <2>2, <3>1 DEF CarryMove, LeftAlone
  <2>5. QED
    BY <1>l, <2>2, <2>3, <2>4
<1>11. CASE \/ Cancel \/ QuoteSelectionTimeout \/ \E o \in Operators : AssignOperator(o)
            \/ \E i \in OfferIds : SelectQuote(i)
  <2>1. request'.status # "DISPATCHING"
    BY <1>0, <1>11 DEF Cancel, QuoteSelectionTimeout, AssignOperator, SelectQuote, Request
  <2>2. QED
    BY <1>x, <2>1
<1>12. CASE CancelOffers \/ OfferSweep
  BY <1>12, <1>n DEF CancelOffers, OfferSweep
<1>13. ASSUME NEW b \in OfferIds, BatchQuery(b) PROVE CarryMove
  BY <1>13, <1>l DEF BatchQuery
<1>14. CASE BatchResolve
  <2> DEFINE round == offers[resolving].round
             rows == Ended(offers, Expired(resolving), "TIMED_OUT")
             advanced == [request EXCEPT !.round = round + 1]
             mine == Dispatching /\ request.deadline = None /\ request.round = round
  <2>1. resolving \in OfferIds
    BY <1>14 DEF DispatchTypeOK, BatchResolve, TypeInv
  <2>2. round \in Nat /\ round + 1 \in Nat
    <3>1. round \in Nat
      BY <2>1, StepTypes DEF Offer, TypeInv
    <3>2. QED
      BY <3>1
  <2>3. /\ rows \in Seq(Offer) /\ Len(rows) = Len(offers)
        /\ \A i \in 1 .. Len(offers) :
              /\ rows[i].status = IF i \in Expired(resolving) THEN "TIMED_OUT"
                                  ELSE offers[i].status
              /\ rows[i].batch = offers[i].batch
    <3>1. "TIMED_OUT" \in OfferStatuses
      BY DEF OfferStatuses
    <3>2. QED
      BY <1>0, <3>1, EndedRows
  <2>4. \/ ~mine /\ offers' = rows /\ UNCHANGED <<request, start>>
        \/ request' = [advanced EXCEPT !.closed = TRUE, !.selection = SelectTime]
        \/ PrepareNextRound(rows, advanced, round + 1, request.asked)
    BY <1>14, Zenon DEF BatchResolve
  <2>5. CASE ~mine /\ offers' = rows /\ UNCHANGED <<request, start>>
    <3>1. request.round # round
      BY <1>n, <2>5
    <3>2. \A i \in Expired(resolving) : offers[i].batch = resolving
      BY DEF Expired
    <3> HIDE DEF rows
    <3>3. \A i \in OfferIds : offers[i].batch # resolving => offers'[i].status = offers[i].status
      BY <2>3, <2>5, <3>2 DEF OfferIds
    <3>4. QED
      BY <2>1, <2>5, <3>1, <3>3 DEF CarryMove, OthersEnded
  <2>6. CASE request' = [advanced EXCEPT !.closed = TRUE, !.selection = SelectTime]
    <3>1. request'.closed
      BY <1>0, <2>6 DEF Request
    <3>2. QED
      BY <1>x, <3>1
  <2>7. CASE PrepareNextRound(rows, advanced, round + 1, request.asked)
    <3>1. /\ request.asked \in SUBSET Operators
          /\ request.deadline \in {None} \cup 0 .. CollectTime
      BY <1>0 DEF Request
    <3>2. advanced \in Request
      BY <1>0, <2>2 DEF Request
    <3> HIDE DEF round, rows, advanced
    <3>3. RoundOpened(rows, advanced) \/ RoundExhausted(rows, advanced)
      BY <2>2, <2>3, <2>7, <3>1, NextRound
    <3>4. QED
      BY <2>3, <3>2, <3>3, RoundCarries DEF CarryMove, Handed, OfferIds
  <2>8. QED
    BY <2>4, <2>5, <2>6, <2>7
<1>15. CASE BiddingClose
  BY <1>15, <1>n, NoneAssumption DEF BiddingClose
<1>16. ASSUME NEW d \in Senders, SendShortlist(d) \/ OpenChoice(d) PROVE CarryMove
  BY <1>16, <1>l DEF SendShortlist, OpenChoice
<1>17. CASE Tick
  <2>1. offers' = [i \in OfferIds |-> [offers[i] EXCEPT !.left = Sooner(@)]]
        /\ start' = start
    BY <1>17 DEF Tick
  <2>2. \A k \in OfferIds : offers'[k].status = offers[k].status
    BY <2>1, StepTypes DEF Offer, TypeInv
  <2>3. request'.round = request.round
    BY <1>0, <1>17 DEF Tick, Request
  <2>4. QED
    BY <2>1, <2>2, <2>3 DEF CarryMove, LeftAlone
<1>18. CASE Restart
  BY <1>18, <1>t, <1>x DEF Restart
<1>19. QED
  BY <1>1, <1>2, <1>3, <1>4, <1>5, <1>6, <1>7, <1>8, <1>9, <1>10, <1>11, <1>12, <1>13, <1>14,
     <1>15, <1>16, <1>17, <1>18
     DEF DispatchNext, OperatorStep, HandleReply, StartStep, AdminStep, CustomerStep,
         ReconcilerStep, DeliveryStep

(* Staff are asked until a round opens again or the search is over.        *)
LEMMA StaffStep ==
    ASSUME TypeInv, BatchInv, request.manual, [DispatchNext]_dispatchVars
    PROVE  request'.manual \/ Handed
<1>0. /\ RowsOK /\ Len(offers) \in Nat /\ request \in Request /\ offers \in Seq(Offer)
  BY StepTypes DEF RowsOK, TypeInv
<1>1. ASSUME NEW s \in Starters, StartWrite(s) PROVE Handed
  <2>1. PrepareNextRound(offers, request, start[s].round, start[s].asked)
    BY <1>1 DEF StartWrite
  <2>2. RoundOpened(offers, request) \/ RoundExhausted(offers, request)
    BY <1>0, <2>1, StepTypes, NextRound DEF Request, TypeInv
  <2>3. QED
    BY <1>0, <2>2, RoundCarries DEF Handed
<1>2. CASE BatchResolve
  <2> DEFINE round == offers[resolving].round
             rows == Ended(offers, Expired(resolving), "TIMED_OUT")
             advanced == [request EXCEPT !.round = round + 1]
  <2>1. resolving \in OfferIds
    BY <1>2 DEF DispatchTypeOK, BatchResolve, TypeInv
  <2>2. round \in Nat /\ round + 1 \in Nat
    <3>1. round \in Nat
      BY <2>1, StepTypes DEF Offer, TypeInv
    <3>2. QED
      BY <3>1
  <2>3. /\ rows \in Seq(Offer) /\ Len(rows) = Len(offers)
        /\ \A i \in 1 .. Len(offers) : rows[i].batch = offers[i].batch
    <3>1. "TIMED_OUT" \in OfferStatuses
      BY DEF OfferStatuses
    <3>2. QED
      BY <1>0, <3>1, EndedRows
  <2>4. \/ UNCHANGED request
        \/ request' = [advanced EXCEPT !.closed = TRUE, !.selection = SelectTime]
        \/ PrepareNextRound(rows, advanced, round + 1, request.asked)
    BY <1>2, Zenon DEF BatchResolve
  <2>5. CASE request' = [advanced EXCEPT !.closed = TRUE, !.selection = SelectTime]
    BY <1>0, <2>5 DEF Request
  <2>6. CASE PrepareNextRound(rows, advanced, round + 1, request.asked)
    <3>1. /\ request.asked \in SUBSET Operators
          /\ request.deadline \in {None} \cup 0 .. CollectTime
      BY <1>0 DEF Request
    <3>2. advanced \in Request
      BY <1>0, <2>2 DEF Request
    <3> HIDE DEF round, rows, advanced
    <3>3. RoundOpened(rows, advanced) \/ RoundExhausted(rows, advanced)
      BY <2>2, <2>3, <2>6, <3>1, NextRound
    <3>4. QED
      BY <2>3, <3>2, <3>3, RoundCarries DEF Handed, OfferIds
  <2>7. QED
    BY <2>4, <2>5, <2>6
<1>3. CASE \/ Cancel \/ QuoteSelectionTimeout \/ \E o \in Operators : AssignOperator(o)
           \/ \E i \in OfferIds : SelectQuote(i)
  <2>1. request'.status # "DISPATCHING"
    <3>1. \/ request' = [request EXCEPT !.status = "CANCELLED", !.manual = FALSE]
          \/ request' = [request EXCEPT !.status = "WAITING_FOR_DEPOSIT", !.manual = FALSE]
          \/ request' = [request EXCEPT !.status = "WAITING_FOR_DEPOSIT"]
      BY <1>3 DEF Cancel, QuoteSelectionTimeout, AssignOperator, SelectQuote
    <3>2. ASSUME NEW s \in {"CANCELLED", "WAITING_FOR_DEPOSIT"},
                 \/ request' = [request EXCEPT !.status = s, !.manual = FALSE]
                 \/ request' = [request EXCEPT !.status = s]
          PROVE  request'.status # "DISPATCHING"
      <4>1. request'.status = s
        BY <1>0, <3>2 DEF Request
      <4>2. QED
        BY <4>1
    <3>3. QED
      BY <3>1, <3>2
  <2>2. QED
    BY <2>1 DEF Handed, Excused, Dispatching
<1>4. CASE \/ ExpandRead \/ ExpandWrite \/ ManualCheck \/ ManualWrite
           \/ \E o \in Operators : ManualRead(o)
  BY <1>0, <1>4 DEF ExpandRead, ExpandWrite, ManualCheck, ManualWrite, ManualRead, Request
<1>5. CASE \E i \in OfferIds : Quote(i) \/ Decline(i) \/ HandleReply(i)
  BY <1>0, <1>5 DEF Quote, Decline, HandleReply, ClaimQuote, BeginCollection, EarlyRead,
                    EarlyPull, Request
<1>6. CASE Tick \/ BiddingClose
  BY <1>0, <1>6 DEF Tick, BiddingClose, Request
<1>7. CASE \/ UNCHANGED dispatchVars \/ CancelOffers \/ OfferSweep \/ Restart
           \/ \E b \in OfferIds : BatchQuery(b)
           \/ \E d \in Senders : DeliveryStep(d)
           \/ \E s \in Starters : StartRead(s) \/ StartCheck(s)
  BY <1>7 DEF dispatchVars, CancelOffers, OfferSweep, Restart, BatchQuery, DeliveryStep,
              SendShortlist, OpenChoice, StartRead, StartCheck
<1>8. QED
  BY <1>1, <1>2, <1>3, <1>4, <1>5, <1>6, <1>7
     DEF DispatchNext, OperatorStep, StartStep, AdminStep, CustomerStep, ReconcilerStep

LEMMA HandedIsCarried ==
    ASSUME Handed
    PROVE  Carried'
BY DEF Handed, Carried

LEMMA ExcusedStep ==
    ASSUME TypeInv, BatchInv, Excused, [DispatchNext]_dispatchVars
    PROVE  Excused' \/ Handed
<1>1. CASE crashes # 0
  BY <1>1, ReplyStep DEF ReplyMove, Crashes, Excused
<1>2. CASE ~Dispatching
  BY <1>2, NeverBack DEF Excused
<1>3. CASE request.deadline # None
  BY <1>3, DeadlineStep DEF Excused
<1>4. CASE request.closed
  <2>1. CloseMove
    BY RequestStep DEF TypeInv, RequestMove
  <2>2. QED
    BY <1>4, <2>1 DEF CloseMove, Excused
<1>5. CASE request.manual
  BY <1>5, StaffStep DEF Excused
<1>6. QED
  BY <1>1, <1>2, <1>3, <1>4, <1>5 DEF Excused

LEMMA CarriedStep ==
    ASSUME TypeInv, QuoteInv, BatchInv, CancelInv, Carried, [DispatchNext]_dispatchVars
    PROVE  Carried'
<1>0. RowsOK /\ Len(offers) \in Nat
  BY StepTypes DEF TypeInv
<1>1. CASE Excused
  BY <1>1, ExcusedStep, HandedIsCarried DEF Carried
<1>2. CASE ~Excused /\ Handed
  BY <1>2, HandedIsCarried
<1>r. /\ OfferIds \subseteq OfferIds'
      /\ \A i \in OfferIds : /\ offers'[i].batch = offers[i].batch
                             /\ offers'[i].round = offers[i].round
      /\ \A i \in OfferIds' : i \notin OfferIds => offers'[i].batch = Len(offers) + 1
  <2>1. OfferIds \subseteq OfferIds'
    BY RowsAfter
  <2>2. CASE Turned(offers, offers')
    BY <1>0, <2>1, <2>2 DEF Turned, OfferIds
  <2>3. ASSUME NEW i \in OfferIds, Claims(i)
        PROVE  /\ Len(offers') = Len(offers)
               /\ \A k \in OfferIds : /\ offers'[k].batch = offers[k].batch
                                      /\ offers'[k].round = offers[k].round
    <3>1. "QUOTED" \in OfferStatuses
      BY DEF OfferStatuses
    <3>2. QED
      BY <1>0, <2>3, <3>1, EndedRows DEF Claims, RowsOK, OfferIds
  <2>4. CASE \E i \in OfferIds : Claims(i)
    BY <2>1, <2>3, <2>4 DEF OfferIds
  <2>5. QED
    BY <2>2, <2>4, TurnStep
<1>3. CASE ~Excused /\ QuoteComing
  <2>1. CASE Excused'
    BY <2>1 DEF Carried
  <2>2. CASE ~Excused'
    <3>1. crashes' = 0 /\ request'.deadline = None
      BY <2>2 DEF Excused
    <3>2. QED
      BY <1>3, <3>1, ComingStep DEF Carried
  <2>3. QED
    BY <2>1, <2>2
<1>4. CASE ~Excused /\ UnderWay /\ (LeftAlone \/ OthersEnded)
  BY <1>4 DEF LeftAlone, OthersEnded, UnderWay, Carried
<1>5. ASSUME NEW b \in OfferIds, Going(b), LeftAlone \/ OthersEnded PROVE Going(b)'
  <2>1. /\ b \in OfferIds' /\ offers'[b].batch = b
        /\ offers'[b].round = request.round /\ request'.round = request.round
    BY <1>5, <1>r DEF Going, LeftAlone, OthersEnded
  <2>2. b # Len(offers) + 1
    BY <1>0 DEF OfferIds
  <2>3. ASSUME NEW i \in OfferIds', offers'[i].batch = b PROVE offers'[i].status \in Live
    <3>1. i \in OfferIds /\ offers[i].batch = b
      BY <1>r, <2>2, <2>3
    <3>2. offers[i].status \in Live
      BY <1>5, <3>1 DEF Going
    <3>3. CASE LeftAlone
      BY <3>1, <3>2, <3>3 DEF LeftAlone
    <3>4. CASE OthersEnded
      <4>1. b # resolving
        BY <1>5, <3>4 DEF Going, OthersEnded
      <4>2. QED
        BY <3>1, <3>2, <3>4, <4>1 DEF OthersEnded
    <3>5. QED
      BY <1>5, <3>3, <3>4
  <2>4. QED
    BY <2>1, <2>3 DEF Going
<1>6. CASE ~Excused /\ (\E b \in OfferIds : Going(b)) /\ (LeftAlone \/ OthersEnded)
  BY <1>5, <1>6, <1>r DEF Carried
<1>7. QED
  BY <1>1, <1>2, <1>3, <1>4, <1>6, CarryStep DEF CarryMove, Carried

(* OnlyDeclinesStrand: with nothing under way and no restart, a request    *)
(* being dispatched is one a check or a person will come back to, or every *)
(* operator of some batch has declined (maybeResolveBatchEarly only moves  *)
(* the expiry of offers BatchResolveCheck will not look at).               *)
THEOREM DeclinesAloneStrand == DispatchSpec => []OnlyDeclinesStrand
<1> DEFINE Inv == TypeInv /\ QuoteInv /\ BatchInv /\ CancelInv /\ Carried
<1>1. DispatchInit => Inv
  <2>1. SUFFICES ASSUME DispatchInit PROVE Inv
    OBVIOUS
  <2>2. BatchInv /\ CancelInv
    BY <2>1 DEF DispatchInit, BatchInv, CancelInv, OfferIds
  <2>3. start["customer"].pc = "called" /\ "customer" \in Starters
    BY <2>1 DEF DispatchInit, NoStart, Starters
  <2>4. Carried
    BY <2>3 DEF Carried, UnderWay
  <2>5. QED
    BY <2>1, <2>2, <2>4, TypeInit, QuoteInit
<1>2. Inv /\ [DispatchNext]_dispatchVars => Inv'
  BY TypeStep, QuoteStep, BatchStep, CancelStep, CarriedStep
<1>3. Inv => OnlyDeclinesStrand
  <2>1. SUFFICES ASSUME Inv, Dispatching, Quiet, crashes = 0, ~Watched
                 PROVE  \E b \in OfferIds :
                           /\ offers[b].batch = b
                           /\ \A i \in OfferIds :
                                 offers[i].batch = b => offers[i].status = "DECLINED"
    BY DEF OnlyDeclinesStrand
  <2>2. ~Excused /\ Pending = {}
    BY <2>1 DEF Watched, Excused
  <2>3. ~UnderWay /\ ~QuoteComing
    BY <2>1 DEF Quiet, UnderWay, QuoteComing
  <2>4. PICK b \in OfferIds : Going(b)
    BY <2>1, <2>2, <2>3 DEF Carried
  <2>5. Quoted = {}
    BY <2>1, <2>2, <2>3 DEF QuoteInv, Excused
  <2>6. \A i \in OfferIds : offers[i].batch = b => offers[i].status = "DECLINED"
    BY <2>2, <2>4, <2>5 DEF Going, Live, Pending, Quoted, Having
  <2>7. QED
    BY <2>4, <2>6 DEF Going
<1>4. QED
  BY <1>1, <1>2, <1>3, PTL DEF DispatchSpec

-----------------------------------------------------------------------------
(* Bidding that is closed has a window for choosing.                       *)
LEMMA WindowStep ==
    ASSUME TypeInv, ClosedBiddingHasAWindow, [DispatchNext]_dispatchVars
    PROVE  ClosedBiddingHasAWindow'
<1>1. CloseMove /\ request \in Request /\ request' \in Request
  BY RequestStep, StepTypes DEF TypeInv, RequestMove
<1>2. SelectTime \in Nat /\ SelectTime # None /\ None \notin Nat
  BY TimeAssumption, NoneAssumption
<1>3. /\ request.selection = None => Sooner(request.selection) = None
      /\ request.selection # None => Sooner(request.selection) # None
  BY <1>1, <1>2, SoonerIsSooner DEF Request
<1>4. QED
  BY <1>1, <1>2, <1>3 DEF CloseMove, MayClose, ClosedBiddingHasAWindow, Request

(* If bidding was closed without a deadline, the handler of the first      *)
(* quote is still to set it, the reconciler has no batch in hand, and no   *)
(* offer written since can have expired: a handler is under way at one     *)
(* tick at most.                                                           *)
Age == IF late THEN OfferTime - 1 ELSE OfferTime

ManualFresh ==
    crashes = 0 /\ request.deadline = None /\ manual.pc # "idle" => manual.left >= Age

CloseFresh ==
    crashes = 0 /\ request.deadline = None /\ request.closed =>
        /\ QuoteComing
        /\ resolving = None
        /\ \A i \in Pending : offers[i].left >= Age

LEMMA AgeIsATime ==
    ASSUME TypeInv
    PROVE  Age \in Int /\ Age <= OfferTime /\ OfferTime - 1 <= Age /\ OfferTime \in Nat
BY TimeAssumption DEF Age, TypeInv, DispatchTypeOK

LEMMA ManualFreshStep ==
    ASSUME TypeInv, ManualFresh, [DispatchNext]_dispatchVars
    PROVE  ManualFresh'
<1> SUFFICES ASSUME crashes' = 0, request'.deadline = None, manual'.pc # "idle"
             PROVE  manual'.left >= Age'
  BY DEF ManualFresh
<1>0. crashes = 0 /\ request.deadline = None
  BY ReplyStep, DeadlineStep DEF ReplyMove, Crashes
<1>1. manual \in [pc : {"idle", "read", "write"}, op : Operators \cup {None},
                  left : 0 .. OfferTime] /\ OfferTime \in Nat
  BY TimeAssumption DEF TypeInv, DispatchTypeOK
<1>2. CASE late' = late /\ manual' = manual
  BY <1>0, <1>2 DEF ManualFresh, Age
<1>3. ASSUME NEW o \in Operators, ManualRead(o) PROVE manual'.left >= Age'
  <2>1. Clamped(OfferTime) = OfferTime
    BY <1>0, StepTypes, ClampedIsAWindow DEF TypeInv, Request
  <2>2. manual'.left = OfferTime /\ Age' = Age
    BY <1>3, <2>1 DEF ManualRead, Age
  <2>3. QED
    BY <2>2, AgeIsATime
<1>4. CASE ManualCheck
  <2>1. manual' = [manual EXCEPT !.pc = "write"] /\ late' = late
    BY <1>4 DEF ManualCheck, NoManual
  <2>2. manual.pc # "idle" /\ manual'.left = manual.left
    BY <1>1, <1>4, <2>1 DEF ManualCheck
  <2>3. QED
    BY <1>0, <2>1, <2>2 DEF ManualFresh, Age
<1>5. CASE ManualWrite \/ Restart
  BY <1>5 DEF ManualWrite, Restart, NoManual
<1>6. CASE Tick
  <2>1. manual' = [manual EXCEPT !.left = Sooner(@)] /\ late' = ~Quiet /\ (late => Quiet)
    BY <1>6 DEF Tick
  <2>2. manual.pc # "idle"
    BY <1>1, <2>1
  <2>3. ~Quiet
    BY <2>2 DEF Quiet
  <2>4. ~late /\ late' = TRUE
    BY <2>1, <2>3
  <2>5. manual.left >= OfferTime
    BY <1>0, <2>2, <2>4 DEF ManualFresh, Age
  <2>6. manual'.left = Sooner(manual.left)
    BY <1>1, <2>1
  <2>7. Sooner(manual.left) >= OfferTime - 1
    BY <1>1, <2>5, TimeAssumption DEF Sooner
  <2>8. QED
    BY <2>4, <2>6, <2>7 DEF Age
<1>7. QED
  BY <1>2, <1>3, <1>4, <1>5, <1>6
     DEF DispatchNext, OperatorStep, HandleReply, StartStep, AdminStep, CustomerStep,
         ReconcilerStep, DeliveryStep, Quote, Decline, ClaimQuote, BeginCollection, EarlyRead,
         EarlyPull, StartRead, StartCheck, StartWrite, ExpandRead, ExpandWrite,
         AssignOperator, Cancel, CancelOffers, SelectQuote, BatchQuery, BatchResolve,
         BiddingClose, QuoteSelectionTimeout, OfferSweep, SendShortlist, OpenChoice,
         dispatchVars

(* The time left of the offers a step leaves pending.                      *)
LeftMove ==
    /\ late' = late
    /\ \A i \in Pending' :
          \/ i \in Pending /\ offers'[i].left = offers[i].left
          \/ offers'[i].left = Clamped(OfferTime)
          \/ manual.pc # "idle" /\ offers'[i].left = manual.left

LEMMA EndingLeaves ==
    ASSUME RowsOK, NEW S, NEW s \in OfferStatuses \ {"PENDING"}, offers' = Ended(offers, S, s),
           late' = late
    PROVE  LeftMove
<1>1. /\ Len(offers') = Len(offers)
      /\ \A i \in 1 .. Len(offers) :
            /\ offers'[i].status = IF i \in S THEN s ELSE offers[i].status
            /\ i \notin S => offers'[i] = offers[i]
  BY EndedRows DEF RowsOK
<1>2. QED
  BY <1>1 DEF LeftMove, Pending, Having, OfferIds

LEMMA LeftStep ==
    ASSUME TypeInv, [DispatchNext]_dispatchVars, request.deadline = None,
           request'.deadline = None, resolving = None
    PROVE  LeftMove \/ Tick
<1> USE DEF OfferStatuses
<1>0. /\ RowsOK /\ Len(offers) \in Nat /\ request \in Request /\ offers \in Seq(Offer)
  BY StepTypes DEF RowsOK, TypeInv
<1>u. ASSUME UNCHANGED <<offers, late>> PROVE LeftMove
  BY <1>u DEF LeftMove, Pending, Having, OfferIds
<1>e. ASSUME NEW S, NEW s \in OfferStatuses \ {"PENDING"}, offers' = Ended(offers, S, s),
             late' = late
      PROVE  LeftMove
  BY <1>0, <1>e, EndingLeaves
<1>1. CASE UNCHANGED dispatchVars
  BY <1>1, <1>u DEF dispatchVars
<1>2. ASSUME NEW i \in OfferIds, Quote(i) \/ ClaimQuote(i) \/ Decline(i) PROVE LeftMove
  BY <1>2, <1>e, <1>u DEF Quote, ClaimQuote, Decline
<1>3. ASSUME NEW i \in OfferIds, BeginCollection(i) PROVE FALSE
  <2>1. request'.deadline = CollectTime
    BY <1>0, <1>3 DEF BeginCollection, Request
  <2>2. QED
    BY <2>1, WindowsAreWindows
<1>4. ASSUME NEW i \in OfferIds, EarlyRead(i) \/ EarlyPull(i) PROVE LeftMove
  BY <1>4, <1>u DEF EarlyRead, EarlyPull
<1>5. ASSUME NEW s \in Starters, StartRead(s) \/ StartCheck(s) PROVE LeftMove
  BY <1>5, <1>u DEF StartRead, StartCheck
<1>6. ASSUME NEW s \in Starters, StartWrite(s) PROVE LeftMove
  <2>1. PrepareNextRound(offers, request, start[s].round, start[s].asked) /\ late' = late
    BY <1>6 DEF StartWrite
  <2>2. RoundOpened(offers, request) \/ RoundExhausted(offers, request)
    BY <1>0, <2>1, StepTypes, NextRound DEF Request, TypeInv
  <2>3. CASE RoundOpened(offers, request)
    <3>1. /\ offers' \in Seq(Offer)
          /\ \A i \in 1 .. Len(offers) : offers'[i] = offers[i]
          /\ \A i \in (Len(offers) + 1) .. Len(offers') : offers'[i].left = Clamped(OfferTime)
      BY <2>3 DEF RoundOpened
    <3>2. ASSUME NEW i \in Pending', i \in OfferIds
          PROVE  i \in Pending /\ offers'[i].left = offers[i].left
      BY <3>1, <3>2 DEF Pending, Having, OfferIds
    <3>3. ASSUME NEW i \in Pending', i \notin OfferIds
          PROVE  offers'[i].left = Clamped(OfferTime)
      BY <1>0, <3>1, <3>3 DEF Pending, Having, OfferIds
    <3>4. QED
      BY <2>1, <3>2, <3>3 DEF LeftMove
  <2>4. CASE RoundExhausted(offers, request)
    <3> DEFINE gone == {i \in DOMAIN offers : offers[i].status = "PENDING"}
    <3>1. offers' = offers \/ offers' = Ended(offers, gone, "TIMED_OUT")
      BY <2>4 DEF RoundExhausted
    <3> HIDE DEF gone
    <3>2. QED
      BY <1>e, <1>u, <2>1, <3>1
  <2>5. QED
    BY <2>2, <2>3, <2>4
<1>7. CASE ExpandRead \/ ExpandWrite \/ ManualCheck \/ \E o \in Operators : ManualRead(o)
  BY <1>7, <1>u DEF ExpandRead, ExpandWrite, ManualCheck, ManualRead
<1>a. ASSUME NEW o \in Operators, NEW s \in {"PENDING", "SELECTED_PENDING_PAYMENT"},
             NEW left \in 0 .. OfferTime, Len(offers) < MaxOffers, late' = late,
             s = "PENDING" => manual.pc # "idle" /\ left = manual.left,
             offers' = Append(offers, NewOffer(o, s, left, Len(offers) + 1, request.round))
      PROVE  LeftMove
  <2>1. request.round \in Nat /\ s \in OfferStatuses
    BY <1>0 DEF Request
  <2>2. /\ Len(offers') = Len(offers) + 1
        /\ \A i \in OfferIds : offers'[i] = offers[i]
        /\ offers'[Len(offers) + 1].status = s
        /\ offers'[Len(offers) + 1].left = left
    BY <1>0, <1>a, <2>1, AppendedRowsGrow
  <2>3. ASSUME NEW i \in Pending', i \in OfferIds
        PROVE  i \in Pending /\ offers'[i].left = offers[i].left
    BY <2>2, <2>3 DEF Pending, Having, OfferIds
  <2>4. ASSUME NEW i \in Pending', i \notin OfferIds
        PROVE  manual.pc # "idle" /\ offers'[i].left = manual.left
    <3>1. i = Len(offers) + 1
      BY <1>0, <2>2, <2>4 DEF Pending, Having, OfferIds
    <3>2. s = "PENDING"
      BY <2>2, <3>1 DEF Pending, Having
    <3>3. QED
      BY <1>a, <2>2, <3>1, <3>2
  <2>5. QED
    BY <1>a, <2>3, <2>4 DEF LeftMove
<1>8. CASE ManualWrite
  <2>1. /\ manual.op \in Operators /\ manual.left \in 0 .. OfferTime /\ Len(offers) < MaxOffers
        /\ manual.pc # "idle" /\ late' = late
    BY <1>0, <1>8 DEF ManualNamesOne, ManualWrite, DispatchTypeOK, TypeInv
  <2>2. \/ UNCHANGED offers
        \/ offers' = Append(offers, NewOffer(manual.op, "PENDING", manual.left,
                                             Len(offers) + 1, request.round))
    BY <1>8 DEF ManualWrite
  <2>3. QED
    BY <1>u, <1>a, <2>1, <2>2
<1>9. ASSUME NEW o \in Operators, AssignOperator(o) PROVE LeftMove
  <2>1. /\ Len(offers) < MaxOffers /\ late' = late
        /\ offers' = Append(offers, NewOffer(o, "SELECTED_PENDING_PAYMENT", 0,
                                             Len(offers) + 1, request.round))
    BY <1>9 DEF AssignOperator
  <2>2. 0 \in 0 .. OfferTime
    BY TimeAssumption
  <2>3. QED
    BY <1>a, <2>1, <2>2
<1>10. CASE Cancel
  BY <1>10, <1>u DEF Cancel
<1>11. CASE CancelOffers
  <2> DEFINE one == Ended(offers, Quoted, "NOT_SELECTED")
  <2>1. /\ one \in Seq(Offer) /\ Len(one) = Len(offers)
        /\ \A i \in 1 .. Len(offers) :
              one[i].status = IF i \in Quoted THEN "NOT_SELECTED" ELSE offers[i].status
    <3>1. "NOT_SELECTED" \in OfferStatuses
      OBVIOUS
    <3> HIDE DEF OfferStatuses
    <3>2. QED
      BY <1>0, <3>1, EndedRows
  <2> HIDE DEF one
  <2>2. offers' = Ended(one, Pending, "TIMED_OUT") /\ late' = late
    BY <1>11 DEF CancelOffers, one
  <2>3. /\ Len(offers') = Len(offers)
        /\ \A i \in 1 .. Len(offers) :
              offers'[i].status = IF i \in Pending THEN "TIMED_OUT" ELSE one[i].status
    BY <2>1, <2>2, EndedRows
  <2>4. Pending' = {}
    BY <2>1, <2>3 DEF Pending, Quoted, Having, OfferIds
  <2>5. QED
    BY <2>2, <2>4 DEF LeftMove
<1>12. ASSUME NEW i \in OfferIds, SelectQuote(i) PROVE LeftMove
  <2>1. PICK j \in Quoted :
            offers' = Ended(Ended(Ended(offers, {j}, "SELECTED_PENDING_PAYMENT"),
                                  Quoted \ {j}, "NOT_SELECTED"), Pending, "TIMED_OUT")
    BY <1>12 DEF SelectQuote
  <2> DEFINE one == Ended(offers, {j}, "SELECTED_PENDING_PAYMENT")
             two == Ended(one, Quoted \ {j}, "NOT_SELECTED")
  <2>2. /\ one \in Seq(Offer) /\ Len(one) = Len(offers)
        /\ \A k \in 1 .. Len(offers) :
              one[k].status = IF k \in {j} THEN "SELECTED_PENDING_PAYMENT" ELSE offers[k].status
    BY <1>0, EndedRows
  <2> HIDE DEF one
  <2>3. /\ two \in Seq(Offer) /\ Len(two) = Len(offers)
        /\ \A k \in 1 .. Len(offers) :
              two[k].status = IF k \in Quoted \ {j} THEN "NOT_SELECTED" ELSE one[k].status
    BY <2>2, EndedRows
  <2> HIDE DEF two
  <2>4. offers' = Ended(two, Pending, "TIMED_OUT") /\ late' = late
    BY <1>12, <2>1 DEF one, two, SelectQuote
  <2>5. /\ Len(offers') = Len(offers)
        /\ \A k \in 1 .. Len(offers) :
              offers'[k].status = IF k \in Pending THEN "TIMED_OUT" ELSE two[k].status
    BY <2>3, <2>4, EndedRows
  <2>6. Pending' = {}
    BY <2>2, <2>3, <2>5 DEF Pending, Having, OfferIds
  <2>7. QED
    BY <2>4, <2>6 DEF LeftMove
<1>13. ASSUME NEW b \in OfferIds, BatchQuery(b) PROVE LeftMove
  BY <1>13, <1>u DEF BatchQuery
<1>14. CASE BatchResolve
  BY <1>14 DEF BatchResolve
<1>15. CASE BiddingClose \/ QuoteSelectionTimeout \/ OfferSweep
  BY <1>15, <1>e DEF BiddingClose, QuoteSelectionTimeout, OfferSweep
<1>16. ASSUME NEW d \in Senders, SendShortlist(d) \/ OpenChoice(d) PROVE LeftMove
  BY <1>16, <1>u DEF SendShortlist, OpenChoice
<1>17. CASE Restart
  BY <1>17, <1>u DEF Restart
<1>18. QED
  BY <1>1, <1>2, <1>3, <1>4, <1>5, <1>6, <1>7, <1>8, <1>9, <1>10, <1>11, <1>12, <1>13, <1>14,
     <1>15, <1>16, <1>17
     DEF DispatchNext, OperatorStep, HandleReply, StartStep, AdminStep, CustomerStep,
         ReconcilerStep, DeliveryStep

LEMMA ResolvingStep ==
    ASSUME [DispatchNext]_dispatchVars, resolving = None, resolving' # None
    PROVE  \E b \in OfferIds : BatchQuery(b)
BY DEF DispatchNext, OperatorStep, HandleReply, StartStep, AdminStep, CustomerStep,
       ReconcilerStep, DeliveryStep, Quote, Decline, ClaimQuote, BeginCollection, EarlyRead,
       EarlyPull, StartRead, StartCheck, StartWrite, ExpandRead, ExpandWrite, ManualRead,
       ManualCheck, ManualWrite, AssignOperator, Cancel, CancelOffers, SelectQuote,
       BatchResolve, BiddingClose, QuoteSelectionTimeout, OfferSweep, SendShortlist,
       OpenChoice, Tick, Restart, dispatchVars

(* A check that closes bidding before any deadline was set is the batch    *)
(* resolver, with a quote in hand.                                         *)
LEMMA ResolverCloses ==
    ASSUME TypeInv, [DispatchNext]_dispatchVars, ~request.closed, request'.closed,
           request.deadline = None
    PROVE  Quoted # {} /\ resolving' = None
<1>0. request \in Request /\ None # 0
  BY StepTypes, NoneAssumption DEF TypeInv
<1>1. CASE BatchResolve
  <2> DEFINE round == offers[resolving].round
             rows == Ended(offers, Expired(resolving), "TIMED_OUT")
             advanced == [request EXCEPT !.round = round + 1]
  <2>1. resolving' = None
    BY <1>1 DEF BatchResolve
  <2>2. \/ UNCHANGED request
        \/ Quoted # {}
        \/ PrepareNextRound(rows, advanced, round + 1, request.asked)
    BY <1>1, Zenon DEF BatchResolve
  <2>3. advanced \in [status : {"DISPATCHING", "WAITING_FOR_DEPOSIT", "CANCELLED"},
                      round : {round + 1}, asked : SUBSET Operators,
                      deadline : {None} \cup 0 .. CollectTime, closed : BOOLEAN,
                      selection : {None} \cup 0 .. SelectTime, manual : BOOLEAN]
        /\ advanced.closed = request.closed
    BY <1>0 DEF Request
  <2>4. ASSUME PrepareNextRound(rows, advanced, round + 1, request.asked) PROVE FALSE
    <3> HIDE DEF rows, advanced, round
    <3>1. request'.closed = advanced.closed
      BY <2>3, <2>4 DEF PrepareNextRound, WriteRound, ResolveExhaustion
    <3>2. QED
      BY <2>3, <3>1
  <2>5. QED
    BY <2>1, <2>2, <2>4
<1>2. ASSUME ~BatchResolve PROVE FALSE
  <2>1. ~BiddingClose
    BY <1>0 DEF BiddingClose
  <2>2. ~UNCHANGED request
    OBVIOUS
  <2>3. ASSUME NEW i \in OfferIds, BeginCollection(i) \/ EarlyPull(i) PROVE FALSE
    BY <1>0, <2>3 DEF BeginCollection, EarlyPull, Request
  <2>4. ASSUME NEW s \in Starters, StartWrite(s) PROVE FALSE
    BY <1>0, <2>4 DEF StartWrite, PrepareNextRound, WriteRound, ResolveExhaustion, Request
  <2>5. ~ExpandWrite /\ ~ManualWrite /\ \A o \in Operators : ~AssignOperator(o)
    BY <1>0 DEF ExpandWrite, ManualWrite, AssignOperator, Request
  <2>6. ~Cancel /\ ~QuoteSelectionTimeout /\ ~Tick /\ \A i \in OfferIds : ~SelectQuote(i)
    BY <1>0 DEF Cancel, QuoteSelectionTimeout, Tick, SelectQuote, Request
  <2>7. QED
    BY <1>2, <2>1, <2>2, <2>3, <2>4, <2>5, <2>6
       DEF DispatchNext, OperatorStep, HandleReply, StartStep, AdminStep, CustomerStep,
           ReconcilerStep, DeliveryStep, Quote, Decline, ClaimQuote, EarlyRead, StartRead,
           StartCheck, ExpandRead, ManualRead, ManualCheck, CancelOffers, BatchQuery,
           OfferSweep, SendShortlist, OpenChoice, Restart, dispatchVars
<1>3. QED
  BY <1>1, <1>2

LEMMA CloseFreshStep ==
    ASSUME TypeInv, QuoteInv, ManualFresh, CloseFresh, OfferTime > 1,
           [DispatchNext]_dispatchVars
    PROVE  CloseFresh'
<1> SUFFICES ASSUME crashes' = 0, request'.deadline = None, request'.closed
             PROVE  /\ QuoteComing' /\ resolving' = None
                    /\ \A i \in Pending' : offers'[i].left >= Age'
  BY DEF CloseFresh
<1>0. crashes = 0 /\ request.deadline = None
  BY ReplyStep, DeadlineStep DEF ReplyMove, Crashes
<1>1. CASE ~request.closed
  <2>1. Quoted # {} /\ resolving' = None
    BY <1>0, <1>1, ResolverCloses
  <2>2. QuoteComing
    BY <1>0, <2>1 DEF QuoteInv
  <2>3. Pending' = {}
    BY <1>1, ClosingStep DEF ClosingEndsOffers
  <2>4. QED
    BY <2>1, <2>2, <2>3, ComingStep
<1>2. CASE request.closed
  <2>1. QuoteComing /\ resolving = None /\ \A i \in Pending : offers[i].left >= Age
    BY <1>0, <1>2 DEF CloseFresh
  <2>2. \A i \in OfferIds : offers[i].left \in 0 .. OfferTime
    BY StepTypes DEF TypeInv, Offer
  <2>3. resolving' = None
    <3>1. ASSUME NEW b \in OfferIds, BatchQuery(b) PROVE FALSE
      <4>1. PICK i \in Pending : offers[i].left = 0
        BY <3>1 DEF BatchQuery, Expired
      <4>2. QED
        BY <2>1, <4>1, AgeIsATime
    <3>2. QED
      BY <2>1, <3>1, ResolvingStep
  <2>4. CASE LeftMove
    <3>1. Age' = Age
      BY <2>4 DEF LeftMove, Age
    <3>2. Clamped(OfferTime) = OfferTime
      BY <1>0, StepTypes, ClampedIsAWindow DEF TypeInv, Request
    <3>3. manual.pc # "idle" => manual.left >= Age
      BY <1>0 DEF ManualFresh
    <3>4. \A i \in Pending' : offers'[i].left >= Age
      BY <2>1, <2>4, <3>2, <3>3, AgeIsATime DEF LeftMove
    <3>5. QED
      BY <2>1, <2>3, <3>1, <3>4, ComingStep
  <2>5. CASE Tick
    <3>1. ~Quiet
      BY <2>1 DEF Quiet, QuoteComing
    <3>2. Age = OfferTime /\ Age' = OfferTime - 1
      BY <2>5, <3>1 DEF Tick, Age
    <3>3. offers' = [i \in OfferIds |-> [offers[i] EXCEPT !.left = Sooner(@)]]
      BY <2>5 DEF Tick
    <3>4. OfferIds' = OfferIds
      <4>1. Len(offers) \in Nat
        BY StepTypes DEF TypeInv
      <4>2. QED
        BY <3>3, <4>1 DEF OfferIds
    <3>5. \A i \in OfferIds : offers[i] \in Offer
      BY StepTypes DEF TypeInv
    <3>6. \A i \in OfferIds : /\ offers'[i].status = offers[i].status
                              /\ offers'[i].left = Sooner(offers[i].left)
      BY <3>3, <3>5 DEF Offer
    <3>7. Pending' = Pending
      BY <3>4, <3>6 DEF Pending, Having
    <3>8. \A i \in Pending : Sooner(offers[i].left) >= OfferTime - 1
      <4>1. ASSUME NEW i \in Pending PROVE Sooner(offers[i].left) >= OfferTime - 1
        <5>1. offers[i].left >= OfferTime /\ offers[i].left \in 0 .. OfferTime
          BY <2>1, <2>2, <3>2 DEF Pending, Having
        <5>2. QED
          BY <5>1, TimeAssumption DEF Sooner
      <4>2. QED
        BY <4>1
    <3>9. \A i \in Pending' : offers'[i].left >= Age'
      BY <3>2, <3>6, <3>7, <3>8 DEF Pending, Having
    <3>10. QED
      BY <2>1, <2>3, <3>9, ComingStep
  <2>6. QED
    BY <1>0, <2>1, <2>4, <2>5, LeftStep
<1>3. QED
  BY <1>1, <1>2

LEMMA FreshInit ==
    ASSUME DispatchInit
    PROVE  ClosedBiddingHasAWindow /\ ManualFresh /\ CloseFresh
BY DEF DispatchInit, NoManual, ClosedBiddingHasAWindow, ManualFresh, CloseFresh

(* Whatever path closed the bidding opened the window for choosing in the  *)
(* same transaction (bidding-close.check.ts, batch-resolve.check.ts): with *)
(* restarts at any point, neither is ever seen without the other.          *)
THEOREM ClosedAlwaysHasAWindow == DispatchSpec => []ClosedBiddingHasAWindow
<1>1. DispatchInit => TypeInv /\ ClosedBiddingHasAWindow
  BY TypeInit, FreshInit
<1>2. /\ TypeInv /\ ClosedBiddingHasAWindow
      /\ [DispatchNext]_dispatchVars
      => TypeInv' /\ ClosedBiddingHasAWindow'
  BY TypeStep, WindowStep
<1>3. QED
  BY <1>1, <1>2, PTL DEF DispatchSpec

(* Bidding is progressed once, and the motorist's window for choosing is   *)
(* opened once, as long as the process is not restarted and an offer lives *)
(* longer than a handler may take: the resolver closes bidding again when  *)
(* it finds no deadline and an expired batch, and the handler that is      *)
(* still to set the deadline is what keeps the two apart.                  *)
THEOREM BiddingIsClosedOnce ==
    ASSUME MaxCrashes = 0, OfferTime > 1
    PROVE  DispatchSpec => BiddingClosesOnce
<1> DEFINE FreshInv == /\ TypeInv /\ QuoteInv /\ ClosedBiddingHasAWindow
                       /\ ManualFresh /\ CloseFresh
<1>1. DispatchInit => FreshInv
  BY TypeInit, QuoteInit, FreshInit
<1>2. FreshInv /\ [DispatchNext]_dispatchVars => FreshInv'
  BY TypeStep, QuoteStep, WindowStep, ManualFreshStep, CloseFreshStep
<1>3. FreshInv /\ [DispatchNext]_dispatchVars
      => [request.closed =>
            request'.closed /\ request'.selection <= request.selection]_dispatchVars
  <2> SUFFICES ASSUME TypeInv, ClosedBiddingHasAWindow, CloseFresh, request.closed,
                      [DispatchNext]_dispatchVars
               PROVE  request'.closed /\ request'.selection <= request.selection
    OBVIOUS
  <2>1. CloseMove /\ request \in Request
    BY RequestStep, StepTypes DEF TypeInv, RequestMove
  <2>2. crashes = 0
    BY DEF TypeInv, DispatchTypeOK
  <2>3. ~MayClose
    BY <2>2 DEF MayClose, CloseFresh
  <2>4. request.selection \in 0 .. SelectTime /\ SelectTime \in Nat
    BY <2>1, TimeAssumption DEF ClosedBiddingHasAWindow, Request
  <2>5. Sooner(request.selection) <= request.selection
    BY <2>4, NoneAssumption, SoonerIsSooner
  <2>6. /\ request'.closed = request.closed
        /\ request'.selection \in {request.selection, Sooner(request.selection)}
    BY <2>1, <2>3 DEF CloseMove
  <2>7. request'.selection <= request.selection
    BY <2>4, <2>5, <2>6
  <2>8. QED
    BY <2>6, <2>7
<1> HIDE DEF FreshInv
<1>4. QED
  BY <1>1, <1>2, <1>3, PTL DEF DispatchSpec, BiddingClosesOnce

=============================================================================
